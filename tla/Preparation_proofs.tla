------------------------- MODULE Preparation_proofs -------------------------
(***************************************************************************)
(* The Java and the files of an instance are ready when its game starts,   *)
(* for any number of launches, cancellations, failures and changes of the  *)
(* machine, and any number of compatible versions of Java; and the list of *)
(* its mods, or of its packs, is the folder when nothing is under way, for *)
(* any number of files, changes and requests.                              *)
(***************************************************************************)
EXTENDS Preparation, ResourceFolder, FiniteSetTheorems, WellFoundedInduction, TLAPS

Paths == Places \cup {"managed"}

SettingsTyped ==
    /\ setup \in [java : {"off", "detect", "download"}, delivery : {"manifest", "archive"},
                  ignore : BOOLEAN, checker : BOOLEAN]
    /\ machine \in [Places -> [kind : Kinds, stamp : Nat]]
    /\ setting \in Places /\ override \in Paths \cup {"none"}
    /\ runtime \subseteq Java

StepsTyped ==
    /\ step \in {"rest", "auto", "check", "game"}
    /\ work \in {"none", "probes", "list", "version", "manifest", "archive"} \cup Installing
    /\ found \subseteq Paths
    /\ disturbed \in BOOLEAN

ChecksTyped ==
    /\ stored \in [BOOLEAN -> [path : Paths \cup {"none"}, stamp : Nat, version : {"none", "fits", "old"}]]
    /\ torn \subseteq BOOLEAN
    /\ probe \in {Idle} \cup [path : Paths, stamp : Nat, kind : Kinds \cup {"broken"}]

JavaTyped == SettingsTyped /\ StepsTyped /\ ChecksTyped

(* A task that goes on behind its step was cancelled; once a later step has *)
(* begun there is none.                                                     *)
WorkIsOwn ==
    /\ step # "auto" /\ work # "none" => disturbed
    /\ step \in {"check", "game"} => work = "none"

(* The executable alone is taken for a runtime: somebody is to complete it. *)
RuntimeIsWhole == "bin" \in runtime /\ "lib" \notin runtime => work \in Installing \/ disturbed

(* What a signature says: the file it was computed for has been replaced    *)
(* since, or is what was run then.                                          *)
Signs(signature, same) ==
    signature.path \in Places =>
        /\ signature.stamp <= machine[signature.path].stamp
        /\ signature.stamp = machine[signature.path].stamp => same

ProbeIsTrue ==
    probe # Idle =>
        /\ step = "check"
        /\ Signs(probe, probe.kind = machine[probe.path].kind)
        /\ probe.path = "managed" => probe.kind = Kind("managed")

(* The launcher's own Java is stored only when it is whole, and nothing is  *)
(* installed over it from then on.  A signature never comes without a       *)
(* version, and only where a save was cut off with that of another Java, or *)
(* a version without a signature.                                           *)
StoredIsTrue ==
    \A own \in BOOLEAN :
        /\ Signs(stored[own], own \in torn \/ stored[own].version = Version(machine[stored[own].path].kind))
        /\ stored[own].path = "managed" =>
              /\ own \in torn \/ stored[own].version = "fits"
              /\ runtime = Java /\ work \in {"none", "probes"}
        /\ stored[own].version = "none" => stored[own].path = "none"
        /\ stored[own].path = "none" => own \in torn \/ stored[own].version = "none"

JavaInv == JavaTyped /\ WorkIsOwn /\ RuntimeIsWhole /\ ProbeIsTrue /\ StoredIsTrue

-----------------------------------------------------------------------------
(* The files.                                                               *)

Files == {"library", "own", "first", "second"} \cup FML

FilesTyped ==
    /\ legacy \in BOOLEAN /\ virtual \in BOOLEAN
    /\ wanted \in {1, 2} /\ assets \in {0, 1, 2}
    /\ store \subseteq Files /\ copied \subseteq FML
    /\ laid \in [Names -> {"none", "first", "second"}]
    /\ online \in BOOLEAN
    /\ fileStep \in {"rest", "libraries", "fml", "index", "objects", "offline", "finish", "game"}
    /\ job = <<>> \/ job = <<job[1]>>

(* The libraries are there or on their way, and then stay for the launch.   *)
LibrariesAreHad ==
    /\ fileStep = "libraries" /\ job # <<>> => "own" \in store /\ "library" \in store \cup job[1]
    /\ fileStep \in {"fml", "index", "objects", "finish", "game"} => {"library", "own"} \subseteq store

FMLIsHad ==
    fileStep \in {"index", "objects"} \/ (online /\ fileStep \in {"finish", "game"}) =>
        (legacy => FML \subseteq copied)

(* The index is there or on its way; its assets follow.                     *)
AssetsAreHad ==
    /\ fileStep \in {"rest", "offline", "finish", "game"} => job = <<>>
    /\ fileStep = "offline" => ~online
    /\ fileStep = "index" /\ job # <<>> => "index" \in job[1] \/ assets = wanted
    /\ fileStep = "objects" =>
          assets = wanted /\ (job # <<>> => Range(Objects(assets)) \subseteq store \cup job[1])
    /\ online /\ fileStep \in {"finish", "game"} =>
          assets = wanted /\ Range(Objects(assets)) \subseteq store
    /\ online /\ fileStep = "game" /\ virtual => "none" \notin Range(laid)

FilesInv == FilesTyped /\ LibrariesAreHad /\ FMLIsHad /\ AssetsAreHad

-----------------------------------------------------------------------------
(* Every step of the Java keeps its invariant.                              *)

LEMMA AutoInstallJavaKeeps == JavaInv /\ AutoInstallJava => JavaInv'
<1> SUFFICES ASSUME JavaInv, AutoInstallJava PROVE JavaInv'
  OBVIOUS
<1>1. JavaTyped'
  <2>1. SettingsTyped'
    BY DEF JavaInv, JavaTyped, SettingsTyped, StepsTyped, AutoInstallJava, Passes, AutoEnds, Continues, SetJavaPath, Waits, Chosen, Own, Java, Paths
  <2>2. StepsTyped'
    BY DEF JavaInv, JavaTyped, SettingsTyped, StepsTyped, AutoInstallJava, Passes, AutoEnds, Continues, SetJavaPath, Waits, Chosen, Own, Installing, Paths
  <2>3. ChecksTyped'
    BY DEF JavaInv, JavaTyped, ChecksTyped, AutoInstallJava, Passes, AutoEnds, Continues, SetJavaPath, Waits, Chosen, Own
  <2> QED
    BY <2>1, <2>2, <2>3 DEF JavaTyped
<1>2. WorkIsOwn'
  BY DEF JavaInv, JavaTyped, StepsTyped, WorkIsOwn, AutoInstallJava, Passes, AutoEnds, Continues, SetJavaPath, Waits, Chosen, Own, Installing
<1>3. RuntimeIsWhole'
  BY DEF JavaInv, JavaTyped, StepsTyped, WorkIsOwn, RuntimeIsWhole, AutoInstallJava, Passes, AutoEnds, Continues, SetJavaPath, Waits, Chosen, Own, Java, Installing
<1>4. ProbeIsTrue'
  BY DEF JavaInv, JavaTyped, SettingsTyped, ChecksTyped, ProbeIsTrue, WorkIsOwn, Signs, AutoInstallJava, Passes, AutoEnds, Continues, SetJavaPath, Waits, Chosen, Own, Kind, Idle, Places, Paths
<1>5. StoredIsTrue'
  BY DEF JavaInv, JavaTyped, SettingsTyped, ChecksTyped, StoredIsTrue, Signs, AutoInstallJava, Passes, AutoEnds, Continues, SetJavaPath, Waits, Chosen, Own, Version, Installing, Java, None
<1> QED
  BY <1>1, <1>2, <1>3, <1>4, <1>5 DEF JavaInv

LEMMA ProbesEndKeeps == JavaInv /\ ProbesEnd => JavaInv'
<1> SUFFICES ASSUME JavaInv, ProbesEnd PROVE JavaInv'
  OBVIOUS
<1>1. JavaTyped'
  <2>1. SettingsTyped'
    BY DEF JavaInv, JavaTyped, SettingsTyped, StepsTyped, ProbesEnd, Passes, AutoEnds, SetJavaPath, Waits, Java, Paths
  <2>2. StepsTyped'
    BY DEF JavaInv, JavaTyped, SettingsTyped, StepsTyped, ProbesEnd, Passes, AutoEnds, SetJavaPath, Waits, Installing, Paths
  <2>3. ChecksTyped'
    BY DEF JavaInv, JavaTyped, ChecksTyped, ProbesEnd, Passes, AutoEnds, SetJavaPath, Waits
  <2> QED
    BY <2>1, <2>2, <2>3 DEF JavaTyped
<1>2. WorkIsOwn'
  BY DEF JavaInv, JavaTyped, StepsTyped, WorkIsOwn, ProbesEnd, Passes, AutoEnds, SetJavaPath, Waits, Installing
<1>3. RuntimeIsWhole'
  BY DEF JavaInv, JavaTyped, StepsTyped, WorkIsOwn, RuntimeIsWhole, ProbesEnd, Passes, AutoEnds, SetJavaPath, Waits, Java, Installing
<1>4. ProbeIsTrue'
  BY DEF JavaInv, JavaTyped, SettingsTyped, ChecksTyped, ProbeIsTrue, WorkIsOwn, Signs, ProbesEnd, Passes, AutoEnds, SetJavaPath, Waits, Kind, Idle, Places, Paths
<1>5. StoredIsTrue'
  BY DEF JavaInv, JavaTyped, SettingsTyped, ChecksTyped, StoredIsTrue, Signs, ProbesEnd, Passes, AutoEnds, SetJavaPath, Waits, Version, Installing, Java, None
<1> QED
  BY <1>1, <1>2, <1>3, <1>4, <1>5 DEF JavaInv

LEMMA ListLoadsKeeps == JavaInv /\ ListLoads => JavaInv'
<1> SUFFICES ASSUME JavaInv, ListLoads PROVE JavaInv'
  OBVIOUS
<1>1. JavaTyped'
  <2>1. SettingsTyped'
    BY DEF JavaInv, JavaTyped, SettingsTyped, StepsTyped, ListLoads, JustWorks, TryNextMajorJava, Passes, Fails, AutoEnds, Waits, Java, Paths
  <2>2. StepsTyped'
    BY DEF JavaInv, JavaTyped, SettingsTyped, StepsTyped, ListLoads, JustWorks, TryNextMajorJava, Passes, Fails, AutoEnds, Waits, Installing, Paths
  <2>3. ChecksTyped'
    BY DEF JavaInv, JavaTyped, ChecksTyped, ListLoads, JustWorks, TryNextMajorJava, Passes, Fails, AutoEnds, Waits
  <2> QED
    BY <2>1, <2>2, <2>3 DEF JavaTyped
<1>2. WorkIsOwn'
  BY DEF JavaInv, JavaTyped, StepsTyped, WorkIsOwn, ListLoads, JustWorks, TryNextMajorJava, Passes, Fails, AutoEnds, Waits, Installing
<1>3. RuntimeIsWhole'
  BY DEF JavaInv, JavaTyped, StepsTyped, WorkIsOwn, RuntimeIsWhole, ListLoads, JustWorks, TryNextMajorJava, Passes, Fails, AutoEnds, Waits, Java, Installing
<1>4. ProbeIsTrue'
  BY DEF JavaInv, JavaTyped, SettingsTyped, ChecksTyped, ProbeIsTrue, WorkIsOwn, Signs, ListLoads, JustWorks, TryNextMajorJava, Passes, Fails, AutoEnds, Waits, Kind, Idle, Places, Paths
<1>5. StoredIsTrue'
  BY DEF JavaInv, JavaTyped, SettingsTyped, ChecksTyped, StoredIsTrue, Signs, ListLoads, JustWorks, TryNextMajorJava, Passes, Fails, AutoEnds, Waits, Version, Installing, Java, None
<1> QED
  BY <1>1, <1>2, <1>3, <1>4, <1>5 DEF JavaInv

LEMMA VersionLoadsKeeps == JavaInv /\ VersionLoads => JavaInv'
<1> SUFFICES ASSUME JavaInv, VersionLoads PROVE JavaInv'
  OBVIOUS
<1>1. JavaTyped'
  <2>1. SettingsTyped'
    BY DEF JavaInv, JavaTyped, SettingsTyped, StepsTyped, VersionLoads, JustWorks, TryNextMajorJava, Passes, Fails, AutoEnds, Continues, Waits, Java, Paths
  <2>2. StepsTyped'
    BY DEF JavaInv, JavaTyped, SettingsTyped, StepsTyped, VersionLoads, JustWorks, TryNextMajorJava, Passes, Fails, AutoEnds, Continues, Waits, Installing, Paths
  <2>3. ChecksTyped'
    BY DEF JavaInv, JavaTyped, ChecksTyped, VersionLoads, JustWorks, TryNextMajorJava, Passes, Fails, AutoEnds, Continues, Waits
  <2> QED
    BY <2>1, <2>2, <2>3 DEF JavaTyped
<1>2. WorkIsOwn'
  BY DEF JavaInv, JavaTyped, StepsTyped, WorkIsOwn, VersionLoads, JustWorks, TryNextMajorJava, Passes, Fails, AutoEnds, Continues, Waits, Installing
<1>3. RuntimeIsWhole'
  BY DEF JavaInv, JavaTyped, StepsTyped, WorkIsOwn, RuntimeIsWhole, VersionLoads, JustWorks, TryNextMajorJava, Passes, Fails, AutoEnds, Continues, Waits, Java, Installing
<1>4. ProbeIsTrue'
  BY DEF JavaInv, JavaTyped, SettingsTyped, ChecksTyped, ProbeIsTrue, WorkIsOwn, Signs, VersionLoads, JustWorks, TryNextMajorJava, Passes, Fails, AutoEnds, Continues, Waits, Kind, Idle, Places, Paths
<1>5. StoredIsTrue'
  BY DEF JavaInv, JavaTyped, SettingsTyped, ChecksTyped, StoredIsTrue, Signs, VersionLoads, JustWorks, TryNextMajorJava, Passes, Fails, AutoEnds, Continues, Waits, Version, Installing, Java, None
<1> QED
  BY <1>1, <1>2, <1>3, <1>4, <1>5 DEF JavaInv

LEMMA RuntimeLoadsKeeps == JavaInv /\ RuntimeLoads => JavaInv'
<1> SUFFICES ASSUME JavaInv, RuntimeLoads PROVE JavaInv'
  OBVIOUS
<1>1. JavaTyped'
  <2>1. SettingsTyped'
    BY DEF JavaInv, JavaTyped, SettingsTyped, StepsTyped, RuntimeLoads, JustWorks, InstallFails, Fails, AutoEnds, Continues, Waits, Heard, Java, Paths
  <2>2. StepsTyped'
    BY DEF JavaInv, JavaTyped, SettingsTyped, StepsTyped, RuntimeLoads, JustWorks, InstallFails, Fails, AutoEnds, Continues, Waits, Heard, Installing, Paths
  <2>3. ChecksTyped'
    BY DEF JavaInv, JavaTyped, ChecksTyped, RuntimeLoads, JustWorks, InstallFails, Fails, AutoEnds, Continues, Waits, Heard
  <2> QED
    BY <2>1, <2>2, <2>3 DEF JavaTyped
<1>2. WorkIsOwn'
  BY DEF JavaInv, JavaTyped, StepsTyped, WorkIsOwn, RuntimeLoads, JustWorks, InstallFails, Fails, AutoEnds, Continues, Waits, Heard, Installing
<1>3. RuntimeIsWhole'
  BY DEF JavaInv, JavaTyped, StepsTyped, WorkIsOwn, RuntimeIsWhole, RuntimeLoads, JustWorks, InstallFails, Fails, AutoEnds, Continues, Waits, Heard, Java, Installing
<1>4. ProbeIsTrue'
  BY DEF JavaInv, JavaTyped, SettingsTyped, ChecksTyped, ProbeIsTrue, WorkIsOwn, Signs, RuntimeLoads, JustWorks, InstallFails, Fails, AutoEnds, Continues, Waits, Heard, Kind, Idle, Places, Paths
<1>5. StoredIsTrue'
  BY DEF JavaInv, JavaTyped, SettingsTyped, ChecksTyped, StoredIsTrue, Signs, RuntimeLoads, JustWorks, InstallFails, Fails, AutoEnds, Continues, Waits, Heard, Version, Installing, Java, None
<1> QED
  BY <1>1, <1>2, <1>3, <1>4, <1>5 DEF JavaInv

LEMMA InstallEndsKeeps == JavaInv /\ InstallEnds => JavaInv'
<1> SUFFICES ASSUME JavaInv, InstallEnds PROVE JavaInv'
  OBVIOUS
<1>1. JavaTyped'
  <2>1. SettingsTyped'
    BY DEF JavaInv, JavaTyped, SettingsTyped, StepsTyped, InstallEnds, JustWorks, InstallFails, SetJavaPathFromPartial, SetJavaPath, Passes, Fails, AutoEnds, Waits, Heard, Java, Paths
  <2>2. StepsTyped'
    BY DEF JavaInv, JavaTyped, SettingsTyped, StepsTyped, InstallEnds, JustWorks, InstallFails, SetJavaPathFromPartial, SetJavaPath, Passes, Fails, AutoEnds, Waits, Heard, Installing, Paths
  <2>3. ChecksTyped'
    BY DEF JavaInv, JavaTyped, ChecksTyped, InstallEnds, JustWorks, InstallFails, SetJavaPathFromPartial, SetJavaPath, Passes, Fails, AutoEnds, Waits, Heard
  <2> QED
    BY <2>1, <2>2, <2>3 DEF JavaTyped
<1>2. WorkIsOwn'
  BY DEF JavaInv, JavaTyped, StepsTyped, WorkIsOwn, InstallEnds, JustWorks, InstallFails, SetJavaPathFromPartial, SetJavaPath, Passes, Fails, AutoEnds, Waits, Heard, Installing
<1>3. RuntimeIsWhole'
  BY DEF JavaInv, JavaTyped, StepsTyped, WorkIsOwn, RuntimeIsWhole, InstallEnds, JustWorks, InstallFails, SetJavaPathFromPartial, SetJavaPath, Passes, Fails, AutoEnds, Waits, Heard, Java, Installing
<1>4. ProbeIsTrue'
  BY DEF JavaInv, JavaTyped, SettingsTyped, ChecksTyped, ProbeIsTrue, WorkIsOwn, Signs, InstallEnds, JustWorks, InstallFails, SetJavaPathFromPartial, SetJavaPath, Passes, Fails, AutoEnds, Waits, Heard, Kind, Idle, Places, Paths
<1>5. StoredIsTrue'
  BY DEF JavaInv, JavaTyped, SettingsTyped, ChecksTyped, StoredIsTrue, Signs, InstallEnds, JustWorks, InstallFails, SetJavaPathFromPartial, SetJavaPath, Passes, Fails, AutoEnds, Waits, Heard, Version, Installing, Java, None
<1> QED
  BY <1>1, <1>2, <1>3, <1>4, <1>5 DEF JavaInv

(* What runs at a path, and when it was written.                            *)
LEMMA KindOf ==
    ASSUME SettingsTyped, NEW path \in Paths
    PROVE  /\ Kind(path) \in Kinds \cup {"broken"} /\ Stamp(path) \in Nat
           /\ path \in Places => Kind(path) = machine[path].kind /\ Stamp(path) = machine[path].stamp
           /\ path = "managed" => Kind(path) # "old" /\ (Kind(path) = "fits" => runtime = Java)
<1>1. CASE path \in Places
  BY <1>1 DEF SettingsTyped, Kind, Stamp, Places
<1>2. CASE path = "managed"
  BY <1>2 DEF SettingsTyped, Kind, Stamp, Places, Kinds, Java
<1> QED
  BY <1>1, <1>2 DEF Paths

LEMMA CheckJavaKeeps == JavaInv /\ CheckJava => JavaInv'
<1> SUFFICES ASSUME JavaInv, CheckJava PROVE JavaInv'
  OBVIOUS
<1>1. SettingsTyped /\ StepsTyped /\ ChecksTyped
  BY DEF JavaInv, JavaTyped
<1>2. UNCHANGED <<setup, machine, setting, runtime, override, stored, torn, work, found, disturbed>>
  BY DEF CheckJava
<1>3. step' \in {"check", "game", "rest"} /\ (probe' # Idle => step' = "check") /\ step = "check"
  BY DEF CheckJava, VerifyJavaInstall
<1>4. JavaPath \in Paths
  BY <1>1 DEF JavaPath, Own, SettingsTyped, Paths
<1>5. probe' = Idle \/ probe' = [path |-> JavaPath, stamp |-> Stamp(JavaPath), kind |-> Kind(JavaPath)]
  BY DEF CheckJava
<1>6. JavaTyped'
  <2>1. SettingsTyped'
    BY <1>1, <1>2 DEF SettingsTyped
  <2>2. StepsTyped'
    BY <1>1, <1>2, <1>3 DEF StepsTyped
  <2>3. ChecksTyped'
    BY <1>1, <1>2, <1>4, <1>5, KindOf DEF ChecksTyped
  <2> QED
    BY <2>1, <2>2, <2>3 DEF JavaTyped
<1>7. WorkIsOwn'
  BY <1>2, <1>3 DEF JavaInv, WorkIsOwn
<1>8. RuntimeIsWhole'
  BY <1>2 DEF JavaInv, RuntimeIsWhole
<1>9. ProbeIsTrue'
  <2> SUFFICES ASSUME probe' # Idle PROVE ProbeIsTrue'
    BY DEF ProbeIsTrue
  <2>1. probe'.path = JavaPath /\ probe'.stamp = Stamp(JavaPath) /\ probe'.kind = Kind(JavaPath)
    BY <1>5
  <2>2. Kind("managed")' = Kind("managed")
    BY <1>2 DEF Kind, Places
  <2>3. JavaPath \in Places => machine[JavaPath].stamp \in Nat
    BY <1>1 DEF SettingsTyped
  <2> QED
    BY <1>1, <1>2, <1>3, <1>4, <2>1, <2>2, <2>3, KindOf DEF ProbeIsTrue, Signs
<1>10. StoredIsTrue'
  BY <1>2 DEF JavaInv, StoredIsTrue, Signs, Version
<1> QED
  BY <1>6, <1>7, <1>8, <1>9, <1>10 DEF JavaInv

(* What is saved of an answer, as a whole or in part, is true of the Java   *)
(* that was run, or torn.                                                   *)
LEMMA SavedKeeps ==
    ASSUME JavaInv, probe.kind \in {"fits", "old"},
           NEW versions \in SUBSET BOOLEAN, NEW signatures \in SUBSET versions,
           Saved(versions, signatures),
           UNCHANGED <<machine, runtime>>, work' = "none"
    PROVE  /\ stored' \in [BOOLEAN -> [path : Paths \cup {"none"}, stamp : Nat, version : {"none", "fits", "old"}]]
           /\ torn' \subseteq BOOLEAN
           /\ StoredIsTrue'
<1>1. SettingsTyped /\ ChecksTyped
  BY DEF JavaInv, JavaTyped
<1>2. probe \in [path : Paths, stamp : Nat, kind : Kinds \cup {"broken"}] /\ Version(probe.kind) = probe.kind
  BY <1>1 DEF ChecksTyped, Idle, Version
<1>3. probe.path \in Paths /\ probe.stamp \in Nat
  BY <1>2
<1>4. torn' = (torn \cup versions) \ signatures /\ torn' \subseteq BOOLEAN
  BY <1>1 DEF Saved, ChecksTyped
<1>5. ASSUME NEW own \in BOOLEAN
      PROVE  /\ stored'[own] \in [path : Paths \cup {"none"}, stamp : Nat, version : {"none", "fits", "old"}]
             /\ own \in signatures => stored'[own].path = probe.path /\ stored'[own].stamp = probe.stamp
             /\ own \notin signatures =>
                   stored'[own].path = stored[own].path /\ stored'[own].stamp = stored[own].stamp
             /\ own \in versions => stored'[own].version = probe.kind
             /\ own \notin versions => stored'[own].version = stored[own].version
  <2>1. stored[own] \in [path : Paths \cup {"none"}, stamp : Nat, version : {"none", "fits", "old"}]
    BY <1>1 DEF ChecksTyped
  <2>2. stored'[own] = [path    |-> IF own \in signatures THEN probe.path ELSE stored[own].path,
                        stamp   |-> IF own \in signatures THEN probe.stamp ELSE stored[own].stamp,
                        version |-> IF own \in versions THEN probe.kind ELSE stored[own].version]
    BY <1>2 DEF Saved
  <2> QED
    BY <1>3, <2>1, <2>2
<1>6. stored' \in [BOOLEAN -> [path : Paths \cup {"none"}, stamp : Nat, version : {"none", "fits", "old"}]]
  <2>1. DOMAIN stored' = BOOLEAN /\ stored' = [own \in BOOLEAN |-> stored'[own]]
    BY DEF Saved
  <2> QED
    BY <1>5, <2>1
<1>7. StoredIsTrue'
  <2> SUFFICES ASSUME NEW own \in BOOLEAN
               PROVE  /\ Signs(stored[own], own \in torn \/ stored[own].version = Version(machine[stored[own].path].kind))'
                      /\ stored'[own].path = "managed" =>
                            /\ own \in torn' \/ stored'[own].version = "fits"
                            /\ runtime' = Java /\ work' \in {"none", "probes"}
                      /\ stored'[own].version = "none" => stored'[own].path = "none"
                      /\ stored'[own].path = "none" => own \in torn' \/ stored'[own].version = "none"
    BY DEF StoredIsTrue
  <2>1. CASE own \in signatures
    <3>1. Signs(probe, probe.kind = machine[probe.path].kind)
      BY <1>2 DEF JavaInv, ProbeIsTrue, Idle
    <3>2. probe.path = "managed" => probe.kind = "fits" /\ runtime = Java
      BY <1>1, <1>2, KindOf DEF JavaInv, ProbeIsTrue, Idle, Paths
    <3>3. stored'[own].path = probe.path /\ stored'[own].stamp = probe.stamp /\ stored'[own].version = probe.kind
      BY <1>5, <2>1
    <3>4. probe.path # "none"
      BY <1>3 DEF Paths, Places
    <3> QED
      BY <3>1, <3>2, <3>3, <3>4 DEF Signs, Version
  <2>2. CASE own \notin signatures /\ own \in versions
    <3>1. own \in torn'
      BY <1>4, <2>2
    <3>2. stored'[own].path = stored[own].path /\ stored'[own].stamp = stored[own].stamp /\ stored'[own].version # "none"
      BY <1>5, <2>2
    <3> QED
      BY <3>1, <3>2 DEF JavaInv, StoredIsTrue, Signs
  <2>3. CASE own \notin versions
    <3>1. own \in torn => own \in torn'
      BY <1>4, <2>3
    <3>2. stored'[own].path = stored[own].path /\ stored'[own].stamp = stored[own].stamp
          /\ stored'[own].version = stored[own].version
      BY <1>5, <2>3
    <3> QED
      BY <3>1, <3>2 DEF JavaInv, StoredIsTrue, Signs, Version
  <2> QED
    BY <2>1, <2>2, <2>3
<1> QED
  BY <1>4, <1>6, <1>7

LEMMA CheckJavaFinishedKeeps == JavaInv /\ CheckJavaFinished => JavaInv'
<1> SUFFICES ASSUME JavaInv, CheckJavaFinished PROVE JavaInv'
  OBVIOUS
<1>1. SettingsTyped /\ StepsTyped /\ ChecksTyped
  BY DEF JavaInv, JavaTyped
<1>2. UNCHANGED <<setup, machine, setting, runtime, override, work, found, disturbed>> /\ probe' = Idle
  BY DEF CheckJavaFinished
<1>3. step = "check" /\ step' \in {"game", "rest"} /\ work = "none"
  BY DEF CheckJavaFinished, VerifyJavaInstall, JavaInv, ProbeIsTrue, WorkIsOwn
<1>4. \/ UNCHANGED <<stored, torn>>
      \/ probe.kind \in {"fits", "old"} /\ Saved(Sides, Sides)
  BY DEF CheckJavaFinished
<1>5. /\ stored' \in [BOOLEAN -> [path : Paths \cup {"none"}, stamp : Nat, version : {"none", "fits", "old"}]]
      /\ torn' \subseteq BOOLEAN /\ StoredIsTrue'
  <2>1. CASE UNCHANGED <<stored, torn>>
    BY <1>1, <1>2, <2>1 DEF JavaInv, ChecksTyped, StoredIsTrue, Signs, Version
  <2>2. CASE probe.kind \in {"fits", "old"} /\ Saved(Sides, Sides)
    BY <1>2, <1>3, <2>2, SavedKeeps DEF Sides
  <2> QED
    BY <1>4, <2>1, <2>2
<1>6. JavaTyped'
  <2>1. SettingsTyped'
    BY <1>1, <1>2 DEF SettingsTyped
  <2>2. StepsTyped'
    BY <1>1, <1>2, <1>3 DEF StepsTyped
  <2>3. ChecksTyped'
    BY <1>2, <1>5 DEF ChecksTyped
  <2> QED
    BY <2>1, <2>2, <2>3 DEF JavaTyped
<1>7. WorkIsOwn'
  BY <1>2, <1>3 DEF WorkIsOwn
<1>8. RuntimeIsWhole'
  BY <1>2 DEF JavaInv, RuntimeIsWhole
<1>9. ProbeIsTrue'
  BY <1>2 DEF ProbeIsTrue
<1> QED
  BY <1>5, <1>6, <1>7, <1>8, <1>9 DEF JavaInv

LEMMA DiesSavingKeeps == JavaInv /\ DiesSaving => JavaInv'
<1> SUFFICES ASSUME JavaInv, DiesSaving PROVE JavaInv'
  OBVIOUS
<1>1. SettingsTyped /\ StepsTyped /\ ChecksTyped
  BY DEF JavaInv, JavaTyped
<1>2. /\ UNCHANGED <<setup, machine, setting, runtime, override>> /\ probe' = Idle
      /\ step' = "rest" /\ work' = "none" /\ found' = {} /\ disturbed' = (disturbed \/ work \in Installing)
  BY DEF DiesSaving, Death
<1>3. /\ stored' \in [BOOLEAN -> [path : Paths \cup {"none"}, stamp : Nat, version : {"none", "fits", "old"}]]
      /\ torn' \subseteq BOOLEAN /\ StoredIsTrue'
  <2>1. probe.kind \in {"fits", "old"} /\ Sides \subseteq BOOLEAN /\ (Own => TRUE \in Sides)
    BY DEF DiesSaving, Sides
  <2>2. CASE Saved({TRUE}, {})
    BY <1>2, <2>1, <2>2, SavedKeeps
  <2>3. CASE Saved(Sides, {})
    BY <1>2, <2>1, <2>3, SavedKeeps
  <2>4. CASE Own /\ Saved(Sides, {TRUE})
    BY <1>2, <2>1, <2>4, SavedKeeps
  <2> QED
    BY <2>2, <2>3, <2>4 DEF DiesSaving
<1>4. JavaTyped'
  <2>1. SettingsTyped'
    BY <1>1, <1>2 DEF SettingsTyped
  <2>2. StepsTyped'
    BY <1>1, <1>2 DEF StepsTyped
  <2>3. ChecksTyped'
    BY <1>2, <1>3 DEF ChecksTyped
  <2> QED
    BY <2>1, <2>2, <2>3 DEF JavaTyped
<1>5. WorkIsOwn' /\ RuntimeIsWhole' /\ ProbeIsTrue'
  BY <1>2 DEF JavaInv, WorkIsOwn, RuntimeIsWhole, ProbeIsTrue
<1> QED
  BY <1>3, <1>4, <1>5 DEF JavaInv

LEMMA JavaLaunchKeeps == JavaInv /\ JavaLaunch => JavaInv'
<1> SUFFICES ASSUME JavaInv, JavaLaunch PROVE JavaInv'
  OBVIOUS
<1>1. JavaTyped'
  <2>1. SettingsTyped'
    BY DEF JavaInv, JavaTyped, SettingsTyped, StepsTyped, JavaLaunch, Java, Paths
  <2>2. StepsTyped'
    BY DEF JavaInv, JavaTyped, SettingsTyped, StepsTyped, JavaLaunch, Installing, Paths
  <2>3. ChecksTyped'
    BY DEF JavaInv, JavaTyped, ChecksTyped, JavaLaunch
  <2> QED
    BY <2>1, <2>2, <2>3 DEF JavaTyped
<1>2. WorkIsOwn'
  BY DEF JavaInv, JavaTyped, StepsTyped, WorkIsOwn, JavaLaunch, Installing
<1>3. RuntimeIsWhole'
  BY DEF JavaInv, JavaTyped, StepsTyped, WorkIsOwn, RuntimeIsWhole, JavaLaunch, Java, Installing
<1>4. ProbeIsTrue'
  BY DEF JavaInv, JavaTyped, SettingsTyped, ChecksTyped, ProbeIsTrue, WorkIsOwn, Signs, JavaLaunch, Kind, Idle, Places, Paths
<1>5. StoredIsTrue'
  BY DEF JavaInv, JavaTyped, SettingsTyped, ChecksTyped, StoredIsTrue, Signs, JavaLaunch, Version, Installing, Java, None
<1> QED
  BY <1>1, <1>2, <1>3, <1>4, <1>5 DEF JavaInv

LEMMA CancelKeeps == JavaInv /\ Cancel => JavaInv'
<1> SUFFICES ASSUME JavaInv, Cancel PROVE JavaInv'
  OBVIOUS
<1>1. JavaTyped'
  <2>1. SettingsTyped'
    BY DEF JavaInv, JavaTyped, SettingsTyped, StepsTyped, Cancel, Waits, Java, Paths
  <2>2. StepsTyped'
    BY DEF JavaInv, JavaTyped, SettingsTyped, StepsTyped, Cancel, Waits, Installing, Paths
  <2>3. ChecksTyped'
    BY DEF JavaInv, JavaTyped, ChecksTyped, Cancel, Waits
  <2> QED
    BY <2>1, <2>2, <2>3 DEF JavaTyped
<1>2. WorkIsOwn'
  BY DEF JavaInv, JavaTyped, StepsTyped, WorkIsOwn, Cancel, Waits, Installing
<1>3. RuntimeIsWhole'
  BY DEF JavaInv, JavaTyped, StepsTyped, WorkIsOwn, RuntimeIsWhole, Cancel, Waits, Java, Installing
<1>4. ProbeIsTrue'
  BY DEF JavaInv, JavaTyped, SettingsTyped, ChecksTyped, ProbeIsTrue, WorkIsOwn, Signs, Cancel, Waits, Kind, Idle, Places, Paths
<1>5. StoredIsTrue'
  BY DEF JavaInv, JavaTyped, SettingsTyped, ChecksTyped, StoredIsTrue, Signs, Cancel, Waits, Version, Installing, Java, None
<1> QED
  BY <1>1, <1>2, <1>3, <1>4, <1>5 DEF JavaInv

LEMMA DiesKeeps == JavaInv /\ Dies => JavaInv'
<1> SUFFICES ASSUME JavaInv, Dies PROVE JavaInv'
  OBVIOUS
<1>1. JavaTyped'
  <2>1. SettingsTyped'
    BY DEF JavaInv, JavaTyped, SettingsTyped, StepsTyped, Dies, Death, Java, Paths
  <2>2. StepsTyped'
    BY DEF JavaInv, JavaTyped, SettingsTyped, StepsTyped, Dies, Death, Installing, Paths
  <2>3. ChecksTyped'
    BY DEF JavaInv, JavaTyped, ChecksTyped, Dies, Death
  <2> QED
    BY <2>1, <2>2, <2>3 DEF JavaTyped
<1>2. WorkIsOwn'
  BY DEF JavaInv, JavaTyped, StepsTyped, WorkIsOwn, Dies, Death, Installing
<1>3. RuntimeIsWhole'
  BY DEF JavaInv, JavaTyped, StepsTyped, WorkIsOwn, RuntimeIsWhole, Dies, Death, Java, Installing
<1>4. ProbeIsTrue'
  BY DEF JavaInv, JavaTyped, SettingsTyped, ChecksTyped, ProbeIsTrue, WorkIsOwn, Signs, Dies, Death, Kind, Idle, Places, Paths
<1>5. StoredIsTrue'
  BY DEF JavaInv, JavaTyped, SettingsTyped, ChecksTyped, StoredIsTrue, Signs, Dies, Death, Version, Installing, Java, None
<1> QED
  BY <1>1, <1>2, <1>3, <1>4, <1>5 DEF JavaInv

LEMMA JavaGameEndsKeeps == JavaInv /\ JavaGameEnds => JavaInv'
<1> SUFFICES ASSUME JavaInv, JavaGameEnds PROVE JavaInv'
  OBVIOUS
<1>1. JavaTyped'
  <2>1. SettingsTyped'
    BY DEF JavaInv, JavaTyped, SettingsTyped, StepsTyped, JavaGameEnds, Java, Paths
  <2>2. StepsTyped'
    BY DEF JavaInv, JavaTyped, SettingsTyped, StepsTyped, JavaGameEnds, Installing, Paths
  <2>3. ChecksTyped'
    BY DEF JavaInv, JavaTyped, ChecksTyped, JavaGameEnds
  <2> QED
    BY <2>1, <2>2, <2>3 DEF JavaTyped
<1>2. WorkIsOwn'
  BY DEF JavaInv, JavaTyped, StepsTyped, WorkIsOwn, JavaGameEnds, Installing
<1>3. RuntimeIsWhole'
  BY DEF JavaInv, JavaTyped, StepsTyped, WorkIsOwn, RuntimeIsWhole, JavaGameEnds, Java, Installing
<1>4. ProbeIsTrue'
  BY DEF JavaInv, JavaTyped, SettingsTyped, ChecksTyped, ProbeIsTrue, WorkIsOwn, Signs, JavaGameEnds, Kind, Idle, Places, Paths
<1>5. StoredIsTrue'
  BY DEF JavaInv, JavaTyped, SettingsTyped, ChecksTyped, StoredIsTrue, Signs, JavaGameEnds, Version, Installing, Java, None
<1> QED
  BY <1>1, <1>2, <1>3, <1>4, <1>5 DEF JavaInv

LEMMA ChangeKeeps == JavaInv /\ Change => JavaInv'
<1> SUFFICES ASSUME JavaInv, Change PROVE JavaInv'
  OBVIOUS
<1>1. JavaTyped'
  <2>1. SettingsTyped'
    BY DEF JavaInv, JavaTyped, SettingsTyped, StepsTyped, Change, progress, Java, Paths
  <2>2. StepsTyped'
    BY DEF JavaInv, JavaTyped, SettingsTyped, StepsTyped, Change, progress, Installing, Paths
  <2>3. ChecksTyped'
    BY DEF JavaInv, JavaTyped, ChecksTyped, Change, progress
  <2> QED
    BY <2>1, <2>2, <2>3 DEF JavaTyped
<1>2. WorkIsOwn'
  BY DEF JavaInv, JavaTyped, StepsTyped, WorkIsOwn, Change, progress, Installing
<1>3. RuntimeIsWhole'
  BY DEF JavaInv, JavaTyped, StepsTyped, WorkIsOwn, RuntimeIsWhole, Change, progress, Java, Installing
<1>4. ProbeIsTrue'
  BY DEF JavaInv, JavaTyped, SettingsTyped, ChecksTyped, ProbeIsTrue, WorkIsOwn, Signs, Change, progress, Kind, Idle, Places, Paths
<1>5. StoredIsTrue'
  <2>1. UNCHANGED <<stored, torn, runtime, work>>
    BY DEF Change, progress
  <2>2. ASSUME NEW own \in BOOLEAN
        PROVE  Signs(stored[own], own \in torn \/ stored[own].version = Version(machine[stored[own].path].kind))'
    <3>1. stored[own].stamp \in Nat
      BY DEF JavaInv, JavaTyped, ChecksTyped
    <3>2. CASE UNCHANGED machine
      BY <2>1, <3>2 DEF JavaInv, StoredIsTrue, Signs
    <3>3. CASE \E place \in Places, kind \in Kinds :
                  machine' = [machine EXCEPT ![place] = [kind |-> kind, stamp |-> @.stamp + 1]]
      BY <2>1, <3>1, <3>3 DEF JavaInv, JavaTyped, SettingsTyped, StoredIsTrue, Signs
    <3> QED
      BY <3>2, <3>3 DEF Change
  <2> QED
    BY <2>1, <2>2 DEF JavaInv, StoredIsTrue
<1> QED
  BY <1>1, <1>2, <1>3, <1>4, <1>5 DEF JavaInv

LEMMA FileArrivesKeeps == JavaInv /\ (\E file \in Java : FileArrives(file)) => JavaInv'
<1> SUFFICES ASSUME JavaInv, NEW file \in Java, FileArrives(file) PROVE JavaInv'
  OBVIOUS
<1>1. JavaTyped'
  BY DEF JavaInv, JavaTyped, SettingsTyped, StepsTyped, ChecksTyped, FileArrives, JustWorks
<1>2. WorkIsOwn'
  BY DEF JavaInv, WorkIsOwn, FileArrives, JustWorks
<1>3. RuntimeIsWhole'
  BY DEF RuntimeIsWhole, FileArrives
<1>4. ProbeIsTrue'
  BY DEF JavaInv, ProbeIsTrue, WorkIsOwn, Signs, FileArrives, JustWorks, Installing
<1>5. StoredIsTrue'
  BY DEF JavaInv, StoredIsTrue, Signs, Version, FileArrives, JustWorks, Installing
<1> QED
  BY <1>1, <1>2, <1>3, <1>4, <1>5 DEF JavaInv

LEMMA JavaInitHolds == JavaInit => JavaInv
<1> SUFFICES ASSUME JavaInit PROVE JavaInv
  OBVIOUS
<1>1. SettingsTyped /\ StepsTyped
  <2>1. machine \in [Places -> [kind : Kinds, stamp : Nat]]
    BY DEF JavaInit
  <2>2. SettingsTyped
    BY <2>1 DEF JavaInit, SettingsTyped, Paths, Places
  <2>3. StepsTyped
    BY DEF JavaInit, StepsTyped
  <2> QED
    BY <2>2, <2>3
<1>2. ChecksTyped
  BY DEF JavaInit, ChecksTyped, None
<1>3. WorkIsOwn /\ RuntimeIsWhole /\ ProbeIsTrue
  BY DEF JavaInit, WorkIsOwn, RuntimeIsWhole, ProbeIsTrue
<1>4. StoredIsTrue
  BY DEF JavaInit, StoredIsTrue, Signs, None, Places
<1> QED
  BY <1>1, <1>2, <1>3, <1>4 DEF JavaInv, JavaTyped

LEMMA JavaStepKeeps == JavaInv /\ [JavaNext]_javaVars => JavaInv'
<1> SUFFICES ASSUME JavaInv, [JavaNext]_javaVars PROVE JavaInv'
  OBVIOUS
<1>1. CASE UNCHANGED javaVars
  BY <1>1 DEF javaVars, progress, JavaInv, JavaTyped, SettingsTyped, StepsTyped, ChecksTyped,
              WorkIsOwn, RuntimeIsWhole, ProbeIsTrue, StoredIsTrue, Signs, Kind, Version
<1>2. CASE Proceed
  BY <1>2, AutoInstallJavaKeeps, ProbesEndKeeps, ListLoadsKeeps, VersionLoadsKeeps,
     RuntimeLoadsKeeps, InstallEndsKeeps, CheckJavaKeeps, CheckJavaFinishedKeeps DEF Proceed
<1> QED
  BY <1>1, <1>2, JavaLaunchKeeps, CancelKeeps, DiesKeeps, DiesSavingKeeps, JavaGameEndsKeeps, ChangeKeeps,
     FileArrivesKeeps DEF JavaNext

(* A signature that matches is one of the file as it is.                    *)
LEMMA JavaInvKnows == JavaInv => JavaIsKnown
<1> SUFFICES ASSUME JavaInv, step = "check", SignatureMatches, Kind(JavaPath) \in Kinds, VersionSide \notin torn
             PROVE  StoredVersion = Version(Kind(JavaPath))
  BY DEF JavaInv, RuntimeIsWhole, JavaIsKnown
<1>1. VersionSide \in BOOLEAN /\ SignatureSide = VersionSide
  BY DEF VersionSide, SignatureSide, JavaInv, StoredIsTrue
<1>2. SettingsTyped /\ JavaPath \in Paths
  BY DEF JavaInv, JavaTyped, JavaPath, Own, SettingsTyped, Paths
<1>3. PICK own \in BOOLEAN :
         /\ own \notin torn /\ StoredVersion = stored[own].version
         /\ stored[own].path = JavaPath /\ stored[own].stamp = Stamp(JavaPath)
  BY <1>1 DEF SignatureMatches, StoredVersion
<1>4. CASE JavaPath \in Places
  BY <1>2, <1>3, <1>4, KindOf DEF JavaInv, StoredIsTrue, Signs
<1>5. CASE JavaPath = "managed"
  BY <1>3, <1>5 DEF JavaInv, StoredIsTrue, Kind, Version, Places, Java
<1> QED
  BY <1>2, <1>4, <1>5 DEF Paths

-----------------------------------------------------------------------------
(* Every step of the files keeps theirs.                                    *)

LEMMA ObjectsAre ==
    ASSUME NEW i \in {1, 2}
    PROVE  /\ Range(Objects(i)) \subseteq {"first", "second"}
           /\ \A name \in Names : Objects(i)[name] \in Range(Objects(i))
BY DEF Range, Objects, Names

LEMMA FilesLaunchKeeps == FilesInv /\ (\E net \in BOOLEAN : FilesLaunch(net)) => FilesInv'
<1> SUFFICES ASSUME FilesInv, NEW net \in BOOLEAN, FilesLaunch(net) PROVE FilesInv'
  OBVIOUS
<1>1. FilesTyped'
  BY DEF FilesInv, FilesTyped, AssetsAreHad, FilesLaunch, storage, Files, FML
<1>2. LibrariesAreHad'
  BY DEF FilesInv, FilesTyped, LibrariesAreHad, AssetsAreHad, FilesLaunch, storage
<1>3. FMLIsHad'
  BY DEF FilesInv, FilesTyped, FMLIsHad, AssetsAreHad, FilesLaunch, storage
<1>4. AssetsAreHad'
  BY DEF FilesInv, FilesTyped, AssetsAreHad, FilesLaunch, storage
<1> QED
  BY <1>1, <1>2, <1>3, <1>4 DEF FilesInv

LEMMA LibrariesTaskKeeps == FilesInv /\ LibrariesTask => FilesInv'
<1> SUFFICES ASSUME FilesInv, LibrariesTask PROVE FilesInv'
  OBVIOUS
<1>1. FilesTyped'
  BY DEF FilesInv, FilesTyped, AssetsAreHad, LibrariesTask, Goes, Ends, storage, Files, FML
<1>2. LibrariesAreHad'
  BY DEF FilesInv, FilesTyped, LibrariesAreHad, LibrariesTask, Goes, Ends, storage
<1>3. FMLIsHad'
  BY DEF FilesInv, FilesTyped, FMLIsHad, AssetsAreHad, LibrariesTask, Goes, Ends, storage
<1>4. AssetsAreHad'
  BY DEF FilesInv, FilesTyped, AssetsAreHad, LibrariesTask, Goes, Ends, storage
<1> QED
  BY <1>1, <1>2, <1>3, <1>4 DEF FilesInv

LEMMA LegacyFMLLibrariesTaskKeeps == FilesInv /\ LegacyFMLLibrariesTask => FilesInv'
<1> SUFFICES ASSUME FilesInv, LegacyFMLLibrariesTask PROVE FilesInv'
  OBVIOUS
<1>1. FilesTyped'
  BY DEF FilesInv, FilesTyped, AssetsAreHad, LegacyFMLLibrariesTask, Goes, storage, Files, FML
<1>2. LibrariesAreHad'
  BY DEF FilesInv, FilesTyped, LibrariesAreHad, LegacyFMLLibrariesTask, Goes, storage
<1>3. FMLIsHad'
  BY DEF FilesInv, FilesTyped, FMLIsHad, AssetsAreHad, LegacyFMLLibrariesTask, Goes, storage
<1>4. AssetsAreHad'
  BY DEF FilesInv, FilesTyped, AssetsAreHad, LegacyFMLLibrariesTask, Goes, storage
<1> QED
  BY <1>1, <1>2, <1>3, <1>4 DEF FilesInv

LEMMA AssetUpdateTaskKeeps == FilesInv /\ AssetUpdateTask => FilesInv'
<1> SUFFICES ASSUME FilesInv, AssetUpdateTask PROVE FilesInv'
  OBVIOUS
<1>1. FilesTyped'
  BY DEF FilesInv, FilesTyped, AssetsAreHad, AssetUpdateTask, Goes, storage, Files, FML
<1>2. LibrariesAreHad'
  BY DEF FilesInv, FilesTyped, LibrariesAreHad, AssetUpdateTask, Goes, storage
<1>3. FMLIsHad'
  BY DEF FilesInv, FilesTyped, FMLIsHad, AssetsAreHad, AssetUpdateTask, Goes, storage
<1>4. AssetsAreHad'
  BY DEF FilesInv, FilesTyped, AssetsAreHad, AssetUpdateTask, Goes, storage
<1> QED
  BY <1>1, <1>2, <1>3, <1>4 DEF FilesInv

LEMMA JobSucceedsKeeps == FilesInv /\ JobSucceeds => FilesInv'
<1> SUFFICES ASSUME FilesInv, JobSucceeds PROVE FilesInv'
  OBVIOUS
<1>1. FilesTyped'
  BY DEF FilesInv, FilesTyped, AssetsAreHad, JobSucceeds, Goes, ToFetch, storage, Files, FML
<1>2. LibrariesAreHad'
  BY DEF FilesInv, FilesTyped, LibrariesAreHad, JobSucceeds, Goes, ToFetch, storage
<1>3. FMLIsHad'
  BY DEF FilesInv, FilesTyped, FMLIsHad, AssetsAreHad, JobSucceeds, Goes, ToFetch, storage
<1>4. AssetsAreHad'
  BY DEF FilesInv, FilesTyped, AssetsAreHad, JobSucceeds, Goes, ToFetch, storage
<1> QED
  BY <1>1, <1>2, <1>3, <1>4 DEF FilesInv

LEMMA TaskFailsKeeps == FilesInv /\ TaskFails => FilesInv'
<1> SUFFICES ASSUME FilesInv, TaskFails PROVE FilesInv'
  OBVIOUS
<1>1. FilesTyped'
  BY DEF FilesInv, FilesTyped, AssetsAreHad, TaskFails, Goes, Ends, storage, Files, FML
<1>2. LibrariesAreHad'
  BY DEF FilesInv, FilesTyped, LibrariesAreHad, TaskFails, Goes, Ends, storage
<1>3. FMLIsHad'
  BY DEF FilesInv, FilesTyped, FMLIsHad, AssetsAreHad, TaskFails, Goes, Ends, storage
<1>4. AssetsAreHad'
  BY DEF FilesInv, FilesTyped, AssetsAreHad, TaskFails, Goes, Ends, storage
<1> QED
  BY <1>1, <1>2, <1>3, <1>4 DEF FilesInv

LEMMA EnsureOfflineLibrariesKeeps == FilesInv /\ EnsureOfflineLibraries => FilesInv'
<1> SUFFICES ASSUME FilesInv, EnsureOfflineLibraries PROVE FilesInv'
  OBVIOUS
<1>1. FilesTyped'
  BY DEF FilesInv, FilesTyped, AssetsAreHad, EnsureOfflineLibraries, Goes, Ends, storage, Files, FML
<1>2. LibrariesAreHad'
  BY DEF FilesInv, FilesTyped, LibrariesAreHad, EnsureOfflineLibraries, Goes, Ends, storage
<1>3. FMLIsHad'
  BY DEF FilesInv, FilesTyped, FMLIsHad, AssetsAreHad, EnsureOfflineLibraries, Goes, Ends, storage
<1>4. AssetsAreHad'
  BY DEF FilesInv, FilesTyped, AssetsAreHad, EnsureOfflineLibraries, Goes, Ends, storage
<1> QED
  BY <1>1, <1>2, <1>3, <1>4 DEF FilesInv

LEMMA FinishKeeps == FilesInv /\ Finish => FilesInv'
<1> SUFFICES ASSUME FilesInv, Finish PROVE FilesInv'
  OBVIOUS
<1>1. FilesTyped'
  <2>1. laid' \in [Names -> {"none", "first", "second"}]
    <3>1. LaidOut \in [Names -> {"none", "first", "second"}]
      BY DEF FilesInv, FilesTyped, LaidOut, Objects
    <3> QED
      BY <3>1 DEF FilesInv, FilesTyped, Finish
  <2> QED
    BY <2>1 DEF FilesInv, FilesTyped, AssetsAreHad, Finish, Goes, Ends
<1>2. LibrariesAreHad'
  BY DEF FilesInv, FilesTyped, LibrariesAreHad, Finish, Goes, Ends, storage
<1>3. FMLIsHad'
  BY DEF FilesInv, FilesTyped, FMLIsHad, AssetsAreHad, Finish, Goes, Ends, storage
<1>4. AssetsAreHad'
  <2>1. online /\ virtual /\ fileStep' = "game" => "none" \notin Range(laid')
    <3> SUFFICES ASSUME online, virtual, fileStep' = "game", NEW name \in Names
                 PROVE  LaidOut[name] # "none"
      BY DEF Finish, Goes, Ends, Range, LaidOut
    <3>1. assets = wanted /\ Range(Objects(assets)) \subseteq store /\ assets \in {1, 2}
      BY DEF FilesInv, FilesTyped, AssetsAreHad, Finish
    <3>2. Objects(assets)[name] \in store /\ Objects(assets)[name] \in {"first", "second"}
      BY <3>1, ObjectsAre
    <3> QED
      BY <3>2 DEF LaidOut
  <2> QED
    BY <2>1 DEF FilesInv, FilesTyped, AssetsAreHad, Finish, Goes, Ends
<1> QED
  BY <1>1, <1>2, <1>3, <1>4 DEF FilesInv

LEMMA FilesGameEndsKeeps == FilesInv /\ FilesGameEnds => FilesInv'
<1> SUFFICES ASSUME FilesInv, FilesGameEnds PROVE FilesInv'
  OBVIOUS
<1>1. FilesTyped'
  BY DEF FilesInv, FilesTyped, AssetsAreHad, FilesGameEnds, Goes, Ends, storage, Files, FML
<1>2. LibrariesAreHad'
  BY DEF FilesInv, FilesTyped, LibrariesAreHad, FilesGameEnds, Goes, Ends, storage
<1>3. FMLIsHad'
  BY DEF FilesInv, FilesTyped, FMLIsHad, AssetsAreHad, FilesGameEnds, Goes, Ends, storage
<1>4. AssetsAreHad'
  BY DEF FilesInv, FilesTyped, AssetsAreHad, FilesGameEnds, Goes, Ends, storage
<1> QED
  BY <1>1, <1>2, <1>3, <1>4 DEF FilesInv

LEMMA MeanwhileKeeps == FilesInv /\ Meanwhile => FilesInv'
<1> SUFFICES ASSUME FilesInv, Meanwhile PROVE FilesInv'
  OBVIOUS
<1>1. FilesTyped'
  BY DEF FilesInv, FilesTyped, AssetsAreHad, Meanwhile, storage, Files, FML
<1>2. LibrariesAreHad'
  BY DEF FilesInv, FilesTyped, LibrariesAreHad, Meanwhile, storage
<1>3. FMLIsHad'
  BY DEF FilesInv, FilesTyped, FMLIsHad, AssetsAreHad, Meanwhile, storage
<1>4. AssetsAreHad'
  BY DEF FilesInv, FilesTyped, AssetsAreHad, Meanwhile, storage
<1> QED
  BY <1>1, <1>2, <1>3, <1>4 DEF FilesInv

LEMMA FetchKeeps ==
    FilesInv /\ (\E file \in {"library", "index", "first", "second"} \cup FML : Fetch(file)) => FilesInv'
<1> SUFFICES ASSUME FilesInv, NEW file \in {"library", "index", "first", "second"} \cup FML, Fetch(file)
             PROVE  FilesInv'
  OBVIOUS
<1>1. job # <<>> /\ job' = <<job[1] \ {file}>> /\ job'[1] = job[1] \ {file}
  BY DEF Fetch, Goes
<1>2. UNCHANGED <<legacy, virtual, wanted, online, fileStep, copied, laid>>
  BY DEF Fetch, Goes
<1>3. IF file = "index" THEN assets' = wanted /\ UNCHANGED store
                        ELSE store' = store \cup {file} /\ UNCHANGED assets
  BY DEF Fetch
<1>4. FilesTyped'
  BY <1>1, <1>2, <1>3 DEF FilesInv, FilesTyped, Files
<1>5. LibrariesAreHad'
  BY <1>1, <1>2, <1>3 DEF FilesInv, LibrariesAreHad
<1>6. FMLIsHad'
  BY <1>2 DEF FilesInv, FMLIsHad
<1>7. AssetsAreHad'
  <2>1. fileStep \notin {"rest", "offline", "finish", "game"}
    BY <1>1 DEF FilesInv, AssetsAreHad
  <2>2. fileStep = "index" => "index" \in job'[1] \/ assets' = wanted
    BY <1>1, <1>3 DEF FilesInv, AssetsAreHad
  <2>3. fileStep = "objects" => assets' = wanted /\ Range(Objects(assets')) \subseteq store' \cup job'[1]
    <3> SUFFICES ASSUME fileStep = "objects"
                 PROVE  assets' = wanted /\ Range(Objects(assets')) \subseteq store' \cup job'[1]
      OBVIOUS
    <3>1. assets = wanted /\ Range(Objects(assets)) \subseteq store \cup job[1]
      BY <1>1 DEF FilesInv, AssetsAreHad
    <3>2. "index" \notin Range(Objects(assets))
      BY <3>1, ObjectsAre DEF FilesInv, FilesTyped
    <3>3. assets' = assets
      BY <1>3, <3>1
    <3> QED
      BY <1>1, <1>3, <3>1, <3>2, <3>3
  <2> QED
    BY <1>2, <2>1, <2>2, <2>3 DEF AssetsAreHad
<1> QED
  BY <1>4, <1>5, <1>6, <1>7 DEF FilesInv

LEMMA FilesInitHolds == FilesInit => FilesInv
BY DEF FilesInit, FilesInv, FilesTyped, LibrariesAreHad, FMLIsHad, AssetsAreHad, Files

LEMMA FilesStepKeeps == FilesInv /\ [FilesNext]_fileVars => FilesInv'
<1> SUFFICES ASSUME FilesInv, [FilesNext]_fileVars PROVE FilesInv'
  OBVIOUS
<1>1. CASE UNCHANGED fileVars
  BY <1>1 DEF fileVars, storage, FilesInv, FilesTyped, LibrariesAreHad, FMLIsHad, AssetsAreHad
<1> QED
  BY <1>1, FilesLaunchKeeps, LibrariesTaskKeeps, LegacyFMLLibrariesTaskKeeps, AssetUpdateTaskKeeps,
     FetchKeeps, JobSucceedsKeeps, TaskFailsKeeps, EnsureOfflineLibrariesKeeps, FinishKeeps,
     FilesGameEndsKeeps, MeanwhileKeeps DEF FilesNext

LEMMA FilesInvCompletes == FilesInv => GameIsComplete
BY DEF FilesInv, LibrariesAreHad, FMLIsHad, AssetsAreHad, GameIsComplete

-----------------------------------------------------------------------------
(* The Java that a launch takes without a check has the version that is     *)
(* stored for it, the launcher's own Java is whole unless an installation   *)
(* was cut short, and a game starts with all its files (CheckJava,          *)
(* AutoInstallJava, LibrariesTask, AssetUpdateTask), however many launches, *)
(* failures, cancellations and changes of the machine there were.           *)
THEOREM GamesArePrepared == PreparationSpec => []GameIsPrepared
<1> DEFINE Inv == JavaInv /\ FilesInv
<1>1. JavaInit /\ FilesInit => Inv
  BY JavaInitHolds, FilesInitHolds
<1>2. Inv /\ [PreparationNext]_<<javaVars, fileVars>> => Inv'
  BY JavaStepKeeps, FilesStepKeeps DEF PreparationNext
<1>3. Inv => GameIsPrepared
  BY JavaInvKnows, FilesInvCompletes DEF GameIsPrepared
<1> QED
  BY <1>1, <1>2, <1>3, PTL DEF PreparationSpec

-----------------------------------------------------------------------------
(* The folder: its rows, its parse tasks and what is posted, and what is    *)
(* known of them in every state.                                            *)
Row == [id : Ids, date : Nat \ {0}, ticket : Nat \ {0}, resolving : BOOLEAN, details : Nat]
ParseTask == [id : Ids, active : BOOLEAN, aborted : BOOLEAN, read : Nat]
OfUpdate == {"succeeded", "finished"}
Results == {"parsed", "refused", "over"}
OfParse == {"parse"} \cup Results
Signals == [kind : OfParse \cup OfUpdate, ticket : Nat]

FolderTyped ==
    /\ mods \in BOOLEAN /\ asked \in BOOLEAN /\ scheduled \in BOOLEAN
    /\ changes \in Nat \ {0}
    /\ disk \in [Ids -> Nat] /\ scan \in [Ids -> Nat]
    /\ task \in {"none", "posted", "scanned", "done"}
    /\ resolver \in {"idle", "posted", "running"}
    /\ rows \in Seq(Row) /\ parses \in Seq(ParseTask)
    /\ waiting \in Seq(Nat \ {0}) /\ posted \in Seq(Signals)

(* Content is never older than what is known of it.                         *)
DatesArePast ==
    /\ \A id \in Ids : disk[id] <= changes /\ scan[id] <= changes
    /\ \A i \in DOMAIN rows : rows[i].date <= changes

(* The index finds every row; it may name mods that have no row.            *)
Finds(list) ==
    /\ \A i \in DOMAIN list : list[i].id \in DOMAIN index /\ index[list[i].id] = i
    /\ ~mods => \A id \in DOMAIN index : \E i \in DOMAIN list : list[i].id = id
IndexFinds ==
    /\ index \in [DOMAIN index -> Nat \ {0}] /\ DOMAIN index \subseteq Ids
    /\ Finds(rows)

(* A resource has the newest parse task of its name, which goes on.         *)
HasParse(row, tasks) ==
    /\ row.ticket \in DOMAIN tasks /\ tasks[row.ticket].id = row.id /\ ~tasks[row.ticket].aborted
    /\ \A u \in DOMAIN tasks : tasks[u].id = row.id => u <= row.ticket
RowsHaveParses == \A i \in DOMAIN rows : HasParse(rows[i], parses)

(* What was asked of the resolver is done in the order of the tickets.      *)
Pending(kind, t) == \E i \in DOMAIN posted : posted[i].kind = kind /\ posted[i].ticket = t
Unread(t) == Pending("parse", t) \/ \E i \in DOMAIN waiting : waiting[i] = t

InOrder ==
    /\ \A i, j \in DOMAIN waiting : i < j => waiting[i] < waiting[j]
    /\ \A i \in DOMAIN posted, j \in DOMAIN waiting : posted[i].ticket < waiting[j]
ParsesInOrder ==
    \A i, j \in DOMAIN posted :
        /\ posted[i].kind \in Results /\ posted[j].kind = "parse" => posted[i].ticket < posted[j].ticket
        /\ i < j /\ posted[i].kind = "parse" /\ posted[j].kind = "parse" => posted[i].ticket < posted[j].ticket
ResultsInOrder ==
    \A i, j \in DOMAIN posted :
        i < j /\ posted[i].kind \in Results /\ posted[j].kind \in Results =>
            \/ posted[i].ticket < posted[j].ticket
            \/ posted[i].ticket = posted[j].ticket /\ posted[i].kind # "over" /\ posted[j].kind = "over"

(* A parse task is active until all it has to say was heard.                *)
ParsesKnown ==
    /\ \A i \in DOMAIN waiting : waiting[i] \in DOMAIN parses /\ parses[waiting[i]].active
    /\ \A i \in DOMAIN posted :
          /\ posted[i].kind \in OfParse => posted[i].ticket \in DOMAIN parses
          /\ posted[i].kind \in OfParse \ {"over"} => parses[posted[i].ticket].active
          /\ posted[i].kind = "refused" => ~mods /\ parses[posted[i].ticket].read \in Refused \cup {0}
    /\ resolver = "idle" => waiting = <<>>

(* A resource shows what its newest parse task has read, unless that has    *)
(* not read yet, or has not been heard.                                     *)
DetailsFollow ==
    \A i \in DOMAIN rows :
        LET t == rows[i].ticket
            read == parses[t].read
        IN \/ Unread(t)
           \/ mods /\ Pending("parsed", t)
           \/ /\ mods /\ rows[i].details = read
              /\ \A u \in DOMAIN parses :
                    parses[u].id = rows[i].id => ~Unread(u) /\ ~Pending("parsed", u)
           \/ /\ ~mods /\ rows[i].details = read
              /\ read \in Refused \cup {0} => Pending("refused", t)

(* What was read is what is listed, unless the file changed since.          *)
ReadIsListed ==
    \A i \in DOMAIN rows :
        \/ Unread(rows[i].ticket)
        \/ disk[rows[i].id] = rows[i].date => parses[rows[i].ticket].read = rows[i].date

(* A late refusal is of what is listed, and one that is heard after a scan  *)
(* is of what was found, unless the file changed since.                     *)
RefusalIsOfRow ==
    \A i \in DOMAIN posted, j \in DOMAIN rows :
        LET u == posted[i].ticket
        IN  posted[i].kind = "refused" /\ parses[u].id = rows[j].id /\ disk[rows[j].id] = rows[j].date
               => parses[u].read = rows[j].date
RefusalIsOfScan ==
    \A i, j \in DOMAIN posted :
        LET u == posted[j].ticket
            id == parses[u].id
        IN  i < j /\ posted[i].kind = "succeeded" /\ posted[j].kind = "refused"
            /\ scan[id] # 0 /\ disk[id] = scan[id]
               => parses[u].read = scan[id]

(* What was asked for is to be done, is under way or was done.              *)
ListIsDisk ==
    /\ \A i \in DOMAIN rows : rows[i].date = disk[rows[i].id]
    /\ ~mods => \A id \in Found(disk) : disk[id] \notin Refused => \E i \in DOMAIN rows : rows[i].id = id
UpdateComes ==
    asked => \/ scheduled \/ task = "posted"
             \/ scan = disk /\ (task = "scanned" \/ Pending("succeeded", 0) \/ ListIsDisk)
UpdateOrder ==
    /\ task = "none" => ~scheduled
    /\ \A i \in DOMAIN posted : posted[i].kind \in OfUpdate => task = "done" /\ posted[i].ticket = 0
    /\ \A i, j \in DOMAIN posted :
          /\ posted[i].kind = "succeeded" /\ posted[j].kind = "finished" => i < j
          /\ posted[i].kind = posted[j].kind /\ posted[i].kind \in OfUpdate => i = j

FolderInv ==
    /\ FolderTyped /\ DatesArePast /\ IndexFinds /\ RowsHaveParses
    /\ InOrder /\ ParsesInOrder /\ ResultsInOrder /\ ParsesKnown
    /\ DetailsFollow /\ ReadIsListed /\ RefusalIsOfRow /\ RefusalIsOfScan
    /\ UpdateComes /\ UpdateOrder

-----------------------------------------------------------------------------
(* The folder.  What is treated one name after the other is a function that *)
(* is defined by recursion.                                                 *)

LEMMA LeastOf ==
    ASSUME NEW B, B \subseteq Nat, B # {}
    PROVE  \E m \in B : \A y \in B : ~ (y < m)
<1>1. PICK m \in B : \A y \in B : ~ (<<y, m>> \in OpToRel(<, Nat))
  BY NatLessThanWellFounded, WFMin
<1> QED
  BY <1>1 DEF OpToRel

LEMMA UpTo ==
    ASSUME NEW k \in Nat, NEW S, 0 \in S, \A n \in 0..k : n + 1 \in 0..k /\ n \in S => n + 1 \in S
    PROVE  0..k \subseteq S
<1> DEFINE B == {n \in 0..k : n \notin S}
<1> SUFFICES ASSUME B # {} PROVE FALSE
  OBVIOUS
<1>1. PICK m \in B : \A y \in B : ~ (y < m)
  <2>1. B \subseteq Nat
    OBVIOUS
  <2> HIDE DEF B
  <2> QED
    BY <2>1, LeastOf
<1>2. m \in Nat \ {0} /\ m \in 0..k
  BY <1>1
<1>3. m - 1 \in 0..k /\ m - 1 \notin B /\ (m - 1) + 1 = m
  BY <1>1, <1>2
<1> QED
  BY <1>1, <1>3

(* The first k names.                                                       *)
Trail(f, list, how, names, k) ==
    f = [n \in 0..k |-> IF n = 0 THEN list ELSE Treat(f[n - 1], how, names[n])]

LEMMA TrailsExist ==
    ASSUME NEW list, NEW how, NEW names, NEW k \in Nat
    PROVE  \E f : Trail(f, list, how, names, k)
<1> DEFINE S == {j \in Nat : \E f : Trail(f, list, how, names, j)}
<1>1. 0 \in S
  <2> DEFINE g == [n \in 0..0 |-> list]
  <2>1. Trail(g, list, how, names, 0)
    BY DEF Trail
  <2> QED
    BY <2>1
<1>2. ASSUME NEW j \in 0..k, j \in S PROVE j + 1 \in S
  <2>1. PICK g : Trail(g, list, how, names, j)
    BY <1>2
  <2> DEFINE f == [n \in 0..(j + 1) |-> IF n = j + 1 THEN Treat(g[j], how, names[n]) ELSE g[n]]
  <2>2. \A n \in 0..j : g[n] = IF n = 0 THEN list ELSE Treat(g[n - 1], how, names[n])
    BY <2>1 DEF Trail
  <2>3. ASSUME NEW n \in 0..(j + 1)
        PROVE  f[n] = IF n = 0 THEN list ELSE Treat(f[n - 1], how, names[n])
    <3>1. CASE n = j + 1
      <4>1. n # 0 /\ n - 1 = j /\ j \in 0..(j + 1) /\ j # j + 1
        BY <3>1
      <4> QED
        BY <3>1, <4>1
    <3>2. CASE n # j + 1
      <4>1. n \in 0..j /\ (n # 0 => n - 1 \in 0..(j + 1) /\ n - 1 # j + 1)
        BY <3>2
      <4> QED
        BY <2>2, <3>2, <4>1
    <3> QED
      BY <3>1, <3>2
  <2>4. Trail(f, list, how, names, j + 1)
    BY <2>3 DEF Trail
  <2> QED
    BY <2>4
<1>3. 0..k \subseteq S
  <2> HIDE DEF S
  <2> QED
    BY <1>1, <1>2, UpTo
<1> QED
  BY <1>3

LEMMA TreatedIsReached ==
    ASSUME NEW list, NEW how, NEW names, Len(names) \in Nat
    PROVE  \E f : /\ f[0] = list /\ Treated(list, how, names) = f[Len(names)]
                  /\ \A n \in 0..Len(names) : n + 1 \in 0..Len(names) =>
                        f[n + 1] = Treat(f[n], how, names[n + 1])
<1>1. \E f : Trail(f, list, how, names, Len(names))
  BY TrailsExist
<1> DEFINE f == CHOOSE g : Trail(g, list, how, names, Len(names))
<1>2. Trail(f, list, how, names, Len(names))
  BY <1>1
<1>3. Treated(list, how, names) = f[Len(names)]
  BY DEF Treated, Trail
<1> HIDE DEF f
<1>4. \A n \in 0..Len(names) : f[n] = IF n = 0 THEN list ELSE Treat(f[n - 1], how, names[n])
  BY <1>2 DEF Trail
<1>5. ASSUME NEW n \in 0..Len(names), n + 1 \in 0..Len(names)
      PROVE  f[n + 1] = Treat(f[n], how, names[n + 1])
  <2>1. n + 1 # 0 /\ (n + 1) - 1 = n
    OBVIOUS
  <2> QED
    BY <1>4, <1>5, <2>1
<1>6. f[0] = list
  BY <1>4
<1> QED
  BY <1>3, <1>5, <1>6

(* An order of a set of names has each of them once.                        *)
LEMMA OrderIsWhole ==
    ASSUME NEW S \in SUBSET Ids, NEW q \in SetToSeqs(S)
    PROVE  /\ q \in Seq(S)
           /\ \A i, j \in DOMAIN q : q[i] = q[j] => i = j
           /\ \A id \in S : \E i \in DOMAIN q : q[i] = id
<1>1. IsFiniteSet(S)
  BY FolderAssumption, FS_Subset
<1> DEFINE n == Cardinality(S)
<1>2. n \in Nat
  BY <1>1, FS_CardinalityType
<1>3. q \in [1..n -> S] /\ \A i, j \in 1..n : q[i] = q[j] => i = j
  BY DEF SetToSeqs
<1> HIDE DEF n
<1>4. q \in Seq(S) /\ DOMAIN q = 1..n
  BY <1>2, <1>3
<1>5. q \in Injection(1..n, S)
  BY <1>3 DEF Injection, IsInjective
<1>6. Cardinality(1..n) = n
  BY <1>2, FS_Interval
<1>7. q \in Surjection(1..n, S)
  BY <1>1, <1>5, <1>6, FS_Injection DEF n
<1>8. \A id \in S : \E i \in DOMAIN q : q[i] = id
  BY <1>4, <1>7 DEF Surjection
<1> QED
  BY <1>3, <1>4, <1>8

LEMMA RemoveAtKeeps ==
    ASSUME NEW T, NEW s \in Seq(T), NEW i \in DOMAIN s
    PROVE  /\ RemoveAt(s, i) \in Seq(T) /\ DOMAIN RemoveAt(s, i) = 1..(Len(s) - 1)
           /\ \A j \in 1..(Len(s) - 1) : RemoveAt(s, i)[j] = IF j < i THEN s[j] ELSE s[j + 1]
<1> DEFINE left == SubSeq(s, 1, i - 1)  right == SubSeq(s, i + 1, Len(s))
<1>1. Len(s) \in Nat /\ i \in 1..Len(s)
  OBVIOUS
<1>2. /\ left \in Seq(T) /\ Len(left) = i - 1 /\ \A j \in 1..(i - 1) : left[j] = s[j]
      /\ right \in Seq(T) /\ Len(right) = Len(s) - i /\ \A j \in 1..(Len(s) - i) : right[j] = s[i + j]
  BY <1>1
<1> HIDE DEF left, right
<1>3. /\ left \o right \in Seq(T) /\ DOMAIN (left \o right) = 1..(Len(s) - 1)
      /\ \A j \in 1..(Len(s) - 1) : (left \o right)[j] = IF j <= i - 1 THEN left[j] ELSE right[j - (i - 1)]
  BY <1>1, <1>2
<1>4. ASSUME NEW j \in 1..(Len(s) - 1) PROVE (left \o right)[j] = IF j < i THEN s[j] ELSE s[j + 1]
  <2>1. CASE j < i
    BY <1>1, <1>2, <1>3, <2>1
  <2>2. CASE ~(j < i)
    <3> DEFINE m == j - (i - 1)
    <3>1. m \in 1..(Len(s) - i) /\ i + m = j + 1 /\ ~(j <= i - 1)
      BY <1>1, <2>2
    <3>2. right[m] = s[i + m] /\ (left \o right)[j] = right[m]
      BY <1>2, <1>3, <3>1
    <3> QED
      BY <2>2, <3>1, <3>2
  <2> QED
    BY <2>1, <2>2
<1>5. RemoveAt(s, i) = left \o right
  BY DEF RemoveAt, left, right
<1> QED
  BY <1>3, <1>4, <1>5

(* The index of a list that has every name at most once.                    *)
LEMMA IndexOfIs ==
    ASSUME NEW list \in Seq(Row), \A i, j \in DOMAIN list : list[i].id = list[j].id => i = j
    PROVE  /\ IndexOf(list) \in [DOMAIN IndexOf(list) -> Nat \ {0}] /\ DOMAIN IndexOf(list) \subseteq Ids
           /\ \A i \in DOMAIN list : list[i].id \in DOMAIN IndexOf(list) /\ IndexOf(list)[list[i].id] = i
           /\ \A id \in DOMAIN IndexOf(list) : \E i \in DOMAIN list : list[i].id = id
<1>1. DOMAIN IndexOf(list) = {list[i].id : i \in DOMAIN list}
  BY DEF IndexOf
<1>2. ASSUME NEW i \in DOMAIN list
      PROVE  list[i].id \in DOMAIN IndexOf(list) /\ IndexOf(list)[list[i].id] = i
  <2> DEFINE RowsOf == {k \in DOMAIN list : list[k].id = list[i].id}
  <2>1. RowsOf = {i}
    OBVIOUS
  <2>2. i \in Nat /\ i <= i
    OBVIOUS
  <2>3. (CHOOSE k \in RowsOf : \A j \in RowsOf : j <= k) = i
    BY <2>1, <2>2
  <2> QED
    BY <1>1, <2>3 DEF IndexOf
<1>3. DOMAIN list \subseteq Nat \ {0} /\ \A i \in DOMAIN list : list[i].id \in Ids
  <2>1. \A i \in DOMAIN list : list[i] \in Row
    OBVIOUS
  <2> QED
    BY <2>1 DEF Row
<1>4. \A id \in DOMAIN IndexOf(list) : IndexOf(list)[id] \in Nat \ {0} /\ id \in Ids
  BY <1>1, <1>2, <1>3
<1>5. IndexOf(list) \in [DOMAIN IndexOf(list) -> Nat \ {0}]
  <2>1. IndexOf(list) = [id \in DOMAIN IndexOf(list) |-> IndexOf(list)[id]]
    BY DEF IndexOf
  <2> QED
    BY <1>4, <2>1
<1> QED
  BY <1>1, <1>2, <1>4, <1>5

-----------------------------------------------------------------------------
(* A scan is applied.                                                       *)

LEMMA AbortParseKeeps ==
    ASSUME NEW tasks \in Seq(ParseTask), NEW row, row.ticket \in DOMAIN tasks
    PROVE  LET left == AbortParse(tasks, row)
           IN  /\ left \in Seq(ParseTask) /\ Len(left) = Len(tasks) /\ DOMAIN left = DOMAIN tasks
               /\ \A u \in DOMAIN tasks : /\ left[u].id = tasks[u].id /\ left[u].active = tasks[u].active
                                          /\ left[u].read = tasks[u].read
                                          /\ u # row.ticket => left[u] = tasks[u]
<1> DEFINE t == row.ticket
           left == [tasks EXCEPT ![t].aborted = TRUE]
<1>1. tasks[t] \in ParseTask
  OBVIOUS
<1>2. [tasks[t] EXCEPT !.aborted = TRUE] \in ParseTask
  BY <1>1 DEF ParseTask
<1>3. left \in Seq(ParseTask) /\ Len(left) = Len(tasks) /\ DOMAIN left = DOMAIN tasks
  BY <1>2
<1>4. \A u \in DOMAIN tasks : u # t => left[u] = tasks[u]
  OBVIOUS
<1>5. left[t].id = tasks[t].id /\ left[t].active = tasks[t].active /\ left[t].read = tasks[t].read
  BY <1>1 DEF ParseTask
<1>6. AbortParse(tasks, row) = tasks \/ AbortParse(tasks, row) = left
  BY DEF AbortParse
<1> HIDE DEF left
<1> QED
  BY <1>3, <1>4, <1>5, <1>6

(* The parse tasks while a scan is applied: what they know stays.           *)
ParsesGoOn(tasks) ==
    /\ tasks \in Seq(ParseTask) /\ Len(parses) <= Len(tasks)
    /\ \A t \in DOMAIN parses : /\ tasks[t].id = parses[t].id /\ tasks[t].active = parses[t].active
                                /\ tasks[t].read = parses[t].read
    /\ \A t \in DOMAIN tasks \ DOMAIN parses : tasks[t].active

(* The list while a scan is applied: a row is new or as it was.             *)
Applying(list) ==
    /\ list = [rows |-> list.rows, parses |-> list.parses]
    /\ list.rows \in Seq(Row) /\ ParsesGoOn(list.parses)
    /\ \A i \in DOMAIN list.rows :
          /\ HasParse(list.rows[i], list.parses)
          /\ list.rows[i].ticket > Len(parses) \/ \E k \in DOMAIN rows : list.rows[i] = rows[k]
    /\ \A i, j \in DOMAIN list.rows : list.rows[i].id = list.rows[j].id => i = j

LEMMA AbortGoesOn ==
    ASSUME FolderTyped, NEW tasks, ParsesGoOn(tasks), NEW row, row.ticket \in DOMAIN tasks
    PROVE  ParsesGoOn(AbortParse(tasks, row))
<1>1. DOMAIN parses \subseteq DOMAIN tasks
  BY DEF FolderTyped, ParsesGoOn
<1> QED
  BY <1>1, AbortParseKeeps DEF ParsesGoOn

LEMMA NewParseGoesOn ==
    ASSUME FolderTyped, NEW tasks, ParsesGoOn(tasks), NEW id \in Ids
    PROVE  /\ ParsesGoOn(Append(tasks, ParseOf(id)))
           /\ DOMAIN Append(tasks, ParseOf(id)) = DOMAIN tasks \cup {Len(tasks) + 1}
           /\ Append(tasks, ParseOf(id))[Len(tasks) + 1] = ParseOf(id)
           /\ \A u \in DOMAIN tasks : Append(tasks, ParseOf(id))[u] = tasks[u] /\ u <= Len(tasks)
           /\ Len(tasks) + 1 \in Nat \ {0} /\ Len(tasks) + 1 > Len(parses)
<1>1. tasks \in Seq(ParseTask) /\ ParseOf(id) \in ParseTask /\ ParseOf(id).active /\ parses \in Seq(ParseTask)
  BY DEF FolderTyped, ParsesGoOn, ParseOf, ParseTask
<1> DEFINE new == Append(tasks, ParseOf(id))
<1>2. /\ new \in Seq(ParseTask) /\ Len(new) = Len(tasks) + 1 /\ DOMAIN new = DOMAIN tasks \cup {Len(tasks) + 1}
      /\ new[Len(tasks) + 1] = ParseOf(id)
      /\ \A u \in DOMAIN tasks : new[u] = tasks[u] /\ u <= Len(tasks)
      /\ Len(tasks) \in Nat /\ Len(parses) \in Nat /\ DOMAIN parses = 1..Len(parses) /\ DOMAIN tasks = 1..Len(tasks)
  BY <1>1
<1> HIDE DEF new
<1>3. ParsesGoOn(new)
  <2>1. Len(parses) <= Len(tasks) /\ DOMAIN parses \subseteq DOMAIN tasks
    BY <1>2 DEF ParsesGoOn
  <2> QED
    BY <1>1, <1>2, <2>1 DEF ParsesGoOn
<1>4. Len(tasks) + 1 \in Nat \ {0} /\ Len(tasks) + 1 > Len(parses)
  BY <1>2 DEF ParsesGoOn
<1> QED
  BY <1>2, <1>3, <1>4 DEF new

(* What a scan found of a name.                                             *)
LEMMA ResourceIsRow ==
    ASSUME FolderTyped, NEW id \in Found(scan), NEW ticket \in Nat \ {0}
    PROVE  /\ id \in Ids /\ Resource(id, ticket) \in Row
           /\ Resource(id, ticket).id = id /\ Resource(id, ticket).ticket = ticket
           /\ Resource(id, ticket).date = scan[id]
BY DEF FolderTyped, Found, Resource, Row

(* A row that was replaced has the date that was found.                     *)
LEMMA KeepApplies ==
    ASSUME FolderTyped, NEW list, Applying(list), Finds(list.rows), NEW id \in DOMAIN index \cap Found(scan)
    PROVE  LET new == Keep(list, id)
           IN  /\ Applying(new) /\ Finds(new.rows)
               /\ \A i \in DOMAIN new.rows :
                     \/ new.rows[i].date = scan[new.rows[i].id]
                     \/ i \in DOMAIN list.rows /\ new.rows[i] = list.rows[i] /\ list.rows[i].id # id
<1> DEFINE i == index[id]
           new == Keep(list, id)
<1>1. CASE i \notin DOMAIN list.rows \/ list.rows[i].date = scan[id]
  <2>1. new = list
    BY <1>1 DEF Keep
  <2>2. ASSUME NEW j \in DOMAIN list.rows, list.rows[j].id = id PROVE list.rows[j].date = scan[id]
    BY <1>1, <2>2 DEF Finds
  <2> QED
    BY <2>1, <2>2
<1>2. CASE i \in DOMAIN list.rows /\ list.rows[i].date # scan[id]
  <2> DEFINE tasks == AbortParse(list.parses, list.rows[i])
             n == Len(tasks) + 1
             res == Resource(id, n)
  <2>1. list.rows[i].ticket \in DOMAIN list.parses
    BY <1>2 DEF Applying, HasParse
  <2>2. list.parses \in Seq(ParseTask) /\ ParsesGoOn(list.parses) /\ list.rows \in Seq(Row)
    BY DEF Applying, ParsesGoOn
  <2>3. /\ Len(tasks) = Len(list.parses) /\ DOMAIN tasks = DOMAIN list.parses /\ ParsesGoOn(tasks)
        /\ \A u \in DOMAIN tasks : tasks[u].id = list.parses[u].id
        /\ \A u \in DOMAIN tasks : u # list.rows[i].ticket => tasks[u] = list.parses[u]
    BY <2>1, <2>2, AbortParseKeeps, AbortGoesOn
  <2> HIDE DEF tasks
  <2> DEFINE ps == Append(tasks, ParseOf(id))
  <2>4. id \in Ids
    BY DEF Found
  <2>5. /\ ParsesGoOn(ps) /\ DOMAIN ps = DOMAIN tasks \cup {n} /\ ps[n] = ParseOf(id)
        /\ \A u \in DOMAIN tasks : ps[u] = tasks[u] /\ u <= Len(tasks)
        /\ n \in Nat \ {0} /\ n > Len(parses)
    BY <2>3, <2>4, NewParseGoesOn
  <2> HIDE DEF ps
  <2>6. res \in Row /\ res.id = id /\ res.ticket = n /\ res.date = scan[id]
    BY <2>5, ResourceIsRow
  <2>7. new = [rows |-> [list.rows EXCEPT ![i] = res], parses |-> ps]
    BY <1>2, <2>3 DEF Keep, ps, tasks
  <2> HIDE DEF res, n
  <2>8. /\ new.rows \in Seq(Row) /\ DOMAIN new.rows = DOMAIN list.rows /\ new.rows[i] = res
        /\ \A j \in DOMAIN list.rows : j # i => new.rows[j] = list.rows[j]
        /\ new.parses = ps /\ new = [rows |-> new.rows, parses |-> new.parses]
    BY <1>2, <2>2, <2>6, <2>7
  <2> HIDE DEF new
  <2>9. ASSUME NEW j \in DOMAIN list.rows, j # i
        PROVE  list.rows[j].id # id /\ list.rows[j].id \in DOMAIN index /\ index[list.rows[j].id] = j
    BY <2>9 DEF Finds
  <2>10. Finds(new.rows)
    <3>1. \A j \in DOMAIN new.rows : new.rows[j].id \in DOMAIN index /\ index[new.rows[j].id] = j
      BY <2>6, <2>8, <2>9
    <3>2. ASSUME ~mods, NEW x \in DOMAIN index PROVE \E j \in DOMAIN new.rows : new.rows[j].id = x
      <4>1. PICK j \in DOMAIN list.rows : list.rows[j].id = x
        BY <3>2 DEF Finds
      <4>2. CASE j # i
        BY <2>8, <4>1, <4>2
      <4>3. CASE j = i
        <5>1. PICK k \in DOMAIN list.rows : list.rows[k].id = id
          BY <3>2 DEF Finds
        <5>2. k = i /\ x = id
          BY <4>1, <4>3, <5>1 DEF Finds
        <5> QED
          BY <2>6, <2>8, <5>1, <5>2
      <4> QED
        BY <4>2, <4>3
    <3> QED
      BY <3>1, <3>2 DEF Finds
  <2>11. ASSUME NEW j \in DOMAIN new.rows
         PROVE  /\ HasParse(new.rows[j], ps)
                /\ new.rows[j].ticket > Len(parses) \/ \E k \in DOMAIN rows : new.rows[j] = rows[k]
    <3>1. CASE j = i
      BY <2>5, <2>6, <2>8, <3>1 DEF HasParse, ParseOf, n
    <3>2. CASE j # i
      <4> DEFINE r == list.rows[j]
      <4>1. HasParse(r, list.parses) /\ (r.ticket > Len(parses) \/ \E k \in DOMAIN rows : r = rows[k])
        BY <2>8 DEF Applying
      <4>2. r.id # id /\ new.rows[j] = r /\ list.parses[list.rows[i].ticket].id = list.rows[i].id
        BY <1>2, <2>8, <2>9, <3>2 DEF Applying, HasParse
      <4>3. r.ticket # list.rows[i].ticket
        <5>1. r.id # list.rows[i].id
          BY <1>2, <2>8, <3>2 DEF Applying
        <5> QED
          BY <4>1, <4>2, <5>1 DEF HasParse
      <4>4. HasParse(r, ps)
        <5>1. r.ticket \in DOMAIN ps /\ ps[r.ticket] = list.parses[r.ticket]
          BY <2>3, <2>5, <4>1, <4>3 DEF HasParse
        <5>2. ASSUME NEW u \in DOMAIN ps, ps[u].id = r.id PROVE u <= r.ticket
          <6>1. u # n
            BY <2>5, <4>2, <5>2 DEF ParseOf
          <6> QED
            BY <2>3, <2>5, <4>1, <5>2, <6>1 DEF HasParse
        <5> QED
          BY <4>1, <5>1, <5>2 DEF HasParse
      <4> QED
        BY <4>1, <4>2, <4>4
    <3> QED
      BY <3>1, <3>2
  <2>12. \A j, k \in DOMAIN new.rows : new.rows[j].id = new.rows[k].id => j = k
    BY <2>10 DEF Finds
  <2>13. Applying(new)
    BY <2>5, <2>8, <2>11, <2>12 DEF Applying
  <2>14. \A j \in DOMAIN new.rows :
            \/ new.rows[j].date = scan[new.rows[j].id]
            \/ j \in DOMAIN list.rows /\ new.rows[j] = list.rows[j] /\ list.rows[j].id # id
    BY <2>6, <2>8, <2>9
  <2> QED
    BY <2>10, <2>13, <2>14 DEF new
<1> QED
  BY <1>1, <1>2

LEMMA KeepsApply ==
    ASSUME FolderTyped, IndexFinds, NEW list, Applying(list), Finds(list.rows),
           NEW q \in Seq(DOMAIN index \cap Found(scan)), \A id \in DOMAIN index \cap Found(scan) : \E m \in DOMAIN q : q[m] = id
    PROVE  LET new == Treated(list, "keep", q)
           IN  /\ Applying(new) /\ Finds(new.rows)
               /\ \A i \in DOMAIN new.rows : new.rows[i].id \in Found(scan) =>
                     new.rows[i].date = scan[new.rows[i].id]
<1>1. Len(q) \in Nat /\ DOMAIN q = 1..Len(q) /\ \A m \in DOMAIN q : q[m] \in DOMAIN index \cap Found(scan)
  OBVIOUS
<1>2. PICK f : /\ f[0] = list /\ Treated(list, "keep", q) = f[Len(q)]
               /\ \A n \in 0..Len(q) : n + 1 \in 0..Len(q) => f[n + 1] = Treat(f[n], "keep", q[n + 1])
  BY <1>1, TreatedIsReached
<1> DEFINE Good(n) == /\ Applying(f[n]) /\ Finds(f[n].rows)
                      /\ \A i \in DOMAIN f[n].rows :
                            \/ f[n].rows[i].date = scan[f[n].rows[i].id]
                            \/ \A m \in 1..n : q[m] # f[n].rows[i].id
           S == {n \in Nat : Good(n)}
<1>3. 0 \in S
  BY <1>2
<1>4. ASSUME NEW n \in 0..Len(q), n + 1 \in 0..Len(q), n \in S PROVE n + 1 \in S
  <2>1. Good(n) /\ n \in Nat /\ n + 1 \in DOMAIN q
    BY <1>1, <1>4
  <2>2. f[n + 1] = Keep(f[n], q[n + 1]) /\ q[n + 1] \in DOMAIN index \cap Found(scan)
    BY <1>1, <1>2, <1>4, <2>1 DEF Treat
  <2>3. /\ Applying(f[n + 1]) /\ Finds(f[n + 1].rows)
        /\ \A i \in DOMAIN f[n + 1].rows :
              \/ f[n + 1].rows[i].date = scan[f[n + 1].rows[i].id]
              \/ i \in DOMAIN f[n].rows /\ f[n + 1].rows[i] = f[n].rows[i] /\ f[n].rows[i].id # q[n + 1]
    <3> DEFINE l == f[n]
               id == q[n + 1]
    <3>1. Applying(l) /\ Finds(l.rows) /\ id \in DOMAIN index \cap Found(scan) /\ f[n + 1] = Keep(l, id)
      BY <2>1, <2>2
    <3> HIDE DEF l, id
    <3>2. /\ Applying(f[n + 1]) /\ Finds(f[n + 1].rows)
          /\ \A i \in DOMAIN f[n + 1].rows :
                \/ f[n + 1].rows[i].date = scan[f[n + 1].rows[i].id]
                \/ i \in DOMAIN l.rows /\ f[n + 1].rows[i] = l.rows[i] /\ l.rows[i].id # id
      BY <3>1, KeepApplies
    <3> QED
      BY <3>2 DEF l, id
  <2>4. \A m \in 1..(n + 1) : m \in 1..n \/ m = n + 1
    BY <2>1
  <2>5. Good(n + 1)
    BY <2>1, <2>3, <2>4
  <2> QED
    BY <2>1, <2>5
<1>5. Good(Len(q))
  <2>1. 0..Len(q) \subseteq S
    <3> HIDE DEF S
    <3> QED
      BY <1>1, <1>3, <1>4, UpTo
  <2>2. Len(q) \in 0..Len(q)
    BY <1>1
  <2> HIDE DEF Good
  <2> QED
    BY <2>1, <2>2
<1>6. ASSUME NEW i \in DOMAIN f[Len(q)].rows, f[Len(q)].rows[i].id \in Found(scan)
      PROVE  f[Len(q)].rows[i].date = scan[f[Len(q)].rows[i].id]
  <2>1. f[Len(q)].rows[i].id \in DOMAIN index
    BY <1>5, <1>6 DEF Finds
  <2> QED
    BY <1>1, <1>5, <1>6, <2>1
<1> QED
  BY <1>2, <1>5, <1>6

(* The list of which some rows were removed, from below: above the last     *)
(* removal the rows are where they were.                                    *)
Dropping(list, all, q, n) ==
    /\ Applying(list)
    /\ \A j \in DOMAIN list.rows : \E k \in DOMAIN all.rows :
          /\ list.rows[j] = all.rows[k] /\ j <= k
          /\ \A m \in 1..n : k # index[q[m]]
          /\ (\A m \in 1..n : j < index[q[m]]) => k = j
    /\ ~mods => \A id \in DOMAIN index : (\A m \in 1..n : q[m] # id) => \E j \in DOMAIN list.rows : list.rows[j].id = id

LEMMA DropApplies ==
    ASSUME FolderTyped, IndexFinds, NEW all, Applying(all), Finds(all.rows),
           NEW q \in Seq(DOMAIN index), \A k, m \in DOMAIN q : q[k] = q[m] => k = m,
           \A k, m \in DOMAIN q : k < m => index[q[k]] >= index[q[m]],
           NEW n \in Nat, n + 1 \in DOMAIN q, NEW list, Dropping(list, all, q, n)
    PROVE  Dropping(Drop(list, q[n + 1]), all, q, n + 1)
<1> DEFINE i == index[q[n + 1]]
           new == Drop(list, q[n + 1])
<1>1. /\ i \in Nat \ {0} /\ q[n + 1] \in DOMAIN index
      /\ \A m \in 1..n : m \in DOMAIN q /\ index[q[m]] \in Nat /\ i <= index[q[m]] /\ q[m] # q[n + 1]
  <2>1. q[n + 1] \in DOMAIN index
    OBVIOUS
  <2>2. i \in Nat \ {0}
    BY <2>1 DEF IndexFinds
  <2>3. ASSUME NEW m \in 1..n
        PROVE  m \in DOMAIN q /\ m # n + 1 /\ m < n + 1 /\ index[q[m]] \in Nat
    <3>1. m \in DOMAIN q /\ m # n + 1 /\ m < n + 1
      OBVIOUS
    <3>2. q[m] \in DOMAIN index
      BY <3>1
    <3> QED
      BY <3>1, <3>2 DEF IndexFinds
  <2> QED
    BY <2>1, <2>2, <2>3
<1>2. list.rows \in Seq(Row) /\ all.rows \in Seq(Row)
  BY DEF Dropping, Applying
<1>3. \A m \in 1..(n + 1) : m \in 1..n \/ m = n + 1
  OBVIOUS
(* A row above all that was removed so far is where it was.                 *)
<1>4. ASSUME NEW j \in DOMAIN list.rows, NEW k \in DOMAIN all.rows, j <= k, k = i,
             (\A m \in 1..n : j < index[q[m]]) => k = j
      PROVE  j = i
  <2>1. j \in Nat /\ k \in Nat
    BY <1>2
  <2>2. CASE j < i
    BY <1>1, <1>4, <2>1, <2>2
  <2> QED
    BY <1>1, <1>4, <2>1, <2>2
<1>5. CASE i \notin DOMAIN list.rows
  <2>1. new = list
    BY <1>5 DEF Drop
  <2>2. ASSUME NEW j \in DOMAIN list.rows
        PROVE  \E k \in DOMAIN all.rows :
                  /\ list.rows[j] = all.rows[k] /\ j <= k
                  /\ \A m \in 1..(n + 1) : k # index[q[m]]
                  /\ (\A m \in 1..(n + 1) : j < index[q[m]]) => k = j
    <3>1. PICK k \in DOMAIN all.rows :
                  /\ list.rows[j] = all.rows[k] /\ j <= k
                  /\ \A m \in 1..n : k # index[q[m]]
                  /\ (\A m \in 1..n : j < index[q[m]]) => k = j
      BY DEF Dropping
    <3>2. k # i
      BY <1>4, <1>5, <3>1
    <3> QED
      BY <1>3, <3>1, <3>2
  <2>3. ASSUME ~mods, NEW id \in DOMAIN index, \A m \in 1..(n + 1) : q[m] # id
        PROVE  \E j \in DOMAIN list.rows : list.rows[j].id = id
    BY <2>3 DEF Dropping
  <2> QED
    BY <2>1, <2>2, <2>3 DEF Dropping
<1>6. CASE i \in DOMAIN list.rows
  <2> DEFINE tasks == AbortParse(list.parses, list.rows[i])
  <2>1. list.rows[i].ticket \in DOMAIN list.parses /\ ParsesGoOn(list.parses)
    BY <1>6 DEF Dropping, Applying, HasParse
  <2>2. /\ DOMAIN tasks = DOMAIN list.parses /\ ParsesGoOn(tasks)
        /\ \A u \in DOMAIN tasks : tasks[u].id = list.parses[u].id
        /\ \A u \in DOMAIN tasks : u # list.rows[i].ticket => tasks[u] = list.parses[u]
    <3>1. list.parses \in Seq(ParseTask)
      BY <2>1 DEF ParsesGoOn
    <3> QED
      BY <2>1, <3>1, AbortParseKeeps, AbortGoesOn
  <2>3. new = [rows |-> RemoveAt(list.rows, i), parses |-> tasks]
    BY <1>6 DEF Drop
  <2> HIDE DEF tasks
  <2>4. /\ new.rows \in Seq(Row) /\ DOMAIN new.rows = 1..(Len(list.rows) - 1)
        /\ \A j \in DOMAIN new.rows : new.rows[j] = IF j < i THEN list.rows[j] ELSE list.rows[j + 1]
        /\ new.parses = tasks /\ new = [rows |-> new.rows, parses |-> new.parses]
    <3>1. new.rows = RemoveAt(list.rows, i) /\ new.parses = tasks /\ new = [rows |-> new.rows, parses |-> new.parses]
      BY <2>3
    <3> HIDE DEF new
    <3> DEFINE k == i
    <3>2. k \in DOMAIN list.rows
      BY <1>6
    <3> HIDE DEF k
    <3>3. /\ RemoveAt(list.rows, k) \in Seq(Row) /\ DOMAIN RemoveAt(list.rows, k) = 1..(Len(list.rows) - 1)
          /\ \A j \in 1..(Len(list.rows) - 1) :
                RemoveAt(list.rows, k)[j] = IF j < k THEN list.rows[j] ELSE list.rows[j + 1]
      BY <1>2, <3>2, RemoveAtKeeps
    <3> QED
      BY <3>1, <3>3 DEF k
  <2> HIDE DEF new
  <2> DEFINE Old(j) == IF j < i THEN j ELSE j + 1
  <2>5. ASSUME NEW j \in DOMAIN new.rows
        PROVE  Old(j) \in DOMAIN list.rows /\ Old(j) # i /\ new.rows[j] = list.rows[Old(j)] /\ j \in Nat
    BY <1>1, <1>2, <1>6, <2>4
  <2>6. \A j, k \in DOMAIN new.rows : Old(j) = Old(k) => j = k
    BY <1>1, <2>5
  <2>7. ASSUME NEW j \in DOMAIN list.rows, j # i
        PROVE  \E k \in DOMAIN new.rows : new.rows[k] = list.rows[j]
    <3>1. CASE j < i
      <4>1. j \in DOMAIN new.rows
        BY <1>2, <1>6, <2>4, <3>1
      <4> QED
        BY <2>4, <3>1, <4>1
    <3>2. CASE ~(j < i)
      <4> DEFINE l == Len(list.rows)
      <4>1. /\ l \in Nat /\ i \in Nat /\ j \in 1..l /\ j # i /\ ~(j < i) /\ 1 <= i
            /\ DOMAIN new.rows = 1..(l - 1)
        BY <1>1, <1>2, <2>4, <2>7, <3>2
      <4> HIDE DEF l
      <4>2. j - 1 \in DOMAIN new.rows /\ ~(j - 1 < i) /\ (j - 1) + 1 = j
        BY ONLY <4>1
      <4> QED
        BY <2>4, <4>2
    <3> QED
      BY <3>1, <3>2
  <2> HIDE DEF Old
  <2>8. Applying(new)
    <3>1. ASSUME NEW j \in DOMAIN new.rows
          PROVE  /\ HasParse(new.rows[j], tasks)
                 /\ new.rows[j].ticket > Len(parses) \/ \E k \in DOMAIN rows : new.rows[j] = rows[k]
      <4> DEFINE r == list.rows[Old(j)]
      <4>1. /\ new.rows[j] = r /\ HasParse(r, list.parses)
            /\ r.ticket > Len(parses) \/ \E k \in DOMAIN rows : r = rows[k]
        BY <2>5 DEF Dropping, Applying
      <4>2. r.id # list.rows[i].id /\ list.parses[list.rows[i].ticket].id = list.rows[i].id
        BY <1>6, <2>5 DEF Dropping, Applying, HasParse
      <4>3. r.ticket # list.rows[i].ticket
        BY <4>1, <4>2 DEF HasParse
      <4>4. HasParse(r, tasks)
        BY <2>2, <4>1, <4>3 DEF HasParse
      <4> QED
        BY <4>1, <4>4
    <3>2. ASSUME NEW j \in DOMAIN new.rows, NEW k \in DOMAIN new.rows, new.rows[j].id = new.rows[k].id
          PROVE  j = k
      <4>1. Old(j) = Old(k)
        BY <2>5, <3>2 DEF Dropping, Applying
      <4> QED
        BY <2>6, <4>1
    <3> QED
      BY <2>2, <2>4, <3>1, <3>2 DEF Applying
  <2>9. ASSUME NEW j \in DOMAIN new.rows
        PROVE  \E k \in DOMAIN all.rows :
                  /\ new.rows[j] = all.rows[k] /\ j <= k
                  /\ \A m \in 1..(n + 1) : k # index[q[m]]
                  /\ (\A m \in 1..(n + 1) : j < index[q[m]]) => k = j
    <3>1. PICK k \in DOMAIN all.rows :
                  /\ list.rows[Old(j)] = all.rows[k] /\ Old(j) <= k
                  /\ \A m \in 1..n : k # index[q[m]]
                  /\ (\A m \in 1..n : Old(j) < index[q[m]]) => k = Old(j)
      BY <2>5 DEF Dropping
    <3>2. k # i
      BY <1>4, <2>5, <3>1
    <3>3. j <= Old(j) /\ Old(j) \in Nat /\ k \in Nat
      BY <1>2, <2>5 DEF Old
    <3>4. j <= k
      BY <2>5, <3>1, <3>3
    <3>5. ASSUME \A m \in 1..(n + 1) : j < index[q[m]] PROVE k = j
      <4>1. n + 1 \in 1..(n + 1) /\ \A m \in 1..n : m \in 1..(n + 1)
        OBVIOUS
      <4>2. j < i
        BY <3>5, <4>1
      <4>3. Old(j) = j
        BY <4>2 DEF Old
      <4> QED
        BY <3>1, <3>5, <4>1, <4>3
    <3> QED
      BY <1>3, <2>5, <3>1, <3>2, <3>4, <3>5
  <2>10. ASSUME ~mods, NEW id \in DOMAIN index, \A m \in 1..(n + 1) : q[m] # id
         PROVE  \E j \in DOMAIN new.rows : new.rows[j].id = id
    <3>0. n + 1 \in 1..(n + 1) /\ \A m \in 1..n : m \in 1..(n + 1)
      OBVIOUS
    <3>1. PICK j \in DOMAIN list.rows : list.rows[j].id = id
      BY <2>10, <3>0 DEF Dropping
    <3>2. j # i
      <4> SUFFICES ASSUME j = i PROVE FALSE
        OBVIOUS
      <4>1. PICK g \in DOMAIN all.rows : all.rows[g].id = q[n + 1]
        BY <1>1, <2>10 DEF Finds
      <4>2. g = i
        BY <4>1 DEF Finds
      <4>3. ASSUME NEW m \in 1..n PROVE i < index[q[m]]
        <5>1. q[m] \in DOMAIN index
          BY <1>1, <4>3
        <5>2. PICK h \in DOMAIN all.rows : all.rows[h].id = q[m]
          BY <2>10, <5>1 DEF Finds
        <5>3. h = index[q[m]]
          BY <5>2 DEF Finds
        <5>4. index[q[m]] # i
          BY <1>1, <4>1, <4>2, <4>3, <5>2, <5>3
        <5> QED
          BY <1>1, <4>3, <5>4
      <4>4. PICK k \in DOMAIN all.rows : list.rows[i] = all.rows[k] /\ ((\A m \in 1..n : i < index[q[m]]) => k = i)
        BY <1>6 DEF Dropping
      <4>5. all.rows[i].id = id
        BY <3>1, <4>3, <4>4
      <4> QED
        BY <2>10, <3>0, <4>1, <4>2, <4>5
    <3> QED
      BY <2>7, <3>1, <3>2
  <2> QED
    BY <2>8, <2>9, <2>10 DEF Dropping, new
<1> QED
  BY <1>5, <1>6

LEMMA DropsApply ==
    ASSUME FolderTyped, IndexFinds, NEW all, Applying(all), Finds(all.rows),
           NEW q \in Seq(DOMAIN index), \A k, m \in DOMAIN q : q[k] = q[m] => k = m,
           \A k, m \in DOMAIN q : k < m => index[q[k]] >= index[q[m]]
    PROVE  Dropping(Treated(all, "drop", q), all, q, Len(q))
<1>1. Len(q) \in Nat /\ DOMAIN q = 1..Len(q)
  OBVIOUS
<1>2. PICK f : /\ f[0] = all /\ Treated(all, "drop", q) = f[Len(q)]
               /\ \A n \in 0..Len(q) : n + 1 \in 0..Len(q) => f[n + 1] = Treat(f[n], "drop", q[n + 1])
  BY <1>1, TreatedIsReached
<1> DEFINE S == {n \in Nat : Dropping(f[n], all, q, n)}
<1>3. 0 \in S
  <2>1. \A j \in DOMAIN all.rows : j <= j
    BY DEF Applying
  <2>2. ASSUME ~mods, NEW id \in DOMAIN index PROVE \E j \in DOMAIN all.rows : all.rows[j].id = id
    BY <2>2 DEF Finds
  <2>3. Dropping(all, all, q, 0)
    BY <2>1, <2>2 DEF Dropping
  <2> QED
    BY <1>2, <2>3
<1>4. ASSUME NEW n \in 0..Len(q), n + 1 \in 0..Len(q), n \in S PROVE n + 1 \in S
  <2>1. n \in Nat /\ n + 1 \in Nat /\ n + 1 \in DOMAIN q /\ Dropping(f[n], all, q, n)
    BY <1>1, <1>4
  <2>2. f[n + 1] = Drop(f[n], q[n + 1])
    BY <1>2, <1>4 DEF Treat
  <2>3. Dropping(f[n + 1], all, q, n + 1)
    BY <2>1, <2>2, DropApplies
  <2> QED
    BY <2>1, <2>3
<1>5. 0..Len(q) \subseteq S
  <2> HIDE DEF S
  <2> QED
    BY <1>1, <1>3, <1>4, UpTo
<1>6. Len(q) \in S
  BY <1>1, <1>5
<1> QED
  BY <1>2, <1>6

LEMMA AddApplies ==
    ASSUME FolderTyped, NEW list, Applying(list), NEW id \in Found(scan),
           \A j \in DOMAIN list.rows : list.rows[j].id # id
    PROVE  /\ Applying(Add(list, id))
           /\ \A j \in DOMAIN list.rows :
                 j \in DOMAIN Add(list, id).rows /\ Add(list, id).rows[j] = list.rows[j]
           /\ \E j \in DOMAIN Add(list, id).rows : Add(list, id).rows[j].id = id
           /\ \A j \in DOMAIN Add(list, id).rows :
                 \/ j \in DOMAIN list.rows /\ Add(list, id).rows[j] = list.rows[j]
                 \/ Add(list, id).rows[j].id = id /\ Add(list, id).rows[j].date = scan[id]
<1> DEFINE new == Add(list, id)
           tasks == list.parses
           n == Len(tasks) + 1
           res == Resource(id, n)
           ps == Append(tasks, ParseOf(id))
           last == Len(list.rows) + 1
<1>1. id \in Ids /\ ParsesGoOn(tasks) /\ list.rows \in Seq(Row)
  BY DEF Found, Applying
<1>2. /\ ParsesGoOn(ps) /\ DOMAIN ps = DOMAIN tasks \cup {n} /\ ps[n] = ParseOf(id)
      /\ \A u \in DOMAIN tasks : ps[u] = tasks[u] /\ u <= Len(tasks)
      /\ n \in Nat \ {0} /\ n > Len(parses)
  BY <1>1, NewParseGoesOn
<1>3. res \in Row /\ res.id = id /\ res.ticket = n /\ res.date = scan[id]
  BY <1>2, ResourceIsRow
<1>4. new = [rows |-> Append(list.rows, res), parses |-> ps]
  BY DEF Add
<1> HIDE DEF res, ps
<1>5. /\ new.rows \in Seq(Row) /\ DOMAIN new.rows = DOMAIN list.rows \cup {last}
      /\ new.rows[last] = res /\ last \notin DOMAIN list.rows
      /\ \A j \in DOMAIN list.rows : new.rows[j] = list.rows[j]
      /\ new.parses = ps /\ new = [rows |-> new.rows, parses |-> new.parses]
  BY <1>1, <1>3, <1>4
<1> HIDE DEF new, last
<1>6. ASSUME NEW j \in DOMAIN new.rows
      PROVE  /\ HasParse(new.rows[j], ps)
             /\ new.rows[j].ticket > Len(parses) \/ \E k \in DOMAIN rows : new.rows[j] = rows[k]
  <2>1. CASE j = last
    BY <1>2, <1>3, <1>5, <2>1 DEF HasParse, ParseOf
  <2>2. CASE j # last
    <3> DEFINE r == list.rows[j]
    <3>1. /\ new.rows[j] = r /\ r.id # id /\ HasParse(r, tasks)
          /\ r.ticket > Len(parses) \/ \E k \in DOMAIN rows : r = rows[k]
      BY <1>5, <2>2 DEF Applying
    <3>2. HasParse(r, ps)
      <4>1. r.ticket \in DOMAIN ps /\ ps[r.ticket] = tasks[r.ticket]
        BY <1>2, <3>1 DEF HasParse
      <4>2. ASSUME NEW u \in DOMAIN ps, ps[u].id = r.id PROVE u <= r.ticket
        <5>1. u # n
          BY <1>2, <3>1, <4>2 DEF ParseOf
        <5> QED
          BY <1>2, <3>1, <4>2, <5>1 DEF HasParse
      <4> QED
        BY <3>1, <4>1, <4>2 DEF HasParse
    <3> QED
      BY <3>1, <3>2
  <2> QED
    BY <2>1, <2>2
<1>7. ASSUME NEW j \in DOMAIN new.rows, NEW k \in DOMAIN new.rows, new.rows[j].id = new.rows[k].id
      PROVE  j = k
  BY <1>3, <1>5, <1>7 DEF Applying
<1>8. Applying(new)
  BY <1>2, <1>5, <1>6, <1>7 DEF Applying
<1>9. /\ \A j \in DOMAIN list.rows : j \in DOMAIN new.rows /\ new.rows[j] = list.rows[j]
      /\ \E j \in DOMAIN new.rows : new.rows[j].id = id
      /\ \A j \in DOMAIN new.rows :
            \/ j \in DOMAIN list.rows /\ new.rows[j] = list.rows[j]
            \/ new.rows[j].id = id /\ new.rows[j].date = scan[id]
  BY <1>3, <1>5
<1> QED
  BY <1>8, <1>9 DEF new

LEMMA AddsApply ==
    ASSUME FolderTyped, NEW all, Applying(all),
           \A j \in DOMAIN all.rows : all.rows[j].id \in DOMAIN index /\ all.rows[j].date = scan[all.rows[j].id],
           NEW q \in Seq(Found(scan) \ DOMAIN index), \A k, m \in DOMAIN q : q[k] = q[m] => k = m
    PROVE  LET new == Treated(all, "add", q)
           IN  /\ Applying(new)
               /\ \A j \in DOMAIN new.rows : new.rows[j].date = scan[new.rows[j].id]
               /\ \A j \in DOMAIN all.rows : j \in DOMAIN new.rows /\ new.rows[j] = all.rows[j]
               /\ \A m \in DOMAIN q : \E j \in DOMAIN new.rows : new.rows[j].id = q[m]
<1>1. Len(q) \in Nat /\ DOMAIN q = 1..Len(q)
  OBVIOUS
<1>2. PICK f : /\ f[0] = all /\ Treated(all, "add", q) = f[Len(q)]
               /\ \A n \in 0..Len(q) : n + 1 \in 0..Len(q) => f[n + 1] = Treat(f[n], "add", q[n + 1])
  BY ONLY <1>1, TreatedIsReached
<1> DEFINE Good(n) == /\ Applying(f[n])
                      /\ \A j \in DOMAIN f[n].rows :
                            /\ f[n].rows[j].date = scan[f[n].rows[j].id]
                            /\ f[n].rows[j].id \in DOMAIN index \/ \E m \in 1..n : f[n].rows[j].id = q[m]
                      /\ \A j \in DOMAIN all.rows : j \in DOMAIN f[n].rows /\ f[n].rows[j] = all.rows[j]
                      /\ \A m \in 1..n : \E j \in DOMAIN f[n].rows : f[n].rows[j].id = q[m]
           S == {n \in Nat : Good(n)}
<1>3. 0 \in S
  BY <1>2
<1>4. ASSUME NEW n \in 0..Len(q), n + 1 \in 0..Len(q), n \in S PROVE n + 1 \in S
  <2> DEFINE l == f[n]
             id == q[n + 1]
             new == f[n + 1]
  <2>1. Good(n) /\ n \in Nat /\ n + 1 \in DOMAIN q /\ n + 1 \in Nat
    BY <1>1, <1>4
  <2>2. new = Add(l, id) /\ id \in Found(scan) /\ id \notin DOMAIN index
    BY <1>1, <1>2, <1>4, <2>1 DEF Treat
  <2>3. ASSUME NEW j \in DOMAIN l.rows PROVE l.rows[j].id # id
    <3>1. \A m \in 1..n : m \in DOMAIN q /\ m # n + 1
      BY <1>1, <2>1
    <3> QED
      BY <2>1, <2>2, <3>1
  <2>4. Applying(l)
    BY <2>1
  <2>5. /\ Applying(new)
        /\ \A j \in DOMAIN l.rows : j \in DOMAIN new.rows /\ new.rows[j] = l.rows[j]
        /\ \E j \in DOMAIN new.rows : new.rows[j].id = id
        /\ \A j \in DOMAIN new.rows : \/ j \in DOMAIN l.rows /\ new.rows[j] = l.rows[j]
                                      \/ new.rows[j].id = id /\ new.rows[j].date = scan[id]
    <3> HIDE DEF l, id, new
    <3> QED
      BY <2>2, <2>3, <2>4, AddApplies
  <2>6. (\A m \in 1..n : m \in 1..(n + 1)) /\ n + 1 \in 1..(n + 1) /\ \A m \in 1..(n + 1) : m \in 1..n \/ m = n + 1
    BY <2>1
  <2>7. Good(n + 1)
    <3>1. ASSUME NEW j \in DOMAIN new.rows
          PROVE  /\ new.rows[j].date = scan[new.rows[j].id]
                 /\ new.rows[j].id \in DOMAIN index \/ \E m \in 1..(n + 1) : new.rows[j].id = q[m]
      BY <2>1, <2>5, <2>6
    <3>2. \A j \in DOMAIN all.rows : j \in DOMAIN new.rows /\ new.rows[j] = all.rows[j]
      BY <2>1, <2>5
    <3>3. ASSUME NEW m \in 1..(n + 1) PROVE \E j \in DOMAIN new.rows : new.rows[j].id = q[m]
      <4>1. CASE m = n + 1
        BY <2>5, <4>1
      <4>2. CASE m \in 1..n
        <5>1. PICK j \in DOMAIN l.rows : l.rows[j].id = q[m]
          BY <2>1, <4>2
        <5> HIDE DEF new, l
        <5> QED
          BY <2>5, <5>1
      <4> QED
        BY <2>6, <4>1, <4>2
    <3> QED
      BY <2>5, <3>1, <3>2, <3>3
  <2> QED
    BY <2>1, <2>7
<1>5. Good(Len(q))
  <2>1. 0..Len(q) \subseteq S
    <3> HIDE DEF S
    <3> QED
      BY <1>1, <1>3, <1>4, UpTo
  <2>2. Len(q) \in 0..Len(q)
    BY <1>1
  <2> HIDE DEF Good
  <2> QED
    BY <2>1, <2>2
<1> QED
  BY <1>1, <1>2, <1>5

(* A scan that is applied leaves the rows of what was found, each with the  *)
(* date that was found; all that is new is resolved.                        *)
LEMMA UpdatesApply ==
    ASSUME FolderTyped, IndexFinds, RowsHaveParses, ApplyUpdates
    PROVE  \E list :
              /\ Applying(list) /\ rows' = list.rows /\ parses' = list.parses /\ index' = IndexOf(list.rows)
              /\ \A j \in DOMAIN list.rows : list.rows[j].date = scan[list.rows[j].id]
              /\ ~mods => \A id \in Found(scan) : \E j \in DOMAIN list.rows : list.rows[j].id = id
              /\ Resolve([k \in 1..(Len(list.parses) - Len(parses)) |-> Len(parses) + k])
<1> DEFINE now == [rows |-> rows, parses |-> parses]
<1>1. PICK kept \in SetToSeqs(DOMAIN index \cap Found(scan)), gone \in SetToSeqs(DOMAIN index \ Found(scan)),
           new \in SetToSeqs(Found(scan) \ DOMAIN index) :
        LET keeps == Treated(now, "keep", kept)
            list == Treated(Treated(keeps, "drop", gone), "add", new)
        IN /\ \A i, j \in DOMAIN gone : i < j => index[gone[i]] >= index[gone[j]]
           /\ rows' = list.rows /\ index' = IndexOf(list.rows) /\ parses' = list.parses
           /\ Resolve([k \in 1..(Len(list.parses) - Len(parses)) |-> Len(parses) + k])
  BY DEF ApplyUpdates
<1> DEFINE keeps == Treated(now, "keep", kept)
           drops == Treated(keeps, "drop", gone)
           list == Treated(drops, "add", new)
<1>2. Found(scan) \subseteq Ids /\ DOMAIN index \subseteq Ids
  BY DEF Found, IndexFinds
<1>3. /\ kept \in Seq(DOMAIN index \cap Found(scan))
      /\ \A id \in DOMAIN index \cap Found(scan) : \E m \in DOMAIN kept : kept[m] = id
  <2> DEFINE S == DOMAIN index \cap Found(scan)
  <2>1. S \in SUBSET Ids /\ kept \in SetToSeqs(S)
    BY <1>2
  <2> HIDE DEF S
  <2>2. kept \in Seq(S) /\ \A id \in S : \E m \in DOMAIN kept : kept[m] = id
    BY ONLY <2>1, OrderIsWhole
  <2> QED
    BY <2>2 DEF S
<1>4. /\ gone \in Seq(DOMAIN index \ Found(scan)) /\ \A k, m \in DOMAIN gone : gone[k] = gone[m] => k = m
      /\ \A id \in DOMAIN index \ Found(scan) : \E m \in DOMAIN gone : gone[m] = id
  <2> DEFINE S == DOMAIN index \ Found(scan)
  <2>1. S \in SUBSET Ids /\ gone \in SetToSeqs(S)
    BY <1>2
  <2> HIDE DEF S
  <2>2. /\ gone \in Seq(S) /\ \A k, m \in DOMAIN gone : gone[k] = gone[m] => k = m
        /\ \A id \in S : \E m \in DOMAIN gone : gone[m] = id
    BY ONLY <2>1, OrderIsWhole
  <2> QED
    BY <2>2 DEF S
<1>5. /\ new \in Seq(Found(scan) \ DOMAIN index) /\ \A k, m \in DOMAIN new : new[k] = new[m] => k = m
      /\ \A id \in Found(scan) \ DOMAIN index : \E m \in DOMAIN new : new[m] = id
  <2> DEFINE S == Found(scan) \ DOMAIN index
  <2>1. S \in SUBSET Ids /\ new \in SetToSeqs(S)
    BY <1>2
  <2> HIDE DEF S
  <2>2. /\ new \in Seq(S) /\ \A k, m \in DOMAIN new : new[k] = new[m] => k = m
        /\ \A id \in S : \E m \in DOMAIN new : new[m] = id
    BY ONLY <2>1, OrderIsWhole
  <2> QED
    BY <2>2 DEF S
<1>6. /\ \A i, j \in DOMAIN gone : i < j => index[gone[i]] >= index[gone[j]]
      /\ rows' = list.rows /\ index' = IndexOf(list.rows) /\ parses' = list.parses
      /\ Resolve([k \in 1..(Len(list.parses) - Len(parses)) |-> Len(parses) + k])
  BY <1>1
<1>7. Applying(now) /\ Finds(now.rows)
  <2>1. ParsesGoOn(parses)
    BY DEF ParsesGoOn, FolderTyped
  <2>2. \A i, j \in DOMAIN rows : rows[i].id = rows[j].id => i = j
    BY DEF IndexFinds, Finds
  <2> QED
    BY <2>1, <2>2 DEF Applying, FolderTyped, RowsHaveParses, IndexFinds
<1> HIDE DEF now
<1>8. /\ Applying(keeps) /\ Finds(keeps.rows)
      /\ \A i \in DOMAIN keeps.rows : keeps.rows[i].id \in Found(scan) =>
            keeps.rows[i].date = scan[keeps.rows[i].id]
  BY <1>3, <1>7, KeepsApply
<1> HIDE DEF keeps
<1>9. Dropping(drops, keeps, gone, Len(gone))
  <2>1. gone \in Seq(DOMAIN index)
    BY <1>4
  <2>2. \A k, m \in DOMAIN gone : k < m => index[gone[k]] >= index[gone[m]]
    BY <1>6
  <2> QED
    BY <1>4, <1>8, <2>1, <2>2, DropsApply
<1> HIDE DEF drops
<1>10. ASSUME NEW j \in DOMAIN drops.rows
       PROVE  drops.rows[j].id \in DOMAIN index /\ drops.rows[j].date = scan[drops.rows[j].id]
  <2>1. PICK k \in DOMAIN keeps.rows :
           drops.rows[j] = keeps.rows[k] /\ \A m \in 1..Len(gone) : k # index[gone[m]]
    BY <1>9 DEF Dropping
  <2>2. keeps.rows[k].id \in DOMAIN index /\ index[keeps.rows[k].id] = k
    BY <1>8 DEF Finds
  <2>3. DOMAIN gone = 1..Len(gone)
    BY <1>4
  <2>4. keeps.rows[k].id \in Found(scan)
    BY <1>4, <2>1, <2>2, <2>3
  <2> QED
    BY <1>8, <2>1, <2>2, <2>4
<1>11. /\ Applying(list)
       /\ \A j \in DOMAIN list.rows : list.rows[j].date = scan[list.rows[j].id]
       /\ \A j \in DOMAIN drops.rows : j \in DOMAIN list.rows /\ list.rows[j] = drops.rows[j]
       /\ \A m \in DOMAIN new : \E j \in DOMAIN list.rows : list.rows[j].id = new[m]
  <2>1. Applying(drops)
    BY <1>9 DEF Dropping
  <2> QED
    BY <1>5, <1>10, <2>1, AddsApply
<1> HIDE DEF list
<1>12. ASSUME ~mods, NEW id \in Found(scan) PROVE \E j \in DOMAIN list.rows : list.rows[j].id = id
  <2>1. CASE id \in DOMAIN index
    <3>1. \A m \in 1..Len(gone) : gone[m] # id
      BY <1>4
    <3>2. PICK j \in DOMAIN drops.rows : drops.rows[j].id = id
      BY <1>9, <1>12, <2>1, <3>1 DEF Dropping
    <3> QED
      BY <1>11, <3>2
  <2>2. CASE id \notin DOMAIN index
    BY <1>5, <1>11, <2>2
  <2> QED
    BY <2>1, <2>2
<1> QED
  BY <1>6, <1>11, <1>12

-----------------------------------------------------------------------------
(* Every step of the folder keeps its invariant.                            *)

OfQueue == IndexFinds /\ RowsHaveParses /\ InOrder /\ ParsesInOrder /\ ResultsInOrder /\ ParsesKnown /\ DetailsFollow
OfFile == ReadIsListed /\ RefusalIsOfRow /\ RefusalIsOfScan

LEMMA ListStays ==
    ASSUME FolderInv, UNCHANGED <<mods, rows, index, parses, waiting, posted>>,
           resolver' = "idle" => waiting = <<>>
    PROVE  OfQueue'
<1>1. IndexFinds' /\ RowsHaveParses'
  BY DEF FolderInv, IndexFinds, Finds, RowsHaveParses, HasParse
<1>2. InOrder' /\ ParsesInOrder' /\ ResultsInOrder' /\ ParsesKnown'
  BY DEF FolderInv, InOrder, ParsesInOrder, ResultsInOrder, ParsesKnown
<1>3. DetailsFollow'
  BY DEF FolderInv, DetailsFollow, Unread, Pending
<1> QED
  BY <1>1, <1>2, <1>3 DEF OfQueue

(* Content that a file had before does not come back.                       *)
LEMMA FileChanges ==
    ASSUME FolderInv, UNCHANGED <<rows, parses, waiting, posted, scan>>,
           \A id \in Ids : disk'[id] \in {disk[id], 0} \/ disk'[id] = changes + 1
    PROVE  OfFile'
<1>1. ASSUME NEW id \in Ids, NEW date \in Nat \ {0}, date <= changes, disk'[id] = date
      PROVE  disk[id] = date
  BY <1>1 DEF FolderInv, FolderTyped
<1>2. \A i \in DOMAIN rows : rows[i].id \in Ids /\ rows[i].date \in Nat \ {0} /\ rows[i].date <= changes
  <2>1. \A i \in DOMAIN rows : rows[i] \in Row
    BY DEF FolderInv, FolderTyped
  <2> QED
    BY <2>1 DEF FolderInv, DatesArePast, Row
<1>3. ReadIsListed'
  BY <1>1, <1>2 DEF FolderInv, ReadIsListed, Unread, Pending
<1>4. RefusalIsOfRow'
  BY <1>1, <1>2 DEF FolderInv, RefusalIsOfRow
<1>5. RefusalIsOfScan'
  <2>1. \A j \in DOMAIN posted : posted[j].kind = "refused" => parses[posted[j].ticket].id \in Ids
    <3>1. \A j \in DOMAIN posted : posted[j].kind = "refused" => posted[j].ticket \in DOMAIN parses
      BY DEF FolderInv, ParsesKnown, OfParse, Results
    <3>2. \A t \in DOMAIN parses : parses[t] \in ParseTask
      BY DEF FolderInv, FolderTyped
    <3> QED
      BY <3>1, <3>2 DEF ParseTask
  <2>2. \A id \in Ids : scan[id] \in Nat /\ scan[id] <= changes
    BY DEF FolderInv, FolderTyped, DatesArePast
  <2> QED
    BY <1>1, <2>1, <2>2 DEF FolderInv, RefusalIsOfScan
<1> QED
  BY <1>3, <1>4, <1>5 DEF OfFile

LEMMA FileStays ==
    ASSUME FolderInv, UNCHANGED <<rows, parses, waiting, posted, scan, disk>>
    PROVE  OfFile'
BY DEF FolderInv, OfFile, ReadIsListed, RefusalIsOfRow, RefusalIsOfScan, Unread, Pending

LEMMA ChangeFileKeeps == FolderInv /\ (\E id \in Ids : ChangeFile(id)) /\ UNCHANGED mods => FolderInv'
<1> SUFFICES ASSUME FolderInv, NEW id \in Ids, ChangeFile(id), UNCHANGED mods PROVE FolderInv'
  OBVIOUS
<1>1. /\ changes' = changes + 1 /\ asked' = FALSE
      /\ UNCHANGED <<requests, task, scheduled, scan, rows, index, parses, waiting, resolver, posted>>
      /\ changes \in Nat \ {0} /\ disk \in [Ids -> Nat]
  BY DEF ChangeFile, updateVars, listVars, resolverVars, FolderInv, FolderTyped
<1>2. PICK date \in {0, changes + 1} : disk' = [disk EXCEPT ![id] = date]
  BY DEF ChangeFile
<1>3. disk' \in [Ids -> Nat] /\ \A x \in Ids : disk'[x] \in {disk[x], 0} \/ disk'[x] = changes + 1
  BY <1>1, <1>2
<1>4. FolderTyped'
  <2>1. changes' \in Nat \ {0}
    BY <1>1
  <2>2. asked' \in BOOLEAN
    BY <1>1, Zenon
  <2> QED
    BY <1>1, <1>3, <2>1, <2>2 DEF FolderInv, FolderTyped
<1>5. DatesArePast'
  <2>1. \A i \in DOMAIN rows : rows[i].date \in Nat
    <3>1. \A i \in DOMAIN rows : rows[i] \in Row
      BY DEF FolderInv, FolderTyped
    <3> QED
      BY <3>1 DEF Row
  <2>2. \A x \in Ids : scan[x] \in Nat
    BY DEF FolderInv, FolderTyped
  <2> QED
    BY <1>1, <1>3, <2>1, <2>2 DEF FolderInv, DatesArePast
<1>6. OfQueue' /\ OfFile'
  BY <1>1, <1>3, ListStays, FileChanges DEF FolderInv, ParsesKnown
<1>7. UpdateComes' /\ UpdateOrder'
  BY <1>1 DEF FolderInv, UpdateComes, UpdateOrder
<1> QED
  BY <1>4, <1>5, <1>6, <1>7 DEF FolderInv, OfQueue, OfFile

LEMMA StartUpdateOrders ==
    ASSUME FolderInv, StartUpdate, UNCHANGED posted
    PROVE  /\ task' \in {"none", "posted", "scanned", "done"} /\ scheduled' \in BOOLEAN /\ asked' \in BOOLEAN
           /\ UpdateComes' /\ UpdateOrder'
BY DEF FolderInv, FolderTyped, StartUpdate, UpdateComes, UpdateOrder

LEMMA UpdateKeeps == FolderInv /\ Update /\ UNCHANGED mods => FolderInv'
<1> SUFFICES ASSUME FolderInv, Update, UNCHANGED mods PROVE FolderInv'
  OBVIOUS
<1>1. StartUpdate /\ UNCHANGED <<disk, changes, scan, rows, index, parses, waiting, resolver, posted>>
  BY DEF Update, listVars, resolverVars
<1>2. /\ task' \in {"none", "posted", "scanned", "done"} /\ scheduled' \in BOOLEAN /\ asked' \in BOOLEAN
      /\ UpdateComes' /\ UpdateOrder'
  BY <1>1, StartUpdateOrders
<1>3. FolderTyped' /\ DatesArePast'
  BY <1>1, <1>2 DEF FolderInv, FolderTyped, DatesArePast
<1>4. OfQueue' /\ OfFile'
  BY <1>1, ListStays, FileStays DEF FolderInv, ParsesKnown
<1> QED
  BY <1>2, <1>3, <1>4 DEF FolderInv, OfQueue, OfFile

LEMMA UninstallResourceKeeps ==
    FolderInv /\ (\E id \in Ids : UninstallResource(id)) /\ UNCHANGED mods => FolderInv'
<1> SUFFICES ASSUME FolderInv, NEW id \in Ids, UninstallResource(id), UNCHANGED mods PROVE FolderInv'
  OBVIOUS
<1>1. /\ StartUpdate /\ UNCHANGED <<changes, scan, rows, index, parses, waiting, resolver, posted>>
      /\ disk' = [disk EXCEPT ![id] = 0] /\ disk \in [Ids -> Nat] /\ changes \in Nat
  BY DEF UninstallResource, listVars, resolverVars, FolderInv, FolderTyped
<1>2. /\ task' \in {"none", "posted", "scanned", "done"} /\ scheduled' \in BOOLEAN /\ asked' \in BOOLEAN
      /\ UpdateComes' /\ UpdateOrder'
  BY <1>1, StartUpdateOrders
<1>3. disk' \in [Ids -> Nat] /\ \A x \in Ids : disk'[x] \in {disk[x], 0}
  BY <1>1
<1>4. FolderTyped' /\ DatesArePast'
  BY <1>1, <1>2, <1>3 DEF FolderInv, FolderTyped, DatesArePast
<1>5. OfQueue' /\ OfFile'
  BY <1>1, <1>3, ListStays, FileChanges DEF FolderInv, ParsesKnown
<1> QED
  BY <1>2, <1>4, <1>5 DEF FolderInv, OfQueue, OfFile

LEMMA ScanFolderKeeps == FolderInv /\ ScanFolder /\ UNCHANGED mods => FolderInv'
<1> SUFFICES ASSUME FolderInv, ScanFolder, UNCHANGED mods PROVE FolderInv'
  OBVIOUS
<1>1. /\ task = "posted" /\ task' = "scanned" /\ scan' = disk
      /\ UNCHANGED <<disk, changes, asked, scheduled, rows, index, parses, waiting, resolver, posted>>
  BY DEF ScanFolder, diskVars, listVars, resolverVars
<1>2. FolderTyped' /\ DatesArePast'
  BY <1>1 DEF FolderInv, FolderTyped, DatesArePast
<1>3. \A i \in DOMAIN posted : posted[i].kind \notin OfUpdate
  BY <1>1 DEF FolderInv, UpdateOrder
<1>4. OfQueue'
  BY <1>1, ListStays DEF FolderInv, ParsesKnown
<1>5. OfFile'
  BY <1>1, <1>3 DEF FolderInv, OfFile, ReadIsListed, RefusalIsOfRow, RefusalIsOfScan, Unread, Pending, OfUpdate
<1>6. UpdateComes'
  BY <1>1 DEF FolderInv, UpdateComes
<1>7. UpdateOrder'
  BY <1>1, <1>3 DEF FolderInv, UpdateOrder
<1> QED
  BY <1>2, <1>4, <1>5, <1>6, <1>7 DEF FolderInv, OfQueue, OfFile

LEMMA ResolverKeeps == FolderInv /\ (ResolverStarts \/ ResolverEnds) /\ UNCHANGED mods => FolderInv'
<1> SUFFICES ASSUME FolderInv, ResolverStarts \/ ResolverEnds, UNCHANGED mods PROVE FolderInv'
  OBVIOUS
<1>1. /\ UNCHANGED <<disk, changes, asked, task, scheduled, scan, rows, index, parses, waiting, posted>>
      /\ resolver' = "running" \/ (resolver' = "idle" /\ waiting = <<>>)
  BY DEF ResolverStarts, ResolverEnds, diskVars, updateVars, listVars
<1>2. FolderTyped' /\ DatesArePast'
  BY <1>1 DEF FolderInv, FolderTyped, DatesArePast
<1>3. OfQueue' /\ OfFile'
  BY <1>1, ListStays, FileStays
<1>4. UpdateComes' /\ UpdateOrder'
  BY <1>1 DEF FolderInv, UpdateComes, UpdateOrder, ListIsDisk, Pending
<1> QED
  BY <1>2, <1>3, <1>4 DEF FolderInv, OfQueue, OfFile

(* A sequence with two more.                                                *)
LEMMA TwoMore ==
    ASSUME NEW T, NEW s \in Seq(T), NEW a \in T, NEW b \in T
    PROVE  /\ s \o <<a, b>> \in Seq(T) /\ Len(s) \in Nat
           /\ DOMAIN (s \o <<a, b>>) = DOMAIN s \cup {Len(s) + 1, Len(s) + 2}
           /\ \A i \in DOMAIN s : (s \o <<a, b>>)[i] = s[i] /\ i <= Len(s) /\ i \in Nat
           /\ (s \o <<a, b>>)[Len(s) + 1] = a /\ (s \o <<a, b>>)[Len(s) + 2] = b
           /\ s \o <<a, b>> = Append(Append(s, a), b)
<1> DEFINE one == Append(s, a)
<1>1. s \o <<a, b>> = Append(one, b)
  OBVIOUS
<1>2. /\ one \in Seq(T) /\ Len(one) = Len(s) + 1 /\ Len(s) \in Nat /\ DOMAIN one = DOMAIN s \cup {Len(s) + 1}
      /\ \A i \in DOMAIN s : one[i] = s[i] /\ i <= Len(s) /\ i \in Nat
      /\ one[Len(s) + 1] = a
  OBVIOUS
<1> HIDE DEF one
<1>3. /\ Append(one, b) \in Seq(T) /\ DOMAIN Append(one, b) = DOMAIN one \cup {Len(one) + 1}
      /\ \A i \in DOMAIN one : Append(one, b)[i] = one[i]
      /\ Append(one, b)[Len(one) + 1] = b
  BY <1>2
<1>4. Len(one) + 1 = Len(s) + 2
  BY <1>2
<1> QED
  BY <1>1, <1>2, <1>3, <1>4

LEMMA ScanReportsKeeps == FolderInv /\ ScanReports /\ UNCHANGED mods => FolderInv'
<1> SUFFICES ASSUME FolderInv, ScanReports, UNCHANGED mods PROVE FolderInv'
  OBVIOUS
<1> DEFINE n == Len(posted)
<1>1. /\ task = "scanned" /\ task' = "done"
      /\ posted' = posted \o <<Signal("succeeded", 0), Signal("finished", 0)>>
      /\ UNCHANGED <<disk, changes, asked, scheduled, scan, rows, index, parses, waiting, resolver>>
  BY DEF ScanReports, diskVars, listVars, resolverVars
<1>2. posted \in Seq(Signals) /\ waiting \in Seq(Nat \ {0})
  BY DEF FolderInv, FolderTyped
<1>3. /\ Signal("succeeded", 0) \in Signals /\ Signal("finished", 0) \in Signals
      /\ Signal("succeeded", 0).kind = "succeeded" /\ Signal("finished", 0).kind = "finished"
      /\ Signal("succeeded", 0).ticket = 0 /\ Signal("finished", 0).ticket = 0
  BY DEF Signal, Signals, OfUpdate
<1>4. /\ posted' \in Seq(Signals) /\ DOMAIN posted' = DOMAIN posted \cup {n + 1, n + 2}
      /\ \A i \in DOMAIN posted : posted'[i] = posted[i] /\ i <= n /\ i \in Nat
      /\ posted'[n + 1] = Signal("succeeded", 0) /\ posted'[n + 2] = Signal("finished", 0) /\ n \in Nat
  <2> DEFINE a == Signal("succeeded", 0)
             b == Signal("finished", 0)
  <2>1. a \in Signals /\ b \in Signals /\ posted' = posted \o <<a, b>>
    BY <1>1, <1>3
  <2> HIDE DEF a, b
  <2>2. /\ posted' \in Seq(Signals) /\ DOMAIN posted' = DOMAIN posted \cup {n + 1, n + 2}
        /\ \A i \in DOMAIN posted : posted'[i] = posted[i] /\ i <= n /\ i \in Nat
        /\ posted'[n + 1] = a /\ posted'[n + 2] = b /\ n \in Nat
    BY <1>2, <2>1, TwoMore DEF n
  <2> QED
    BY <2>2 DEF a, b
<1> HIDE DEF n
<1>5. \A i \in DOMAIN posted : posted[i].kind \notin OfUpdate
  BY <1>1 DEF FolderInv, UpdateOrder
<1>6. \A kind \in OfParse : \A t : Pending(kind, t)' <=> Pending(kind, t)
  BY <1>3, <1>4 DEF Pending, OfParse, Results
<1>7. FolderTyped' /\ DatesArePast'
  BY <1>1, <1>4 DEF FolderInv, FolderTyped, DatesArePast
<1>8. IndexFinds' /\ RowsHaveParses'
  BY <1>1 DEF FolderInv, IndexFinds, Finds, RowsHaveParses, HasParse
<1>9. InOrder'
  <2>1. \A j \in DOMAIN waiting : 0 < waiting[j]
    BY <1>2
  <2>2. UNCHANGED waiting
    BY <1>1
  <2>3. \A i \in DOMAIN posted' : (i \in DOMAIN posted /\ posted'[i] = posted[i]) \/ posted'[i].ticket = 0
    BY <1>3, <1>4
  <2> QED
    BY <2>1, <2>2, <2>3 DEF FolderInv, InOrder
<1>10. ParsesInOrder' /\ ResultsInOrder'
  BY <1>3, <1>4 DEF FolderInv, ParsesInOrder, ResultsInOrder, Results
<1>11. ParsesKnown'
  <2>1. \A i \in DOMAIN posted' : (i \in DOMAIN posted /\ posted'[i] = posted[i]) \/ posted'[i].kind \notin OfParse
    BY <1>3, <1>4 DEF OfParse, Results
  <2>2. UNCHANGED <<waiting, parses, resolver, mods>>
    BY <1>1
  <2>3. "refused" \in OfParse
    BY DEF OfParse, Results
  <2> QED
    BY <2>1, <2>2, <2>3 DEF FolderInv, ParsesKnown
<1>12. \A t : Unread(t)' <=> Unread(t)
  BY <1>1, <1>6 DEF Unread, OfParse
<1>13. DetailsFollow' /\ ReadIsListed'
  BY <1>1, <1>6, <1>12 DEF FolderInv, DetailsFollow, ReadIsListed, OfParse, Results
<1>14. RefusalIsOfRow'
  <2>1. \A i \in DOMAIN posted' : posted'[i].kind = "refused" => i \in DOMAIN posted /\ posted'[i] = posted[i]
    BY <1>3, <1>4
  <2>2. UNCHANGED <<disk, rows, parses>>
    BY <1>1
  <2> QED
    BY <2>1, <2>2 DEF FolderInv, RefusalIsOfRow
<1>15. RefusalIsOfScan'
  <2>1. ASSUME NEW i \in DOMAIN posted', NEW j \in DOMAIN posted', i < j, posted'[j].kind = "refused"
        PROVE  posted'[i].kind # "succeeded"
    <3>1. j \in DOMAIN posted
      BY <1>3, <1>4, <2>1
    <3>2. i \in DOMAIN posted
      BY <1>4, <2>1, <3>1
    <3> QED
      BY <1>4, <1>5, <3>2 DEF OfUpdate
  <2> QED
    BY <2>1 DEF RefusalIsOfScan
<1>16. UpdateComes'
  <2>1. Pending("succeeded", 0)'
    BY <1>3, <1>4 DEF Pending
  <2> QED
    BY <1>1, <2>1 DEF FolderInv, UpdateComes
<1>17. UpdateOrder'
  <2>1. \A i \in DOMAIN posted' : posted'[i].kind \in OfUpdate => i \in {n + 1, n + 2}
    BY <1>4, <1>5
  <2>2. \A i \in {n + 1, n + 2} : posted'[i].ticket = 0 /\ (posted'[i].kind = "succeeded" <=> i = n + 1)
    BY <1>3, <1>4
  <2>3. n + 1 < n + 2 /\ n + 1 # n + 2
    BY <1>4
  <2> QED
    BY <1>1, <2>1, <2>2, <2>3 DEF UpdateOrder, OfUpdate
<1> QED
  BY <1>7, <1>8, <1>9, <1>10, <1>11, <1>13, <1>14, <1>15, <1>16, <1>17 DEF FolderInv

(* What was posted first is served.                                         *)
LEMMA ServedFirst ==
    ASSUME FolderInv, NEW kind, Served(kind)
    PROVE  /\ posted' \in Seq(Signals) /\ 1 \in DOMAIN posted /\ Head(posted) = posted[1] /\ posted[1].kind = kind
           /\ \A i \in DOMAIN posted' : i \in Nat /\ i + 1 \in DOMAIN posted /\ i + 1 # 1 /\ posted'[i] = posted[i + 1]
           /\ \A i \in DOMAIN posted : i # 1 => i - 1 \in DOMAIN posted' /\ (i - 1) + 1 = i
           /\ \A k, t : /\ Pending(k, t)' => Pending(k, t)
                        /\ Pending(k, t) /\ (k # kind \/ t # posted[1].ticket) => Pending(k, t)'
<1>1. posted \in Seq(Signals) /\ posted # <<>> /\ Head(posted).kind = kind /\ posted' = Tail(posted)
  BY DEF Served, FolderInv, FolderTyped
<1>2. /\ posted' \in Seq(Signals) /\ 1 \in DOMAIN posted /\ Head(posted) = posted[1] /\ posted[1].kind = kind
      /\ \A i \in DOMAIN posted' : i \in Nat /\ i + 1 \in DOMAIN posted /\ i + 1 # 1 /\ posted'[i] = posted[i + 1]
      /\ \A i \in DOMAIN posted : i # 1 => i - 1 \in DOMAIN posted' /\ (i - 1) + 1 = i
  BY <1>1
<1>3. ASSUME NEW k, NEW t, Pending(k, t)' PROVE Pending(k, t)
  BY <1>2, <1>3 DEF Pending
<1>4. ASSUME NEW k, NEW t, Pending(k, t), k # kind \/ t # posted[1].ticket PROVE Pending(k, t)'
  <2>1. PICK i \in DOMAIN posted : posted[i].kind = k /\ posted[i].ticket = t
    BY <1>4 DEF Pending
  <2>2. i - 1 \in DOMAIN posted' /\ posted'[i - 1] = posted[i]
    BY <1>2, <1>4, <2>1
  <2> QED
    BY <2>1, <2>2 DEF Pending
<1> QED
  BY <1>2, <1>3, <1>4

LEMMA OrderServed ==
    ASSUME FolderInv, NEW kind, Served(kind)
    PROVE  /\ ParsesInOrder' /\ ResultsInOrder' /\ (UNCHANGED waiting => InOrder')
           /\ UNCHANGED task /\ kind # "finished" => UpdateOrder' \/ scheduled' # scheduled
<1>1. /\ \A i \in DOMAIN posted' : i \in Nat /\ i + 1 \in DOMAIN posted /\ i + 1 # 1 /\ posted'[i] = posted[i + 1]
  BY ServedFirst
<1>2. \A i, j \in DOMAIN posted' : (i < j <=> i + 1 < j + 1) /\ (i = j <=> i + 1 = j + 1)
  BY <1>1
<1>3. ParsesInOrder'
  BY <1>1, <1>2 DEF FolderInv, ParsesInOrder
<1>4. ResultsInOrder'
  BY <1>1, <1>2 DEF FolderInv, ResultsInOrder
<1>5. ASSUME UNCHANGED waiting PROVE InOrder'
  BY <1>1, <1>5 DEF FolderInv, InOrder
<1>6. ASSUME UNCHANGED <<task, scheduled>> PROVE UpdateOrder'
  BY <1>1, <1>2, <1>6 DEF FolderInv, UpdateOrder
<1> QED
  BY <1>3, <1>4, <1>5, <1>6

LEMMA ParsesServed ==
    ASSUME FolderInv, NEW kind, Served(kind), UNCHANGED <<mods, waiting, resolver, parses>>
    PROVE  ParsesKnown'
<1>1. \A i \in DOMAIN posted' : i + 1 \in DOMAIN posted /\ posted'[i] = posted[i + 1]
  BY ServedFirst
<1> QED
  BY <1>1 DEF FolderInv, ParsesKnown

(* A refusal that is still to be heard says what it said.                   *)
LEMMA RefusalsServed ==
    ASSUME FolderInv, NEW kind, Served(kind), UNCHANGED <<disk, scan>>,
           \A t \in DOMAIN parses : parses'[t].id = parses[t].id /\ parses'[t].read = parses[t].read,
           \A j \in DOMAIN rows' : \E k \in DOMAIN rows :
              rows'[j].id = rows[k].id /\ rows'[j].date = rows[k].date
    PROVE  RefusalIsOfRow' /\ RefusalIsOfScan'
<1>1. \A i \in DOMAIN posted' : i \in Nat /\ i + 1 \in DOMAIN posted /\ posted'[i] = posted[i + 1]
  BY ServedFirst
<1>2. ASSUME NEW j \in DOMAIN posted', posted'[j].kind = "refused"
      PROVE  /\ j + 1 \in DOMAIN posted /\ posted'[j] = posted[j + 1]
             /\ parses'[posted'[j].ticket].id = parses[posted[j + 1].ticket].id
             /\ parses'[posted'[j].ticket].read = parses[posted[j + 1].ticket].read
  <2>1. posted[j + 1].ticket \in DOMAIN parses
    BY <1>1, <1>2 DEF FolderInv, ParsesKnown, OfParse, Results
  <2> QED
    BY <1>1, <2>1
<1>3. RefusalIsOfRow'
  <2> SUFFICES ASSUME NEW i \in DOMAIN posted', NEW j \in DOMAIN rows', posted'[i].kind = "refused",
                      parses'[posted'[i].ticket].id = rows'[j].id, disk'[rows'[j].id] = rows'[j].date
               PROVE  parses'[posted'[i].ticket].read = rows'[j].date
    BY DEF RefusalIsOfRow
  <2>1. PICK k \in DOMAIN rows : rows'[j].id = rows[k].id /\ rows'[j].date = rows[k].date
    OBVIOUS
  <2> QED
    BY <1>2, <2>1 DEF FolderInv, RefusalIsOfRow
<1>4. RefusalIsOfScan'
  <2> SUFFICES ASSUME NEW i \in DOMAIN posted', NEW j \in DOMAIN posted', i < j, posted'[i].kind = "succeeded",
                      posted'[j].kind = "refused", scan[parses'[posted'[j].ticket].id] # 0,
                      disk[parses'[posted'[j].ticket].id] = scan[parses'[posted'[j].ticket].id]
               PROVE  parses'[posted'[j].ticket].read = scan[parses'[posted'[j].ticket].id]
    BY DEF RefusalIsOfScan
  <2>1. i + 1 < j + 1
    BY <1>1
  <2> QED
    BY <1>1, <1>2, <2>1 DEF FolderInv, RefusalIsOfScan
<1> QED
  BY <1>3, <1>4

LEMMA UpdateFinishedKeeps == FolderInv /\ UpdateFinished /\ UNCHANGED mods => FolderInv'
<1> SUFFICES ASSUME FolderInv, UpdateFinished, UNCHANGED mods PROVE FolderInv'
  OBVIOUS
<1>1. /\ Served("finished") /\ task' = (IF scheduled THEN "posted" ELSE "none") /\ scheduled' = FALSE
      /\ UNCHANGED <<disk, changes, asked, scan, rows, index, parses, waiting, resolver>>
  BY DEF UpdateFinished, diskVars, listVars, resolverVars
<1>2. /\ posted' \in Seq(Signals) /\ 1 \in DOMAIN posted /\ posted[1].kind = "finished"
      /\ \A i \in DOMAIN posted' : i \in Nat /\ i + 1 \in DOMAIN posted /\ i + 1 # 1 /\ posted'[i] = posted[i + 1]
      /\ \A k, t : Pending(k, t)' => Pending(k, t)
      /\ \A k \in OfParse : \A t : Pending(k, t) => Pending(k, t)'
  BY <1>1, ServedFirst DEF OfParse, Results
<1>3. FolderTyped' /\ DatesArePast'
  <2>1. task' \in {"none", "posted", "scanned", "done"} /\ scheduled' \in BOOLEAN
    BY <1>1
  <2>2. UNCHANGED <<disk, changes, asked, scan, rows, index, parses, waiting, resolver>>
    BY <1>1
  <2> QED
    BY <1>2, <2>1, <2>2 DEF FolderInv, FolderTyped, DatesArePast
<1>4. IndexFinds' /\ RowsHaveParses'
  BY <1>1 DEF FolderInv, IndexFinds, Finds, RowsHaveParses, HasParse
<1>5. InOrder' /\ ParsesInOrder' /\ ResultsInOrder' /\ ParsesKnown'
  BY <1>1, OrderServed, ParsesServed
<1>6. \A t : Unread(t)' <=> Unread(t)
  BY <1>1, <1>2 DEF Unread, OfParse
<1>7. DetailsFollow' /\ ReadIsListed'
  BY <1>1, <1>2, <1>6 DEF FolderInv, DetailsFollow, ReadIsListed, OfParse, Results
<1>8. RefusalIsOfRow' /\ RefusalIsOfScan'
  <2>1. UNCHANGED <<rows, parses, disk, scan>>
    BY <1>1
  <2> QED
    BY <1>1, <2>1, RefusalsServed
<1>9. task = "done" /\ \A i \in DOMAIN posted' : posted'[i].kind \notin OfUpdate
  <2>1. \A i \in DOMAIN posted' : ~(i + 1 < 1)
    BY <1>2
  <2> QED
    BY <1>2, <2>1 DEF FolderInv, UpdateOrder, OfUpdate
<1>10. ~Pending("succeeded", 0)
  <2>1. \A i \in DOMAIN posted : ~(i < 1)
    BY DEF FolderInv, FolderTyped
  <2> QED
    BY <1>2, <2>1 DEF FolderInv, UpdateOrder, Pending
<1>11. UpdateComes'
  BY <1>1, <1>9, <1>10 DEF FolderInv, UpdateComes, ListIsDisk
<1>12. UpdateOrder'
  <2>1. ~scheduled'
    BY <1>1
  <2> QED
    BY <1>9, <2>1 DEF UpdateOrder, OfUpdate
<1> QED
  BY <1>3, <1>4, <1>5, <1>7, <1>8, <1>11, <1>12 DEF FolderInv

(* The resolver posts a parse, of the lowest ticket that waits.             *)
LEMMA ResolverPostsKeeps == FolderInv /\ ResolverPosts /\ UNCHANGED mods => FolderInv'
<1> SUFFICES ASSUME FolderInv, ResolverPosts, UNCHANGED mods PROVE FolderInv'
  OBVIOUS
<1> DEFINE t0 == Head(waiting)
           s == Signal("parse", t0)
           n == Len(posted)
<1>1. /\ resolver = "running" /\ waiting # <<>> /\ waiting' = Tail(waiting) /\ posted' = Append(posted, s)
      /\ UNCHANGED <<disk, changes, asked, task, scheduled, scan, rows, index, parses, resolver>>
  BY DEF ResolverPosts, diskVars, updateVars, listVars
<1>2. waiting \in Seq(Nat \ {0}) /\ posted \in Seq(Signals)
  BY DEF FolderInv, FolderTyped
<1>3. /\ waiting' \in Seq(Nat \ {0}) /\ 1 \in DOMAIN waiting /\ t0 = waiting[1] /\ t0 \in Nat \ {0}
      /\ \A i \in DOMAIN waiting' : i + 1 \in DOMAIN waiting /\ 1 < i + 1 /\ waiting'[i] = waiting[i + 1] /\ i \in Nat
      /\ \A i \in DOMAIN waiting : i # 1 => i - 1 \in DOMAIN waiting' /\ (i - 1) + 1 = i
  <2> DEFINE l == Len(waiting)
  <2>1. l \in Nat \ {0} /\ DOMAIN waiting = 1..l /\ t0 = waiting[1] /\ t0 \in Nat \ {0}
    BY <1>1, <1>2
  <2>2. /\ waiting' \in Seq(Nat \ {0}) /\ DOMAIN waiting' = 1..(l - 1)
        /\ \A i \in 1..(l - 1) : waiting'[i] = waiting[i + 1]
    BY <1>1, <1>2
  <2> HIDE DEF l, t0
  <2>3. /\ \A i \in 1..(l - 1) : i + 1 \in 1..l /\ 1 < i + 1 /\ i \in Nat
        /\ \A i \in 1..l : i # 1 => i - 1 \in 1..(l - 1) /\ (i - 1) + 1 = i
    BY <2>1
  <2>4. 1 \in 1..l
    BY <2>1
  <2> QED
    BY <2>1, <2>2, <2>3, <2>4
<1> HIDE DEF t0
<1>4. s \in Signals /\ s.kind = "parse" /\ s.ticket = t0
  BY <1>3 DEF Signal, Signals, OfParse
<1> HIDE DEF s
<1>5. /\ posted' \in Seq(Signals) /\ DOMAIN posted' = DOMAIN posted \cup {n + 1} /\ posted'[n + 1] = s
      /\ \A i \in DOMAIN posted : posted'[i] = posted[i] /\ i < n + 1 /\ i \in Nat
  BY <1>1, <1>2, <1>4
<1> HIDE DEF n
<1>6. UNCHANGED <<disk, changes, asked, task, scheduled, scan, rows, index, parses, resolver, mods>>
  BY <1>1
<1>7. FolderTyped' /\ DatesArePast'
  BY <1>3, <1>5, <1>6 DEF FolderInv, FolderTyped, DatesArePast
<1>8. IndexFinds' /\ RowsHaveParses'
  BY <1>6 DEF FolderInv, IndexFinds, Finds, RowsHaveParses, HasParse
<1>9. InOrder'
  <2>1. \A i, j \in DOMAIN waiting' : i < j => i + 1 < j + 1
    BY <1>3
  <2>2. \A j \in DOMAIN waiting' : t0 < waiting'[j]
    BY <1>3 DEF FolderInv, InOrder
  <2> QED
    BY <1>3, <1>4, <1>5, <2>1, <2>2 DEF FolderInv, InOrder
<1>10. \A i \in DOMAIN posted : posted[i].ticket < t0
  BY <1>3 DEF FolderInv, InOrder
<1>11. ParsesInOrder'
  <2>1. ASSUME NEW i \in DOMAIN posted', NEW j \in DOMAIN posted', i < j PROVE i \in DOMAIN posted
    BY <1>2, <1>5, <2>1
  <2> QED
    BY <1>4, <1>5, <1>10, <2>1 DEF FolderInv, ParsesInOrder, Results
<1>12. ResultsInOrder'
  BY <1>4, <1>5 DEF FolderInv, ResultsInOrder, Results
<1>13. ParsesKnown'
  <2>1. t0 \in DOMAIN parses /\ parses[t0].active
    BY <1>3 DEF FolderInv, ParsesKnown
  <2>2. resolver # "idle"
    BY <1>1
  <2> QED
    BY <1>3, <1>4, <1>5, <1>6, <2>1, <2>2 DEF FolderInv, ParsesKnown, OfParse
<1>14. \A k, t : k # "parse" => (Pending(k, t)' <=> Pending(k, t))
  BY <1>4, <1>5 DEF Pending
<1>15. \A t : Unread(t)' <=> Unread(t)
  <2>1. ASSUME NEW t, Unread(t)' PROVE Unread(t)
    BY <1>3, <1>4, <1>5, <2>1 DEF Unread, Pending
  <2>2. ASSUME NEW t, Unread(t) PROVE Unread(t)'
    <3>1. CASE Pending("parse", t)
      BY <1>5, <3>1 DEF Unread, Pending
    <3>2. CASE \E i \in DOMAIN waiting : waiting[i] = t
      <4>1. PICK i \in DOMAIN waiting : waiting[i] = t
        BY <3>2
      <4>2. CASE i = 1
        BY <1>3, <1>4, <1>5, <4>1, <4>2 DEF Unread, Pending
      <4>3. CASE i # 1
        <5>1. i - 1 \in DOMAIN waiting' /\ waiting'[i - 1] = t
          BY <1>3, <4>1, <4>3
        <5> QED
          BY <5>1 DEF Unread
      <4> QED
        BY <4>2, <4>3
    <3> QED
      BY <2>2, <3>1, <3>2 DEF Unread
  <2> QED
    BY <2>1, <2>2
<1>16. DetailsFollow' /\ ReadIsListed'
  BY <1>6, <1>14, <1>15 DEF FolderInv, DetailsFollow, ReadIsListed
<1>17. RefusalIsOfRow'
  <2>1. \A i \in DOMAIN posted' : posted'[i].kind = "refused" => i \in DOMAIN posted /\ posted'[i] = posted[i]
    BY <1>4, <1>5
  <2> QED
    BY <1>6, <2>1 DEF FolderInv, RefusalIsOfRow
<1>18. RefusalIsOfScan'
  <2>1. \A i \in DOMAIN posted' : posted'[i].kind \in {"refused", "succeeded"} =>
           i \in DOMAIN posted /\ posted'[i] = posted[i]
    BY <1>4, <1>5
  <2> QED
    BY <1>6, <2>1 DEF FolderInv, RefusalIsOfScan
<1>19. UpdateComes'
  BY <1>6, <1>14 DEF FolderInv, UpdateComes, ListIsDisk
<1>20. UpdateOrder'
  <2>1. \A i \in DOMAIN posted' : posted'[i].kind \in OfUpdate => i \in DOMAIN posted /\ posted'[i] = posted[i]
    BY <1>4, <1>5 DEF OfUpdate
  <2> QED
    BY <1>6, <2>1 DEF FolderInv, UpdateOrder, OfUpdate
<1> QED
  BY <1>7, <1>8, <1>9, <1>11, <1>12, <1>13, <1>16, <1>17, <1>18, <1>19, <1>20 DEF FolderInv

LEMMA ParseFinishedKeeps == FolderInv /\ ParseFinished /\ UNCHANGED mods => FolderInv'
<1> SUFFICES ASSUME FolderInv, ParseFinished, UNCHANGED mods PROVE FolderInv'
  OBVIOUS
<1> DEFINE t0 == posted[1].ticket
<1>1. /\ Served("over") /\ parses' = [parses EXCEPT ![Head(posted).ticket].active = FALSE]
      /\ UNCHANGED <<disk, changes, asked, task, scheduled, scan, rows, index, waiting, resolver>>
  BY DEF ParseFinished, diskVars, updateVars, resolverVars
<1>2. /\ posted' \in Seq(Signals) /\ 1 \in DOMAIN posted /\ posted[1].kind = "over" /\ Head(posted) = posted[1]
      /\ \A i \in DOMAIN posted' : i \in Nat /\ i + 1 \in DOMAIN posted /\ i + 1 # 1 /\ posted'[i] = posted[i + 1]
      /\ \A k, t : Pending(k, t)' => Pending(k, t)
      /\ \A k, t : k # "over" /\ Pending(k, t) => Pending(k, t)'
  BY <1>1, ServedFirst
<1>3. t0 \in DOMAIN parses /\ parses \in Seq(ParseTask)
  BY <1>2 DEF FolderInv, ParsesKnown, OfParse, Results, FolderTyped
<1> HIDE DEF t0
<1>4. /\ parses' \in Seq(ParseTask) /\ DOMAIN parses' = DOMAIN parses
      /\ \A t \in DOMAIN parses : /\ parses'[t].id = parses[t].id /\ parses'[t].read = parses[t].read
                                  /\ parses'[t].aborted = parses[t].aborted
                                  /\ t # t0 => parses'[t] = parses[t]
  <2>1. parses[t0] \in ParseTask
    BY <1>3
  <2> DEFINE e == [parses[t0] EXCEPT !.active = FALSE]
  <2>2. e \in ParseTask /\ e.id = parses[t0].id /\ e.read = parses[t0].read /\ e.aborted = parses[t0].aborted
    BY <2>1 DEF ParseTask
  <2>3. parses' = [parses EXCEPT ![t0] = e]
    BY <1>1, <1>2 DEF t0
  <2> HIDE DEF e
  <2> QED
    BY <1>3, <2>2, <2>3
<1>5. UNCHANGED <<disk, changes, asked, task, scheduled, scan, rows, index, waiting, resolver, mods>>
  BY <1>1
<1>6. FolderTyped' /\ DatesArePast'
  BY <1>2, <1>4, <1>5 DEF FolderInv, FolderTyped, DatesArePast
<1>7. IndexFinds' /\ RowsHaveParses'
  BY <1>4, <1>5 DEF FolderInv, IndexFinds, Finds, RowsHaveParses, HasParse
<1>8. InOrder' /\ ParsesInOrder' /\ ResultsInOrder' /\ UpdateOrder'
  BY <1>1, <1>5, OrderServed
<1>9. ParsesKnown'
  <2>1. \A i \in DOMAIN waiting : waiting[i] # t0
    BY <1>2 DEF FolderInv, FolderTyped, InOrder, Signals, t0
  <2>2. ASSUME NEW i \in DOMAIN posted', posted'[i].kind \in OfParse \ {"over"} PROVE posted'[i].ticket # t0
    <3>1. i + 1 \in DOMAIN posted /\ 1 < i + 1 /\ posted'[i] = posted[i + 1]
      BY <1>2
    <3>2. posted[1].ticket \in Nat /\ posted[i + 1].ticket \in Nat
      <4>1. posted[1] \in Signals /\ posted[i + 1] \in Signals
        BY <1>2, <3>1 DEF FolderInv, FolderTyped
      <4> QED
        BY <4>1 DEF Signals
    <3> QED
      BY <1>2, <2>2, <3>1, <3>2 DEF FolderInv, ParsesInOrder, ResultsInOrder, OfParse, Results, t0
  <2> QED
    BY <1>2, <1>4, <1>5, <2>1, <2>2 DEF FolderInv, ParsesKnown, OfParse, Results
<1>10. \A t : Unread(t)' <=> Unread(t)
  BY <1>2, <1>5 DEF Unread
<1>11. DetailsFollow' /\ ReadIsListed'
  <2>1. \A t : Pending("parsed", t)' <=> Pending("parsed", t)
    BY <1>2
  <2>2. \A t : Pending("refused", t)' <=> Pending("refused", t)
    BY <1>2
  <2>3. /\ \A i \in DOMAIN rows : rows[i].ticket \in DOMAIN parses
        /\ \A t \in DOMAIN parses' : t \in DOMAIN parses /\ parses'[t].id = parses[t].id
        /\ \A t \in DOMAIN parses : parses'[t].read = parses[t].read
        /\ UNCHANGED <<rows, disk, mods>>
    BY <1>4, <1>5 DEF FolderInv, RowsHaveParses, HasParse
  <2>4. DetailsFollow'
    BY <1>10, <2>1, <2>2, <2>3 DEF FolderInv, DetailsFollow
  <2>5. ReadIsListed'
    BY <1>10, <2>3 DEF FolderInv, ReadIsListed
  <2> QED
    BY <2>4, <2>5
<1>12. RefusalIsOfRow' /\ RefusalIsOfScan'
  BY <1>1, <1>4, <1>5, RefusalsServed
<1>13. UpdateComes'
  BY <1>2, <1>5 DEF FolderInv, UpdateComes, ListIsDisk
<1> QED
  BY <1>6, <1>7, <1>8, <1>9, <1>11, <1>12, <1>13 DEF FolderInv

(* The details of a mod are those that its newest parse task has read, once *)
(* that was heard: what is heard before it is of older ones.                *)
LEMMA OnParseSucceededKeeps == FolderInv /\ OnParseSucceeded /\ UNCHANGED mods => FolderInv'
<1> SUFFICES ASSUME FolderInv, OnParseSucceeded, UNCHANGED mods PROVE FolderInv'
  OBVIOUS
<1> DEFINE t0 == posted[1].ticket
           id0 == parses[t0].id
           read0 == parses[t0].read
<1>1. /\ Served("parsed")
      /\ UNCHANGED <<disk, changes, asked, task, scheduled, scan, parses, waiting, resolver>>
  BY DEF OnParseSucceeded, diskVars, updateVars, resolverVars
<1>2. /\ posted' \in Seq(Signals) /\ 1 \in DOMAIN posted /\ posted[1].kind = "parsed" /\ Head(posted) = posted[1]
      /\ \A i \in DOMAIN posted' : i \in Nat /\ i + 1 \in DOMAIN posted /\ i + 1 # 1 /\ posted'[i] = posted[i + 1]
      /\ \A k, t : /\ Pending(k, t)' => Pending(k, t)
                   /\ Pending(k, t) /\ (k # "parsed" \/ t # t0) => Pending(k, t)'
  BY <1>1, ServedFirst
<1>3. t0 \in DOMAIN parses /\ parses[t0].active /\ id0 \in Ids /\ read0 \in Nat
  <2>1. t0 \in DOMAIN parses /\ parses[t0].active
    BY <1>2 DEF FolderInv, ParsesKnown, OfParse, Results
  <2>2. parses[t0] \in ParseTask
    BY <2>1 DEF FolderInv, FolderTyped
  <2> QED
    BY <2>1, <2>2 DEF ParseTask
<1>4. UNCHANGED <<disk, changes, asked, task, scheduled, scan, parses, waiting, resolver, mods>>
  BY <1>1
<1>5. /\ mods => /\ index' = (IF id0 \in DOMAIN index THEN index
                            ELSE [id \in DOMAIN index \cup {id0} |-> IF id = id0 THEN 1 ELSE index[id]])
                 /\ rows' = Details(id0, read0)
      /\ ~mods => UNCHANGED <<rows, index>>
  BY <1>2, <1>3 DEF OnParseSucceeded
<1> HIDE DEF t0, id0, read0
<1>6. rows \in Seq(Row) /\ \A i \in DOMAIN rows : rows[i].id \in DOMAIN index /\ index[rows[i].id] = i
  BY DEF FolderInv, FolderTyped, IndexFinds, Finds
(* Only the details change, of one row.                                     *)
<1>7. /\ rows' \in Seq(Row) /\ DOMAIN rows' = DOMAIN rows
      /\ \A i \in DOMAIN rows : /\ rows'[i].id = rows[i].id /\ rows'[i].date = rows[i].date
                                /\ rows'[i].ticket = rows[i].ticket
                                /\ mods /\ rows[i].id = id0 => rows'[i].details = read0
                                /\ ~mods \/ rows[i].id # id0 => rows'[i] = rows[i]
  <2> DEFINE named == {i \in DOMAIN rows : rows[i].id = id0}
  <2>1. CASE ~mods
    BY <1>5, <1>6, <2>1
  <2>2. CASE mods /\ named = {}
    <3>1. rows' = rows
      BY <1>5, <2>2 DEF Details
    <3> QED
      BY <1>6, <2>2, <3>1
  <2>3. CASE mods /\ named # {}
    <3>1. PICK r \in DOMAIN rows : rows[r].id = id0
      BY <2>3
    <3>2. named = {r} /\ r \in Nat /\ r <= r
      BY <1>6, <3>1
    <3>3. (CHOOSE i \in named : \A j \in named : i <= j) = r
      BY <3>2
    <3> DEFINE e == [rows[r] EXCEPT !.resolving = FALSE, !.details = read0]
    <3>4. rows' = [rows EXCEPT ![r] = e]
      BY <1>5, <2>3, <3>3 DEF Details
    <3>5. rows[r] \in Row
      BY <1>6, <3>1
    <3>6. e \in Row /\ e.id = rows[r].id /\ e.date = rows[r].date /\ e.ticket = rows[r].ticket /\ e.details = read0
      BY <1>3, <3>5 DEF Row
    <3> HIDE DEF e
    <3>7. /\ rows' \in Seq(Row) /\ DOMAIN rows' = DOMAIN rows /\ rows'[r] = e
          /\ \A i \in DOMAIN rows : i # r => rows'[i] = rows[i] /\ rows[i].id # id0
      BY <1>6, <3>1, <3>4, <3>6
    <3> QED
      BY <2>3, <3>1, <3>6, <3>7
  <2> QED
    BY <2>1, <2>2, <2>3
<1>8. FolderTyped' /\ DatesArePast'
  BY <1>2, <1>4, <1>7 DEF FolderInv, FolderTyped, DatesArePast
<1>9. IndexFinds'
  <2>1. CASE ~mods
    BY <1>4, <1>5, <2>1 DEF FolderInv, IndexFinds, Finds
  <2>2. CASE mods
    <3>1. /\ index' \in [DOMAIN index' -> Nat \ {0}] /\ DOMAIN index' \subseteq Ids
          /\ \A id \in DOMAIN index : id \in DOMAIN index' /\ index'[id] = index[id]
      <4>1. index \in [DOMAIN index -> Nat \ {0}] /\ DOMAIN index \subseteq Ids
        BY DEF FolderInv, IndexFinds
      <4>2. CASE id0 \in DOMAIN index
        BY <1>5, <2>2, <4>1, <4>2
      <4>3. CASE id0 \notin DOMAIN index
        BY <1>3, <1>5, <2>2, <4>1, <4>3
      <4> QED
        BY <4>2, <4>3
    <3> QED
      BY <1>4, <1>6, <1>7, <2>2, <3>1 DEF IndexFinds, Finds
  <2> QED
    BY <2>1, <2>2 DEF FolderInv, FolderTyped
<1>10. RowsHaveParses'
  BY <1>4, <1>7 DEF FolderInv, RowsHaveParses, HasParse
<1>11. InOrder' /\ ParsesInOrder' /\ ResultsInOrder' /\ UpdateOrder' /\ ParsesKnown'
  BY <1>1, <1>4, OrderServed, ParsesServed
<1>12. \A t : Unread(t)' <=> Unread(t)
  BY <1>2, <1>4 DEF Unread
<1>13. DetailsFollow'
  <2> SUFFICES ASSUME NEW i \in DOMAIN rows, NEW t, t = rows[i].ticket
               PROVE  \/ Unread(t)
                      \/ mods /\ Pending("parsed", t)'
                      \/ /\ mods /\ rows'[i].details = parses[t].read
                         /\ \A u \in DOMAIN parses :
                               parses[u].id = rows[i].id => ~Unread(u) /\ ~Pending("parsed", u)'
                      \/ /\ ~mods /\ rows'[i].details = parses[t].read
                         /\ parses[t].read \in Refused \cup {0} => Pending("refused", t)'
    BY <1>4, <1>7, <1>12 DEF DetailsFollow
  <2>1. HasParse(rows[i], parses)
    BY DEF FolderInv, RowsHaveParses
  <2>2. /\ \/ Unread(t)
           \/ mods /\ Pending("parsed", t)
           \/ /\ mods /\ rows[i].details = parses[t].read
              /\ \A u \in DOMAIN parses : parses[u].id = rows[i].id => ~Unread(u) /\ ~Pending("parsed", u)
           \/ /\ ~mods /\ rows[i].details = parses[t].read
              /\ parses[t].read \in Refused \cup {0} => Pending("refused", t)
    BY DEF FolderInv, DetailsFollow
  <2>3. CASE ~mods
    BY <1>2, <1>7, <2>2, <2>3
  <2>4. CASE mods /\ rows[i].id # id0
    <3>1. t # t0
      BY <2>1, <2>4 DEF HasParse, id0
    <3> QED
      BY <1>2, <1>7, <2>2, <2>4, <3>1
  <2>5. CASE mods /\ rows[i].id = id0 /\ t # t0
    <3>1. Pending("parsed", t0) /\ parses[t0].id = rows[i].id
      BY <1>2, <2>5 DEF Pending, t0, id0
    <3>2. Unread(t) \/ Pending("parsed", t)
      BY <1>3, <2>2, <2>5, <3>1
    <3> QED
      BY <1>2, <2>5, <3>2
  <2>6. CASE mods /\ rows[i].id = id0 /\ t = t0
    <3>1. rows'[i].details = parses[t].read
      BY <1>7, <2>6 DEF read0
    <3>2. ASSUME NEW u \in DOMAIN parses, parses[u].id = rows[i].id PROVE ~Unread(u) /\ ~Pending("parsed", u)'
      <4>1. u <= t0 /\ u \in Nat /\ t0 \in Nat
        BY <1>3, <2>1, <2>6, <3>2 DEF HasParse, FolderInv, FolderTyped
      <4>2. ~Pending("parse", u)
        BY <1>2, <4>1 DEF FolderInv, ParsesInOrder, Results, Pending, t0
      <4>3. \A k \in DOMAIN waiting : waiting[k] # u
        BY <1>2, <4>1 DEF FolderInv, InOrder, t0
      <4>4. ASSUME NEW k \in DOMAIN posted', posted'[k].kind = "parsed", posted'[k].ticket = u PROVE FALSE
        <5>1. k + 1 \in DOMAIN posted /\ 1 < k + 1 /\ posted[k + 1].kind = "parsed" /\ posted[k + 1].ticket = u
          BY <1>2, <4>4
        <5> QED
          BY <1>2, <4>1, <5>1 DEF FolderInv, ResultsInOrder, Results, t0
      <4> QED
        BY <4>2, <4>3, <4>4 DEF Unread, Pending
    <3> QED
      BY <2>6, <3>1, <3>2
  <2> QED
    BY <2>3, <2>4, <2>5, <2>6
<1>14. ReadIsListed'
  BY <1>4, <1>7, <1>12 DEF FolderInv, ReadIsListed
<1>15. RefusalIsOfRow' /\ RefusalIsOfScan'
  BY <1>1, <1>4, <1>7, RefusalsServed
<1>16. UpdateComes'
  BY <1>2, <1>4, <1>7 DEF FolderInv, UpdateComes, ListIsDisk
<1> QED
  BY <1>8, <1>9, <1>10, <1>11, <1>13, <1>14, <1>15, <1>16 DEF FolderInv

(* A pack that leaves the list is refused as it is, or has changed since.   *)
LEMMA OnParseFailedKeeps == FolderInv /\ OnParseFailed /\ UNCHANGED mods => FolderInv'
<1> SUFFICES ASSUME FolderInv, OnParseFailed, UNCHANGED mods PROVE FolderInv'
  OBVIOUS
<1> DEFINE t0 == posted[1].ticket
           id0 == parses[t0].id
           i0 == index[id0]
<1>1. /\ Served("refused")
      /\ UNCHANGED <<disk, changes, asked, task, scheduled, scan, parses, waiting, resolver>>
  BY DEF OnParseFailed, diskVars, updateVars, resolverVars
<1>2. /\ posted' \in Seq(Signals) /\ 1 \in DOMAIN posted /\ posted[1].kind = "refused" /\ Head(posted) = posted[1]
      /\ \A i \in DOMAIN posted' : i \in Nat /\ i + 1 \in DOMAIN posted /\ i + 1 # 1 /\ posted'[i] = posted[i + 1]
      /\ \A k, t : /\ Pending(k, t)' => Pending(k, t)
                   /\ Pending(k, t) /\ (k # "refused" \/ t # t0) => Pending(k, t)'
  BY <1>1, ServedFirst
<1>3. /\ t0 \in DOMAIN parses /\ parses[t0].active /\ id0 \in Ids /\ ~mods
      /\ parses[t0].read \in Refused \cup {0}
  <2>1. t0 \in DOMAIN parses /\ parses[t0].active /\ ~mods /\ parses[t0].read \in Refused \cup {0}
    BY <1>2 DEF FolderInv, ParsesKnown, OfParse, Results
  <2>2. parses[t0] \in ParseTask
    BY <2>1 DEF FolderInv, FolderTyped
  <2> QED
    BY <2>1, <2>2 DEF ParseTask
<1>4. UNCHANGED <<disk, changes, asked, task, scheduled, scan, parses, waiting, resolver, mods>>
  BY <1>1
<1>5. IF id0 \in DOMAIN index
      THEN rows' = RemoveAt(rows, i0) /\ index' = IndexOf(rows')
      ELSE UNCHANGED <<rows, index>>
  BY <1>2, <1>3 DEF OnParseFailed
<1> HIDE DEF t0, id0
<1>6. /\ rows \in Seq(Row) /\ \A i \in DOMAIN rows : rows[i].id \in DOMAIN index /\ index[rows[i].id] = i
      /\ \A id \in DOMAIN index : \E i \in DOMAIN rows : rows[i].id = id
  BY <1>3 DEF FolderInv, FolderTyped, IndexFinds, Finds
(* The rows that stay are those of other names.                             *)
<1>7. /\ rows' \in Seq(Row)
      /\ \A j \in DOMAIN rows' : \E k \in DOMAIN rows : rows'[j] = rows[k] /\ rows[k].id # id0
      /\ \A k \in DOMAIN rows : rows[k].id # id0 => \E j \in DOMAIN rows' : rows'[j] = rows[k]
      /\ IndexFinds'
  <2>1. CASE id0 \notin DOMAIN index
    <3>1. UNCHANGED <<rows, index, mods>>
      BY <1>4, <1>5, <2>1
    <3>2. IndexFinds'
      BY <3>1 DEF FolderInv, IndexFinds, Finds
    <3>3. \A k \in DOMAIN rows : rows[k].id # id0
      BY <1>6, <2>1
    <3> QED
      BY <1>6, <3>1, <3>2, <3>3
  <2>2. CASE id0 \in DOMAIN index
    <3>1. i0 \in DOMAIN rows /\ rows[i0].id = id0
      BY <1>6, <2>2
    <3> DEFINE n == Len(rows) - 1
               Old(j) == IF j < i0 THEN j ELSE j + 1
    <3>2. rows' = RemoveAt(rows, i0) /\ index' = IndexOf(rows')
      BY <1>5, <2>2
    <3> HIDE DEF i0
    <3>3. /\ rows' \in Seq(Row) /\ DOMAIN rows' = 1..n
          /\ \A j \in 1..n : rows'[j] = IF j < i0 THEN rows[j] ELSE rows[j + 1]
      BY <1>6, <3>1, <3>2, RemoveAtKeeps
    <3>4. Len(rows) \in Nat /\ DOMAIN rows = 1..Len(rows)
      BY <1>6
    <3>5. ASSUME NEW j \in DOMAIN rows'
          PROVE  Old(j) \in DOMAIN rows /\ Old(j) # i0 /\ rows'[j] = rows[Old(j)] /\ rows[Old(j)].id # id0
      <4>1. Old(j) \in DOMAIN rows /\ Old(j) # i0 /\ rows'[j] = rows[Old(j)]
        BY <3>1, <3>3, <3>4
      <4> QED
        BY <1>6, <3>1, <4>1
    <3>6. \A j, k \in DOMAIN rows' : Old(j) = Old(k) => j = k
      BY <3>1, <3>3, <3>4
    <3>7. ASSUME NEW k \in DOMAIN rows, rows[k].id # id0 PROVE \E j \in DOMAIN rows' : rows'[j] = rows[k]
      <4>1. CASE k < i0
        <5>1. k \in 1..n
          BY <3>1, <3>4, <4>1
        <5> QED
          BY <3>3, <4>1, <5>1
      <4>2. CASE ~(k < i0)
        <5>1. k # i0
          BY <3>1, <3>7
        <5>2. k - 1 \in 1..n /\ ~(k - 1 < i0) /\ (k - 1) + 1 = k
          BY <3>1, <3>4, <4>2, <5>1
        <5> QED
          BY <3>3, <5>2
      <4> QED
        BY <4>1, <4>2
    <3> HIDE DEF Old
    <3>8. \A j, k \in DOMAIN rows' : rows'[j].id = rows'[k].id => j = k
      BY <1>6, <3>5, <3>6
    <3>9. IndexFinds'
      <4>1. /\ index' \in [DOMAIN index' -> Nat \ {0}] /\ DOMAIN index' \subseteq Ids
            /\ \A j \in DOMAIN rows' : rows'[j].id \in DOMAIN index' /\ index'[rows'[j].id] = j
            /\ \A id \in DOMAIN index' : \E j \in DOMAIN rows' : rows'[j].id = id
        <5> DEFINE left == rows'
        <5>1. left \in Seq(Row) /\ \A j, k \in DOMAIN left : left[j].id = left[k].id => j = k
          BY <3>3, <3>8
        <5> HIDE DEF left
        <5>2. /\ IndexOf(left) \in [DOMAIN IndexOf(left) -> Nat \ {0}] /\ DOMAIN IndexOf(left) \subseteq Ids
              /\ \A j \in DOMAIN left : left[j].id \in DOMAIN IndexOf(left) /\ IndexOf(left)[left[j].id] = j
              /\ \A id \in DOMAIN IndexOf(left) : \E j \in DOMAIN left : left[j].id = id
          BY <5>1, IndexOfIs
        <5>3. index' = IndexOf(left)
          BY <3>2 DEF left
        <5> QED
          BY <5>2, <5>3 DEF left
      <4> QED
        BY <4>1 DEF IndexFinds, Finds
    <3> QED
      BY <3>3, <3>5, <3>7, <3>9
  <2> QED
    BY <2>1, <2>2
<1> HIDE DEF i0
<1>8. FolderTyped' /\ DatesArePast'
  BY <1>2, <1>4, <1>7 DEF FolderInv, FolderTyped, DatesArePast
<1>9. RowsHaveParses'
  BY <1>4, <1>7 DEF FolderInv, RowsHaveParses
<1>10. InOrder' /\ ParsesInOrder' /\ ResultsInOrder' /\ UpdateOrder' /\ ParsesKnown'
  BY <1>1, <1>4, OrderServed, ParsesServed
<1>11. \A t : Unread(t)' <=> Unread(t)
  BY <1>2, <1>4 DEF Unread
<1>12. DetailsFollow'
  <2> SUFFICES ASSUME NEW j \in DOMAIN rows', NEW t, t = rows'[j].ticket
               PROVE  \/ Unread(t)
                      \/ /\ rows'[j].details = parses[t].read
                         /\ parses[t].read \in Refused \cup {0} => Pending("refused", t)'
    BY <1>3, <1>4, <1>11 DEF DetailsFollow
  <2>1. PICK k \in DOMAIN rows : rows'[j] = rows[k] /\ rows[k].id # id0
    BY <1>7
  <2>2. t # t0
    BY <2>1 DEF FolderInv, RowsHaveParses, HasParse, id0
  <2>3. \/ Unread(t)
        \/ /\ rows[k].details = parses[t].read
           /\ parses[t].read \in Refused \cup {0} => Pending("refused", t)
    BY <1>3, <2>1 DEF FolderInv, DetailsFollow
  <2> QED
    BY <1>2, <2>1, <2>2, <2>3
<1>13. ReadIsListed'
  BY <1>4, <1>7, <1>11 DEF FolderInv, ReadIsListed
<1>14. RefusalIsOfRow' /\ RefusalIsOfScan'
  <2>1. \A j \in DOMAIN rows' : \E k \in DOMAIN rows : rows'[j].id = rows[k].id /\ rows'[j].date = rows[k].date
    BY <1>7
  <2> QED
    BY <1>1, <1>4, <2>1, RefusalsServed
<1>15. ListIsDisk => ListIsDisk'
  <2> SUFFICES ASSUME ListIsDisk PROVE ListIsDisk'
    OBVIOUS
  <2>1. \A j \in DOMAIN rows' : rows'[j].date = disk[rows'[j].id]
    BY <1>7 DEF ListIsDisk
  <2>2. ASSUME NEW id \in Found(disk), disk[id] \notin Refused PROVE \E j \in DOMAIN rows' : rows'[j].id = id
    <3>1. PICK k \in DOMAIN rows : rows[k].id = id /\ rows[k].date = disk[id]
      BY <1>3, <2>2 DEF ListIsDisk
    <3>2. id # id0
      <4> SUFFICES ASSUME id = id0 PROVE FALSE
        OBVIOUS
      <4>1. parses[t0].read = disk[id]
        BY <1>2, <3>1 DEF FolderInv, RefusalIsOfRow, t0, id0
      <4> QED
        BY <1>3, <2>2, <4>1 DEF Found
    <3> QED
      BY <1>7, <3>1, <3>2
  <2> QED
    BY <1>4, <2>1, <2>2 DEF ListIsDisk, Found
<1>16. UpdateComes'
  BY <1>2, <1>4, <1>15 DEF FolderInv, UpdateComes
<1> QED
  BY <1>7, <1>8, <1>9, <1>10, <1>12, <1>13, <1>14, <1>16 DEF FolderInv

LEMMA ParseKeeps == FolderInv /\ Parse /\ UNCHANGED mods => FolderInv'
<1> SUFFICES ASSUME FolderInv, Parse, UNCHANGED mods, NEW t0, t0 = posted[1].ticket PROVE FolderInv'
  OBVIOUS
<1> DEFINE id0 == parses[t0].id
           read0 == disk[id0]
           refused == ~mods /\ read0 \in Refused \cup {0}
           a == IF refused THEN Signal("refused", t0) ELSE Signal("parsed", t0)
           b == Signal("over", t0)
           e == IF refused \/ ~parses[t0].aborted THEN <<a>> ELSE <<>>
           old == Tail(posted)
<1>1. /\ posted # <<>> /\ Head(posted).kind = "parse"
      /\ UNCHANGED <<disk, changes, asked, task, scheduled, scan, index, waiting, resolver, mods>>
  BY DEF Parse, diskVars, updateVars, resolverVars
<1>2. /\ posted \in Seq(Signals) /\ 1 \in DOMAIN posted /\ posted[1].kind = "parse" /\ Head(posted) = posted[1]
      /\ old \in Seq(Signals)
      /\ \A i \in DOMAIN old : i \in Nat /\ i + 1 \in DOMAIN posted /\ i + 1 # 1 /\ old[i] = posted[i + 1]
      /\ \A i \in DOMAIN posted : i # 1 => i - 1 \in DOMAIN old /\ (i - 1) + 1 = i
  <2>1. posted \in Seq(Signals) /\ posted # <<>>
    BY <1>1 DEF FolderInv, FolderTyped
  <2> QED
    BY <1>1, <2>1
<1>3. /\ t0 \in DOMAIN parses /\ t0 \in Nat \ {0} /\ parses[t0].active /\ id0 \in Ids /\ read0 \in Nat
      /\ parses \in Seq(ParseTask) /\ parses[t0] \in ParseTask
  <2>1. t0 \in DOMAIN parses /\ parses[t0].active /\ parses \in Seq(ParseTask) /\ disk \in [Ids -> Nat]
    BY <1>2 DEF FolderInv, FolderTyped, ParsesKnown, OfParse, Results
  <2>2. parses[t0] \in ParseTask /\ t0 \in Nat \ {0}
    BY <2>1
  <2> QED
    BY <2>1, <2>2 DEF ParseTask
<1>4. /\ posted' = old \o e \o <<b>>
      /\ parses' = [parses EXCEPT ![t0].read = read0]
      /\ rows' = IF mods THEN rows
                 ELSE [i \in DOMAIN rows |->
                          IF rows[i].ticket = t0 THEN [rows[i] EXCEPT !.details = read0] ELSE rows[i]]
  BY <1>2 DEF Parse
<1>5. /\ a \in Signals /\ a.kind = (IF refused THEN "refused" ELSE "parsed") /\ a.ticket = t0
      /\ b \in Signals /\ b.kind = "over" /\ b.ticket = t0
      /\ e \in {<<>>, <<a>>} /\ (refused \/ ~parses[t0].aborted => e = <<a>>)
  BY <1>3 DEF Signal, Signals, OfParse, Results
<1> HIDE DEF a, b, e, old
<1>6. /\ posted' \in Seq(Signals) /\ Len(old) \in Nat
      /\ \A i \in DOMAIN old : i \in DOMAIN posted' /\ posted'[i] = old[i] /\ i <= Len(old)
      /\ \A i \in DOMAIN posted' : i \notin DOMAIN old =>
            /\ i > Len(old)
            /\ posted'[i] = b \/ (posted'[i] = a /\ e = <<a>>)
      /\ \A i, j \in DOMAIN posted' : i \notin DOMAIN old /\ i < j => posted'[i] = a /\ e = <<a>> /\ posted'[j] = b
      /\ e = <<a>> => \E i \in DOMAIN posted' : posted'[i] = a
  <2>1. /\ old \in Seq(Signals) /\ a \in Signals /\ b \in Signals /\ e \in {<<>>, <<a>>}
        /\ posted' = old \o e \o <<b>>
    BY <1>2, <1>4, <1>5
  <2> DEFINE n == Len(old)
             q == posted'
  <2>2. n \in Nat /\ DOMAIN old = 1..n
    BY <1>2
  <2>3. CASE e = <<>>
    <3>1. old \o e = old
      BY <1>2, <2>3
    <3>2. q = Append(old, b)
      BY <2>1, <3>1
    <3> HIDE DEF q
    <3>3. /\ q \in Seq(Signals) /\ DOMAIN q = DOMAIN old \cup {n + 1} /\ q[n + 1] = b
          /\ \A i \in DOMAIN old : q[i] = old[i]
      BY <2>1, <3>2
    <3>4. e # <<a>>
      BY <2>3
    <3> HIDE DEF n
    <3>5. \A i \in DOMAIN q : i \notin DOMAIN old => i = n + 1
      BY <3>3
    <3>6. \A i, j \in DOMAIN q : i \notin DOMAIN old => ~(i < j)
      BY <2>2, <3>3
    <3> QED
      BY <2>2, <3>3, <3>4, <3>5, <3>6 DEF n, q
  <2>4. CASE e = <<a>>
    <3>1. old \o e = Append(old, a)
      BY <1>2, <2>1, <2>4
    <3>2. q = Append(Append(old, a), b)
      BY <2>1, <3>1
    <3> HIDE DEF q
    <3>3. /\ q \in Seq(Signals) /\ DOMAIN q = DOMAIN old \cup {n + 1, n + 2}
          /\ \A i \in DOMAIN old : q[i] = old[i] /\ i <= n /\ i \in Nat
          /\ q[n + 1] = a /\ q[n + 2] = b
      BY <2>1, <3>2, TwoMore
    <3> HIDE DEF n
    <3>4. \A i \in DOMAIN q : i \notin DOMAIN old => i \in {n + 1, n + 2} /\ i > n
      BY <2>2, <3>3
    <3>5. \A i, j \in DOMAIN q : i \notin DOMAIN old /\ i < j => i = n + 1 /\ j = n + 2
      BY <2>2, <3>3
    <3> QED
      BY <2>2, <2>4, <3>3, <3>4, <3>5 DEF n, q
  <2> QED
    BY <2>1, <2>3, <2>4
(* A signal was there before, or is of what was read.                       *)
<1>7. ASSUME NEW i \in DOMAIN posted'
      PROVE  \/ i \in DOMAIN old /\ i \in Nat /\ i + 1 \in DOMAIN posted /\ 1 < i + 1 /\ posted'[i] = posted[i + 1]
             \/ /\ i \notin DOMAIN old /\ posted'[i].ticket = t0 /\ posted'[i].kind \in Results
                /\ posted'[i].kind = "refused" => refused
  <2>1. CASE i \in DOMAIN old
    BY <1>2, <1>6, <2>1
  <2>2. CASE i \notin DOMAIN old
    <3>1. posted'[i] = a \/ posted'[i] = b
      BY <1>6, <2>2
    <3> QED
      BY <1>5, <2>2, <3>1 DEF Results
  <2> QED
    BY <2>1, <2>2
<1>8. \A i, j \in DOMAIN posted' : i \in DOMAIN old /\ j \notin DOMAIN old => ~(j < i)
  BY <1>6, <1>2
<1> HIDE DEF refused
<1>9. /\ parses' \in Seq(ParseTask) /\ DOMAIN parses' = DOMAIN parses
      /\ \A t \in DOMAIN parses : /\ parses'[t].id = parses[t].id /\ parses'[t].active = parses[t].active
                                  /\ parses'[t].aborted = parses[t].aborted
                                  /\ t # t0 => parses'[t] = parses[t]
      /\ parses'[t0].read = read0
  <2> DEFINE p == [parses[t0] EXCEPT !.read = read0]
  <2>1. /\ p \in ParseTask /\ p.id = parses[t0].id /\ p.active = parses[t0].active
        /\ p.aborted = parses[t0].aborted /\ p.read = read0
    BY <1>3 DEF ParseTask
  <2>2. parses' = [parses EXCEPT ![t0] = p]
    BY <1>4
  <2> HIDE DEF p, read0, id0
  <2>3. /\ parses' \in Seq(ParseTask) /\ DOMAIN parses' = DOMAIN parses /\ parses'[t0] = p
        /\ \A t \in DOMAIN parses : t # t0 => parses'[t] = parses[t]
    BY <1>3, <2>1, <2>2
  <2> QED
    BY <2>1, <2>3
<1>10. rows \in Seq(Row) /\ \A i \in DOMAIN rows : HasParse(rows[i], parses)
  BY DEF FolderInv, FolderTyped, RowsHaveParses
<1>11. /\ rows' \in Seq(Row) /\ DOMAIN rows' = DOMAIN rows
       /\ \A i \in DOMAIN rows : /\ rows'[i].id = rows[i].id /\ rows'[i].date = rows[i].date
                                 /\ rows'[i].ticket = rows[i].ticket
                                 /\ mods \/ rows[i].ticket # t0 => rows'[i] = rows[i]
                                 /\ ~mods /\ rows[i].ticket = t0 => rows'[i].details = read0
  <2>1. CASE mods
    BY <1>4, <1>10, <2>1
  <2>2. CASE ~mods
    <3>1. \A i \in DOMAIN rows : LET r == [rows[i] EXCEPT !.details = read0]
                                 IN r \in Row /\ r.id = rows[i].id /\ r.date = rows[i].date
                                    /\ r.ticket = rows[i].ticket /\ r.details = read0
      <4>1. \A i \in DOMAIN rows : rows[i] \in Row
        BY <1>10
      <4> QED
        BY <1>3, <4>1 DEF Row
    <3>2. /\ DOMAIN rows' = DOMAIN rows
          /\ \A i \in DOMAIN rows :
                rows'[i] = IF rows[i].ticket = t0 THEN [rows[i] EXCEPT !.details = read0] ELSE rows[i]
      BY <1>4, <2>2
    <3>3. rows' \in Seq(Row)
      <4>1. DOMAIN rows = 1..Len(rows) /\ Len(rows) \in Nat /\ \A i \in DOMAIN rows : rows'[i] \in Row
        BY <1>10, <3>1, <3>2
      <4>2. rows' = [i \in DOMAIN rows |-> rows'[i]]
        BY <1>4, <2>2
      <4> QED
        BY <4>1, <4>2
    <3> QED
      BY <2>2, <3>1, <3>2, <3>3
  <2> QED
    BY <2>1, <2>2
<1> HIDE DEF read0, id0
<1>12. FolderTyped' /\ DatesArePast'
  <2>1. \A i \in DOMAIN rows' : rows'[i].date <= changes
    BY <1>11 DEF FolderInv, DatesArePast
  <2> QED
    BY <1>1, <1>6, <1>9, <1>11, <2>1 DEF FolderInv, FolderTyped, DatesArePast
<1>13. IndexFinds' /\ RowsHaveParses'
  <2>1. RowsHaveParses'
    BY <1>9, <1>10, <1>11 DEF RowsHaveParses, HasParse
  <2>2. /\ \A i \in DOMAIN rows : rows[i].id \in DOMAIN index /\ index[rows[i].id] = i
        /\ ~mods => \A id \in DOMAIN index : \E i \in DOMAIN rows : rows[i].id = id
        /\ index \in [DOMAIN index -> Nat \ {0}] /\ DOMAIN index \subseteq Ids
    BY DEF FolderInv, IndexFinds, Finds
  <2>3. Finds(rows)'
    <3>1. DOMAIN rows' = DOMAIN rows /\ \A i \in DOMAIN rows : rows'[i].id = rows[i].id
      BY <1>11
    <3>2. index' = index /\ mods' = mods
      BY <1>1
    <3> QED
      BY <2>2, <3>1, <3>2 DEF Finds
  <2>4. index' \in [DOMAIN index' -> Nat \ {0}] /\ DOMAIN index' \subseteq Ids
    BY <1>1, <2>2
  <2> QED
    BY <2>1, <2>3, <2>4 DEF IndexFinds
<1>14. \A i \in DOMAIN posted : posted[i] \in Signals /\ posted[i].ticket \in Nat
  <2>1. \A i \in DOMAIN posted : posted[i] \in Signals
    BY <1>2
  <2> QED
    BY <2>1 DEF Signals
(* What was posted of other tasks is older, or will be read later.          *)
<1>15. \A i \in DOMAIN posted : /\ posted[i].kind \in Results => posted[i].ticket < t0
                                /\ 1 < i /\ posted[i].kind = "parse" => t0 < posted[i].ticket
  BY <1>2 DEF FolderInv, ParsesInOrder
<1>16. InOrder'
  <2>1. \A j \in DOMAIN waiting : t0 < waiting[j]
    BY <1>2 DEF FolderInv, InOrder
  <2> QED
    BY <1>1, <1>7, <2>1 DEF FolderInv, InOrder
<1>17. ParsesInOrder'
  <2> SUFFICES ASSUME NEW i \in DOMAIN posted', NEW j \in DOMAIN posted', posted'[j].kind = "parse",
                      posted'[i].kind \in Results \/ (i < j /\ posted'[i].kind = "parse")
               PROVE  posted'[i].ticket < posted'[j].ticket
    BY DEF ParsesInOrder
  <2>1. j \in DOMAIN old /\ j \in Nat /\ j + 1 \in DOMAIN posted /\ 1 < j + 1 /\ posted'[j] = posted[j + 1]
    BY <1>7 DEF Results
  <2>2. CASE i \in DOMAIN old
    <3>1. i \in Nat /\ i + 1 \in DOMAIN posted /\ posted'[i] = posted[i + 1]
      BY <1>7, <2>2
    <3>2. i < j => i + 1 < j + 1
      BY <2>1, <3>1
    <3> QED
      BY <2>1, <3>1, <3>2 DEF FolderInv, ParsesInOrder
  <2>3. CASE i \notin DOMAIN old
    BY <1>7, <1>15, <2>1, <2>3
  <2> QED
    BY <2>2, <2>3
<1>18. ResultsInOrder'
  <2> SUFFICES ASSUME NEW i \in DOMAIN posted', NEW j \in DOMAIN posted', i < j,
                      posted'[i].kind \in Results, posted'[j].kind \in Results
               PROVE  \/ posted'[i].ticket < posted'[j].ticket
                      \/ /\ posted'[i].ticket = posted'[j].ticket
                         /\ posted'[i].kind # "over" /\ posted'[j].kind = "over"
    BY DEF ResultsInOrder
  <2>1. CASE i \in DOMAIN old /\ j \in DOMAIN old
    <3>1. /\ i \in Nat /\ i + 1 \in DOMAIN posted /\ posted'[i] = posted[i + 1]
          /\ j \in Nat /\ j + 1 \in DOMAIN posted /\ posted'[j] = posted[j + 1]
      BY <1>7, <2>1
    <3>2. i + 1 < j + 1
      BY <3>1
    <3> QED
      BY <3>1, <3>2 DEF FolderInv, ResultsInOrder
  <2>2. CASE i \in DOMAIN old /\ j \notin DOMAIN old
    BY <1>7, <1>15, <2>2
  <2>3. CASE i \notin DOMAIN old
    <3>1. posted'[i] = a /\ posted'[j] = b
      BY <1>6, <2>3
    <3> QED
      BY <1>5, <3>1
  <2> QED
    BY <2>1, <2>2, <2>3
<1>19. \A i \in DOMAIN posted : posted[i].kind \in Results => posted[i].ticket # t0
  BY <1>3, <1>14, <1>15
<1>20. ParsesKnown'
  <2>1. \A i \in DOMAIN waiting' : waiting'[i] \in DOMAIN parses' /\ parses'[waiting'[i]].active
    BY <1>1, <1>9 DEF FolderInv, ParsesKnown
  <2>2. ASSUME NEW i \in DOMAIN posted'
        PROVE  /\ posted'[i].kind \in OfParse => posted'[i].ticket \in DOMAIN parses'
               /\ posted'[i].kind \in OfParse \ {"over"} => parses'[posted'[i].ticket].active
               /\ posted'[i].kind = "refused" => ~mods /\ parses'[posted'[i].ticket].read \in Refused \cup {0}
    <3>1. CASE i \in DOMAIN old
      <4>1. i + 1 \in DOMAIN posted /\ posted'[i] = posted[i + 1]
        BY <1>7, <3>1
      <4> QED
        BY <1>9, <1>19, <4>1 DEF FolderInv, ParsesKnown, OfParse, Results
    <3>2. CASE i \notin DOMAIN old
      BY <1>3, <1>7, <1>9, <3>2 DEF refused
    <3> QED
      BY <3>1, <3>2
  <2>3. resolver' = "idle" => waiting' = <<>>
    BY <1>1 DEF FolderInv, ParsesKnown
  <2> QED
    BY <1>1, <2>1, <2>2, <2>3 DEF ParsesKnown
(* What is pending of other tasks is pending still, and nothing new is.     *)
<1>21. ASSUME NEW k, NEW t, t # t0 PROVE Pending(k, t)' <=> Pending(k, t)
  <2>1. ASSUME Pending(k, t) PROVE Pending(k, t)'
    <3>1. PICK i \in DOMAIN posted : posted[i].kind = k /\ posted[i].ticket = t
      BY <2>1 DEF Pending
    <3>2. i # 1
      BY <1>21, <3>1
    <3>3. i - 1 \in DOMAIN old /\ old[i - 1] = posted[i]
      BY <1>2, <3>2
    <3> QED
      BY <1>6, <3>1, <3>3 DEF Pending
  <2>2. ASSUME Pending(k, t)' PROVE Pending(k, t)
    <3>1. PICK i \in DOMAIN posted' : posted'[i].kind = k /\ posted'[i].ticket = t
      BY <2>2 DEF Pending
    <3> QED
      BY <1>7, <1>21, <3>1 DEF Pending
  <2> QED
    BY <2>1, <2>2
<1>22. \A t : t # t0 => (Unread(t)' <=> Unread(t))
  BY <1>1, <1>21 DEF Unread
<1>23. Unread(t0)
  BY <1>2 DEF Unread, Pending
<1>24. /\ refused => Pending("refused", t0)'
       /\ ~refused /\ ~parses[t0].aborted => Pending("parsed", t0)'
  BY <1>5, <1>6 DEF Pending
<1>25. DetailsFollow'
  <2> SUFFICES ASSUME NEW i \in DOMAIN rows, NEW t, t = rows[i].ticket
               PROVE  \/ Unread(t)'
                      \/ mods /\ Pending("parsed", t)'
                      \/ /\ mods /\ rows'[i].details = parses'[t].read
                         /\ \A u \in DOMAIN parses :
                               parses[u].id = rows[i].id => ~Unread(u)' /\ ~Pending("parsed", u)'
                      \/ /\ ~mods /\ rows'[i].details = parses'[t].read
                         /\ parses'[t].read \in Refused \cup {0} => Pending("refused", t)'
    BY <1>1, <1>9, <1>11 DEF DetailsFollow
  <2>1. t \in DOMAIN parses /\ parses[t].id = rows[i].id /\ ~parses[t].aborted
    BY <1>10 DEF HasParse
  <2>2. CASE t # t0
    <3>1. /\ rows'[i] = rows[i] /\ parses'[t] = parses[t]
          /\ Unread(t)' <=> Unread(t)
          /\ \A k : Pending(k, t)' <=> Pending(k, t)
      BY <1>9, <1>11, <1>21, <1>22, <2>1, <2>2
    <3>2. \/ Unread(t)
          \/ mods /\ Pending("parsed", t)
          \/ /\ mods /\ rows[i].details = parses[t].read
             /\ \A u \in DOMAIN parses : parses[u].id = rows[i].id => ~Unread(u) /\ ~Pending("parsed", u)
          \/ /\ ~mods /\ rows[i].details = parses[t].read
             /\ parses[t].read \in Refused \cup {0} => Pending("refused", t)
      BY DEF FolderInv, DetailsFollow
    <3>3. ASSUME \A u \in DOMAIN parses : parses[u].id = rows[i].id => ~Unread(u) /\ ~Pending("parsed", u)
          PROVE  \A u \in DOMAIN parses : parses[u].id = rows[i].id => ~Unread(u)' /\ ~Pending("parsed", u)'
      <4>1. \A u \in DOMAIN parses : parses[u].id = rows[i].id => u # t0
        BY <1>23, <3>3
      <4> QED
        BY <1>21, <1>22, <3>3, <4>1
    <3> QED
      BY <3>1, <3>2, <3>3
  <2>3. CASE t = t0
    BY <1>9, <1>11, <1>24, <2>1, <2>3 DEF refused
  <2> QED
    BY <2>2, <2>3
<1>26. ReadIsListed'
  <2> SUFFICES ASSUME NEW i \in DOMAIN rows, NEW t, t = rows[i].ticket, disk[rows[i].id] = rows[i].date
               PROVE  Unread(t)' \/ parses'[t].read = rows[i].date
    BY <1>1, <1>11 DEF ReadIsListed
  <2>1. t \in DOMAIN parses /\ parses[t].id = rows[i].id
    BY <1>10 DEF HasParse
  <2>2. CASE t # t0
    BY <1>9, <1>22, <2>1, <2>2 DEF FolderInv, ReadIsListed
  <2>3. CASE t = t0
    BY <1>9, <2>1, <2>3 DEF read0, id0
  <2> QED
    BY <2>2, <2>3
<1>27. ASSUME NEW i \in DOMAIN posted', posted'[i].kind = "refused"
       PROVE  \/ /\ i \in DOMAIN old /\ i \in Nat /\ i + 1 \in DOMAIN posted /\ posted'[i] = posted[i + 1]
                 /\ posted'[i].ticket \in DOMAIN parses /\ parses'[posted'[i].ticket] = parses[posted'[i].ticket]
              \/ /\ i \notin DOMAIN old /\ posted'[i].ticket = t0
                 /\ parses'[t0].id = id0 /\ parses'[t0].read = disk[id0]
  <2>1. CASE i \in DOMAIN old
    <3>1. i \in Nat /\ i + 1 \in DOMAIN posted /\ posted'[i] = posted[i + 1]
      BY <1>7, <2>1
    <3>2. posted[i + 1].ticket \in DOMAIN parses /\ posted[i + 1].ticket # t0
      BY <1>19, <1>27, <3>1 DEF FolderInv, ParsesKnown, OfParse, Results
    <3> QED
      BY <1>9, <2>1, <3>1, <3>2
  <2>2. CASE i \notin DOMAIN old
    BY <1>3, <1>7, <1>9, <2>2 DEF read0, id0
  <2> QED
    BY <2>1, <2>2
<1>28. RefusalIsOfRow'
  <2> SUFFICES ASSUME NEW i \in DOMAIN posted', NEW j \in DOMAIN rows, posted'[i].kind = "refused",
                      parses'[posted'[i].ticket].id = rows[j].id, disk[rows[j].id] = rows[j].date
               PROVE  parses'[posted'[i].ticket].read = rows[j].date
    BY <1>1, <1>11 DEF RefusalIsOfRow
  <2> QED
    BY <1>27 DEF FolderInv, RefusalIsOfRow
<1>29. RefusalIsOfScan'
  <2> SUFFICES ASSUME NEW i \in DOMAIN posted', NEW j \in DOMAIN posted', i < j, posted'[i].kind = "succeeded",
                      posted'[j].kind = "refused", scan[parses'[posted'[j].ticket].id] # 0,
                      disk[parses'[posted'[j].ticket].id] = scan[parses'[posted'[j].ticket].id]
               PROVE  parses'[posted'[j].ticket].read = scan[parses'[posted'[j].ticket].id]
    BY <1>1 DEF RefusalIsOfScan
  <2>1. CASE j \in DOMAIN old
    <3>1. i \in Nat /\ i + 1 \in DOMAIN posted /\ posted'[i] = posted[i + 1]
      BY <1>7 DEF Results
    <3>2. /\ j \in Nat /\ j + 1 \in DOMAIN posted /\ posted'[j] = posted[j + 1]
          /\ parses'[posted'[j].ticket] = parses[posted'[j].ticket]
      BY <1>27, <2>1
    <3>3. i + 1 < j + 1
      BY <3>1, <3>2
    <3> QED
      BY <3>1, <3>2, <3>3 DEF FolderInv, RefusalIsOfScan
  <2>2. CASE j \notin DOMAIN old
    BY <1>27, <2>2
  <2> QED
    BY <2>1, <2>2
<1>30. UpdateComes'
  <2>1. ListIsDisk => ListIsDisk'
    BY <1>1, <1>11 DEF ListIsDisk, Found
  <2>2. Pending("succeeded", 0)' <=> Pending("succeeded", 0)
    BY <1>3, <1>21
  <2> QED
    BY <1>1, <2>1, <2>2 DEF FolderInv, UpdateComes
<1>31. UpdateOrder'
  <2>1. \A i \in DOMAIN posted' : posted'[i].kind \in OfUpdate =>
           i \in Nat /\ i + 1 \in DOMAIN posted /\ posted'[i] = posted[i + 1]
    BY <1>7 DEF OfUpdate, Results
  <2>2. \A i, j \in DOMAIN posted' : i \in Nat /\ j \in Nat => (i < j <=> i + 1 < j + 1) /\ (i = j <=> i + 1 = j + 1)
    OBVIOUS
  <2>3. \A i \in DOMAIN posted' : posted'[i].kind \in OfUpdate => task' = "done" /\ posted'[i].ticket = 0
    BY <1>1, <2>1 DEF FolderInv, UpdateOrder
  <2>4. ASSUME NEW i \in DOMAIN posted', NEW j \in DOMAIN posted',
               posted'[i].kind \in OfUpdate, posted'[j].kind \in OfUpdate
        PROVE  /\ posted'[i].kind = "succeeded" /\ posted'[j].kind = "finished" => i < j
               /\ posted'[i].kind = posted'[j].kind => i = j
    <3>1. /\ i \in Nat /\ i + 1 \in DOMAIN posted /\ posted'[i] = posted[i + 1]
          /\ j \in Nat /\ j + 1 \in DOMAIN posted /\ posted'[j] = posted[j + 1]
      BY <2>1, <2>4
    <3> QED
      BY <2>2, <2>4, <3>1 DEF FolderInv, UpdateOrder
  <2>5. task' = "none" => ~scheduled'
    BY <1>1 DEF FolderInv, UpdateOrder
  <2> QED
    BY <2>3, <2>4, <2>5 DEF UpdateOrder, OfUpdate
<1> QED
  BY <1>12, <1>13, <1>16, <1>17, <1>18, <1>20, <1>25, <1>26, <1>28, <1>29, <1>30, <1>31 DEF FolderInv

(* What was found is listed: a late refusal is of it, and all that is new   *)
(* is still to be read.                                                     *)
LEMMA OnUpdateSucceededKeeps == FolderInv /\ OnUpdateSucceeded /\ UNCHANGED mods => FolderInv'
<1> SUFFICES ASSUME FolderInv, OnUpdateSucceeded, UNCHANGED mods PROVE FolderInv'
  OBVIOUS
<1>1. /\ Served("succeeded") /\ ApplyUpdates
      /\ UNCHANGED <<disk, changes, asked, task, scheduled, scan, mods>>
  BY DEF OnUpdateSucceeded, diskVars, updateVars
<1>2. /\ posted' \in Seq(Signals) /\ 1 \in DOMAIN posted /\ posted[1].kind = "succeeded"
      /\ \A i \in DOMAIN posted' : i \in Nat /\ i + 1 \in DOMAIN posted /\ 1 < i + 1 /\ posted'[i] = posted[i + 1]
      /\ \A k, t : Pending(k, t)' => Pending(k, t)
      /\ \A k, t : k # "succeeded" /\ Pending(k, t) => Pending(k, t)'
  BY <1>1, ServedFirst
<1>3. FolderTyped /\ IndexFinds /\ RowsHaveParses
  BY DEF FolderInv
<1>4. PICK list :
         /\ Applying(list) /\ rows' = list.rows /\ parses' = list.parses /\ index' = IndexOf(list.rows)
         /\ \A j \in DOMAIN list.rows : list.rows[j].date = scan[list.rows[j].id]
         /\ ~mods => \A id \in Found(scan) : \E j \in DOMAIN list.rows : list.rows[j].id = id
         /\ Resolve([k \in 1..(Len(list.parses) - Len(parses)) |-> Len(parses) + k])
  BY <1>1, <1>3, UpdatesApply
<1> DEFINE n == Len(parses)
           m == Len(parses') - n
           tickets == [k \in 1..m |-> n + k]
<1>5. /\ rows' \in Seq(Row) /\ ParsesGoOn(parses')
      /\ \A j \in DOMAIN rows' : /\ HasParse(rows'[j], parses')
                                 /\ rows'[j].ticket > n \/ \E k \in DOMAIN rows : rows'[j] = rows[k]
                                 /\ rows'[j].date = scan[rows'[j].id]
      /\ \A i, j \in DOMAIN rows' : rows'[i].id = rows'[j].id => i = j
      /\ ~mods => \A id \in Found(scan) : \E j \in DOMAIN rows' : rows'[j].id = id
  BY <1>4 DEF Applying
<1>6. /\ n \in Nat /\ m \in Nat /\ DOMAIN parses = 1..n /\ DOMAIN parses' = 1..(n + m)
      /\ parses' \in Seq(ParseTask)
      /\ \A t \in 1..n : t \in 1..(n + m) /\ parses'[t].id = parses[t].id /\ parses'[t].active = parses[t].active
                         /\ parses'[t].read = parses[t].read
      /\ \A k \in 1..m : n + k \in 1..(n + m) /\ n + k \notin 1..n
      /\ \A t \in 1..(n + m) : t \notin 1..n => t - n \in 1..m /\ n + (t - n) = t
  <2>1. parses \in Seq(ParseTask) /\ parses' \in Seq(ParseTask) /\ n <= Len(parses')
    BY <1>3, <1>5 DEF FolderTyped, ParsesGoOn
  <2>2. n \in Nat /\ m \in Nat /\ DOMAIN parses = 1..n /\ DOMAIN parses' = 1..(n + m)
    BY <2>1
  <2> HIDE DEF n, m
  <2>3. \A t \in 1..n : t \in 1..(n + m)
    BY <2>2
  <2>4. /\ \A k \in 1..m : n + k \in 1..(n + m) /\ n + k \notin 1..n
        /\ \A t \in 1..(n + m) : t \notin 1..n => t - n \in 1..m /\ n + (t - n) = t
    BY <2>2
  <2> QED
    BY <1>5, <2>1, <2>2, <2>3, <2>4 DEF ParsesGoOn
<1>7. /\ waiting' = waiting \o tickets
      /\ resolver' = IF tickets # <<>> /\ resolver = "idle" THEN "posted" ELSE resolver
  BY <1>4 DEF Resolve
<1>8. tickets \in Seq(Nat \ {0}) /\ Len(tickets) = m /\ \A k \in 1..m : tickets[k] = n + k
  <2>1. \A k \in 1..m : n + k \in Nat \ {0}
    BY <1>6
  <2> HIDE DEF n, m
  <2> QED
    BY <1>6, <2>1
<1> HIDE DEF tickets, m, n
<1>9. waiting \in Seq(Nat \ {0})
  BY <1>3 DEF FolderTyped
<1>10. /\ waiting' \in Seq(Nat \ {0}) /\ Len(waiting) \in Nat /\ DOMAIN waiting = 1..Len(waiting)
       /\ DOMAIN waiting' = 1..(Len(waiting) + m)
       /\ \A i \in DOMAIN waiting : i \in DOMAIN waiting' /\ waiting'[i] = waiting[i] /\ i \in Nat
       /\ \A i \in DOMAIN waiting' : i \notin DOMAIN waiting => i - Len(waiting) \in 1..m /\ waiting'[i] = n + (i - Len(waiting))
       /\ \A k \in 1..m : Len(waiting) + k \in DOMAIN waiting' /\ waiting'[Len(waiting) + k] = n + k
  <2> DEFINE l == Len(waiting)
             q == waiting \o tickets
  <2>1. l \in Nat /\ DOMAIN waiting = 1..l
    BY <1>9
  <2>2. q \in Seq(Nat \ {0}) /\ DOMAIN q = 1..(l + m) /\ \A i \in 1..(l + m) : q[i] = IF i <= l THEN waiting[i] ELSE tickets[i - l]
    BY <1>8, <1>9
  <2>3. waiting' = q
    BY <1>7
  <2> HIDE DEF l, q
  <2>4. \A i \in 1..l : i \in 1..(l + m) /\ i <= l /\ i \in Nat
    BY <1>6, <2>1
  <2>5. \A i \in 1..(l + m) : i \notin 1..l => i - l \in 1..m /\ ~(i <= l)
    BY <1>6, <2>1
  <2>6. \A k \in 1..m : l + k \in 1..(l + m) /\ ~(l + k <= l) /\ (l + k) - l = k
    BY <1>6, <2>1
  <2> QED
    BY <1>8, <2>1, <2>2, <2>3, <2>4, <2>5, <2>6 DEF l
<1>11. resolver' \in {"idle", "posted", "running"} /\ (resolver' = "idle" => waiting' = <<>>)
  <2>1. resolver \in {"idle", "posted", "running"} /\ (resolver = "idle" => waiting = <<>>)
    BY DEF FolderInv, FolderTyped, ParsesKnown
  <2>2. CASE tickets = <<>>
    <3>1. waiting' = waiting /\ resolver' = resolver
      BY <1>7, <1>9, <2>2
    <3> QED
      BY <2>1, <3>1
  <2>3. CASE tickets # <<>>
    BY <1>7, <2>1, <2>3
  <2> QED
    BY <2>2, <2>3
<1>12. FolderTyped'
  BY <1>1, <1>2, <1>3, <1>5, <1>6, <1>10, <1>11 DEF FolderTyped
<1>13. \A j \in DOMAIN rows' : rows'[j] \in Row /\ rows'[j].id \in Ids /\ rows'[j].date \in Nat \ {0}
  <2>1. \A j \in DOMAIN rows' : rows'[j] \in Row
    BY <1>5
  <2> QED
    BY <2>1 DEF Row
<1>14. DatesArePast'
  BY <1>1, <1>5, <1>13 DEF FolderInv, DatesArePast
<1>15. IndexFinds'
  <2>1. index' = IndexOf(rows')
    BY <1>4
  <2> DEFINE r == rows'
  <2>2. r \in Seq(Row) /\ \A i, j \in DOMAIN r : r[i].id = r[j].id => i = j
    BY <1>5
  <2> HIDE DEF r
  <2>3. /\ IndexOf(r) \in [DOMAIN IndexOf(r) -> Nat \ {0}] /\ DOMAIN IndexOf(r) \subseteq Ids
        /\ \A i \in DOMAIN r : r[i].id \in DOMAIN IndexOf(r) /\ IndexOf(r)[r[i].id] = i
        /\ \A id \in DOMAIN IndexOf(r) : \E i \in DOMAIN r : r[i].id = id
    BY <2>2, IndexOfIs
  <2> QED
    BY <2>1, <2>3 DEF IndexFinds, Finds, r
<1>16. RowsHaveParses'
  BY <1>5 DEF RowsHaveParses
(* What was asked for before has an older ticket.                           *)
<1>17. /\ \A i \in DOMAIN waiting : waiting[i] \in 1..n /\ waiting[i] <= n
       /\ \A i \in DOMAIN posted : posted[i].ticket <= n /\ posted[i].ticket \in Nat
                                   /\ (posted[i].kind \in OfParse => posted[i].ticket \in 1..n)
  <2>1. \A i \in DOMAIN waiting : waiting[i] \in 1..n
    BY <1>6 DEF FolderInv, ParsesKnown
  <2>2. \A i \in DOMAIN posted : posted[i] \in Signals
    BY <1>3 DEF FolderTyped
  <2>3. ASSUME NEW i \in DOMAIN posted
        PROVE  posted[i].ticket \in Nat /\ (posted[i].ticket \in 1..n \/ posted[i].ticket = 0)
               /\ (posted[i].kind \in OfParse => posted[i].ticket \in 1..n)
    <3>1. posted[i].kind \in OfParse \cup OfUpdate /\ posted[i].ticket \in Nat
      BY <2>2 DEF Signals
    <3>2. posted[i].kind \in OfUpdate => posted[i].ticket = 0
      BY DEF FolderInv, UpdateOrder
    <3>3. posted[i].kind \in OfParse => posted[i].ticket \in 1..n
      BY <1>6 DEF FolderInv, ParsesKnown
    <3> QED
      BY <3>1, <3>2, <3>3
  <2> QED
    BY <1>6, <2>1, <2>3
<1>18. InOrder'
  <2>1. ASSUME NEW i \in DOMAIN waiting', NEW j \in DOMAIN waiting', i < j PROVE waiting'[i] < waiting'[j]
    <3>1. CASE j \in DOMAIN waiting
      <4>1. i \in DOMAIN waiting
        BY <1>10, <2>1, <3>1
      <4> QED
        BY <1>10, <2>1, <3>1, <4>1 DEF FolderInv, InOrder
    <3>2. CASE i \in DOMAIN waiting /\ j \notin DOMAIN waiting
      BY <1>6, <1>10, <1>17, <3>2
    <3>3. CASE i \notin DOMAIN waiting /\ j \notin DOMAIN waiting
      BY <1>6, <1>10, <2>1, <3>3
    <3>4. CASE i \notin DOMAIN waiting /\ j \in DOMAIN waiting
      BY <1>10, <2>1, <3>4
    <3> QED
      BY <3>1, <3>2, <3>3, <3>4
  <2>2. ASSUME NEW i \in DOMAIN posted', NEW j \in DOMAIN waiting' PROVE posted'[i].ticket < waiting'[j]
    <3>1. i + 1 \in DOMAIN posted /\ posted'[i] = posted[i + 1]
      BY <1>2
    <3>2. CASE j \in DOMAIN waiting
      BY <1>10, <3>1, <3>2 DEF FolderInv, InOrder
    <3>3. CASE j \notin DOMAIN waiting
      <4> DEFINE k == j - Len(waiting)
      <4>1. k \in 1..m /\ waiting'[j] = n + k
        BY <1>10, <3>3
      <4>2. posted'[i].ticket <= n /\ posted'[i].ticket \in Nat
        BY <1>17, <3>1
      <4>3. n \in Nat
        BY <1>6
      <4> HIDE DEF k
      <4> QED
        BY <4>1, <4>2, <4>3
    <3> QED
      BY <3>2, <3>3
  <2> QED
    BY <2>1, <2>2 DEF InOrder
<1>19. ParsesInOrder' /\ ResultsInOrder' /\ UpdateOrder'
  BY <1>1, OrderServed
<1>20. ParsesKnown'
  <2>1. ASSUME NEW i \in DOMAIN waiting' PROVE waiting'[i] \in DOMAIN parses' /\ parses'[waiting'[i]].active
    <3>1. CASE i \in DOMAIN waiting
      BY <1>6, <1>10, <1>17, <3>1 DEF FolderInv, ParsesKnown
    <3>2. CASE i \notin DOMAIN waiting
      <4> DEFINE k == i - Len(waiting)
      <4>1. k \in 1..m /\ waiting'[i] = n + k
        BY <1>10, <3>2
      <4> HIDE DEF k
      <4>2. n + k \in DOMAIN parses' \ DOMAIN parses
        BY <1>6, <4>1
      <4>3. \A t \in DOMAIN parses' \ DOMAIN parses : parses'[t].active
        BY <1>5 DEF ParsesGoOn
      <4> QED
        BY <4>1, <4>2, <4>3
    <3> QED
      BY <3>1, <3>2
  <2>2. ASSUME NEW i \in DOMAIN posted'
        PROVE  /\ posted'[i].kind \in OfParse => posted'[i].ticket \in DOMAIN parses'
               /\ posted'[i].kind \in OfParse \ {"over"} => parses'[posted'[i].ticket].active
               /\ posted'[i].kind = "refused" => ~mods /\ parses'[posted'[i].ticket].read \in Refused \cup {0}
    <3>1. i + 1 \in DOMAIN posted /\ posted'[i] = posted[i + 1]
      BY <1>2
    <3>2. posted[i + 1].kind = "refused" => posted[i + 1].kind \in OfParse
      BY DEF OfParse, Results
    <3> QED
      BY <1>6, <1>17, <3>1, <3>2 DEF FolderInv, ParsesKnown
  <2> QED
    BY <1>1, <1>11, <2>1, <2>2 DEF ParsesKnown
(* A row that was there is as far as it was; a new one is to be read.       *)
<1>21. \A t : Unread(t) => Unread(t)'
  BY <1>2, <1>10 DEF Unread
<1>22. \A t \in 1..n : Unread(t)' => Unread(t)
  <2> SUFFICES ASSUME NEW t \in 1..n, NEW i \in DOMAIN waiting', waiting'[i] = t PROVE Unread(t)
    BY <1>2 DEF Unread
  <2>1. i \in DOMAIN waiting
    BY <1>6, <1>10
  <2> QED
    BY <1>10, <2>1 DEF Unread
<1>23. ASSUME NEW j \in DOMAIN rows', NEW t, t = rows'[j].ticket
       PROVE  \/ Unread(t)'
              \/ \E k \in DOMAIN rows : rows'[j] = rows[k] /\ HasParse(rows[k], parses) /\ t \in 1..n
  <2>1. t \in 1..(n + m)
    BY <1>5, <1>6, <1>23 DEF HasParse
  <2>2. CASE t > n
    <3>1. t - n \in 1..m /\ n + (t - n) = t
      BY <1>6, <2>1, <2>2
    <3>2. \E i \in DOMAIN waiting' : waiting'[i] = t
      BY <1>10, <3>1
    <3> QED
      BY <3>2 DEF Unread
  <2>3. CASE ~(t > n)
    <3>1. PICK k \in DOMAIN rows : rows'[j] = rows[k]
      BY <1>5, <1>23, <2>3
    <3>2. HasParse(rows[k], parses)
      BY <1>3 DEF RowsHaveParses
    <3> QED
      BY <1>6, <1>23, <3>1, <3>2 DEF HasParse
  <2> QED
    BY <2>2, <2>3
<1>24. DetailsFollow'
  <2> SUFFICES ASSUME NEW j \in DOMAIN rows', NEW t, t = rows'[j].ticket, ~Unread(t)'
               PROVE  \/ mods /\ Pending("parsed", t)'
                      \/ /\ mods /\ rows'[j].details = parses'[t].read
                         /\ \A u \in DOMAIN parses' :
                               parses'[u].id = rows'[j].id => ~Unread(u)' /\ ~Pending("parsed", u)'
                      \/ /\ ~mods /\ rows'[j].details = parses'[t].read
                         /\ parses'[t].read \in Refused \cup {0} => Pending("refused", t)'
    BY <1>1 DEF DetailsFollow
  <2>1. PICK k \in DOMAIN rows : rows'[j] = rows[k] /\ HasParse(rows[k], parses) /\ t \in 1..n
    BY <1>23
  <2>2. ~Unread(t)
    BY <1>21
  <2>3. \/ mods /\ Pending("parsed", t)
        \/ /\ mods /\ rows[k].details = parses[t].read
           /\ \A u \in DOMAIN parses : parses[u].id = rows[k].id => ~Unread(u) /\ ~Pending("parsed", u)
        \/ /\ ~mods /\ rows[k].details = parses[t].read
           /\ parses[t].read \in Refused \cup {0} => Pending("refused", t)
    BY <2>1, <2>2 DEF FolderInv, DetailsFollow
  <2>4. ASSUME NEW u \in DOMAIN parses', parses'[u].id = rows'[j].id PROVE u \in 1..n /\ parses[u].id = rows[k].id
    <3>1. u <= t
      BY <1>5, <2>4 DEF HasParse
    <3>2. u \in 1..n
      BY <1>6, <2>1, <3>1
    <3> QED
      BY <1>6, <2>1, <2>4, <3>2
  <2>5. parses'[t].read = parses[t].read
    BY <1>6, <2>1
  <2>6. ASSUME \A u \in DOMAIN parses : parses[u].id = rows[k].id => ~Unread(u) /\ ~Pending("parsed", u)
        PROVE  \A u \in DOMAIN parses' : parses'[u].id = rows'[j].id => ~Unread(u)' /\ ~Pending("parsed", u)'
    <3> SUFFICES ASSUME NEW u \in DOMAIN parses', parses'[u].id = rows'[j].id
                 PROVE  ~Unread(u)' /\ ~Pending("parsed", u)'
      OBVIOUS
    <3>1. u \in 1..n /\ ~Unread(u) /\ ~Pending("parsed", u)
      BY <1>6, <2>4, <2>6
    <3> QED
      BY <1>2, <1>22, <3>1
  <2> QED
    BY <1>2, <2>1, <2>3, <2>5, <2>6
<1>25. ReadIsListed'
  <2> SUFFICES ASSUME NEW j \in DOMAIN rows', NEW t, t = rows'[j].ticket, ~Unread(t)',
                      disk[rows'[j].id] = rows'[j].date
               PROVE  parses'[t].read = rows'[j].date
    BY <1>1 DEF ReadIsListed
  <2>1. PICK k \in DOMAIN rows : rows'[j] = rows[k] /\ HasParse(rows[k], parses) /\ t \in 1..n
    BY <1>23
  <2>2. ~Unread(t)
    BY <1>21
  <2>3. parses[t].read = rows[k].date
    BY <2>1, <2>2 DEF FolderInv, ReadIsListed
  <2> QED
    BY <1>6, <2>1, <2>3
<1>26. RefusalIsOfRow'
  <2> SUFFICES ASSUME NEW i \in DOMAIN posted', NEW j \in DOMAIN rows', posted'[i].kind = "refused",
                      parses'[posted'[i].ticket].id = rows'[j].id, disk[rows'[j].id] = rows'[j].date
               PROVE  parses'[posted'[i].ticket].read = rows'[j].date
    BY <1>1 DEF RefusalIsOfRow
  <2> DEFINE u == posted[i + 1].ticket
  <2>1. i + 1 \in DOMAIN posted /\ 1 < i + 1 /\ posted'[i] = posted[i + 1] /\ u \in 1..n
    BY <1>2, <1>17 DEF OfParse, Results
  <2>2. parses[u].id = rows'[j].id /\ parses'[u].read = parses[u].read
    BY <1>6, <2>1
  <2>3. scan[parses[u].id] = rows'[j].date /\ rows'[j].date # 0
    BY <1>5, <1>13, <2>2
  <2> QED
    BY <1>2, <2>1, <2>2, <2>3 DEF FolderInv, RefusalIsOfScan
<1>27. RefusalIsOfScan'
  <2>1. \A i \in DOMAIN posted' : posted'[i].kind # "succeeded"
    BY <1>2 DEF FolderInv, UpdateOrder, OfUpdate
  <2> QED
    BY <2>1 DEF RefusalIsOfScan
<1>28. UpdateComes'
  <2>1. ASSUME scan = disk PROVE ListIsDisk'
    BY <1>1, <1>5, <2>1 DEF ListIsDisk, Found
  <2> QED
    BY <1>1, <2>1 DEF FolderInv, UpdateComes
<1> QED
  BY <1>12, <1>14, <1>15, <1>16, <1>18, <1>19, <1>20, <1>24, <1>25, <1>26, <1>27, <1>28 DEF FolderInv

LEMMA FolderInitHolds == FolderInit => FolderInv
<1> SUFFICES ASSUME FolderInit PROVE FolderInv
  OBVIOUS
<1>1. /\ rows = <<>> /\ parses = <<>> /\ waiting = <<>> /\ posted = <<>> /\ index = IndexOf(rows)
      /\ changes = 1 /\ disk \in [Ids -> {0, 1}] /\ scan = [id \in Ids |-> 0] /\ mods \in BOOLEAN
      /\ task = "none" /\ resolver = "idle" /\ asked = FALSE /\ scheduled = FALSE
  BY DEF FolderInit
<1>2. DOMAIN rows = {} /\ DOMAIN waiting = {} /\ DOMAIN posted = {} /\ rows \in Seq(Row) /\ parses \in Seq(ParseTask)
      /\ waiting \in Seq(Nat \ {0}) /\ posted \in Seq(Signals)
  BY <1>1
<1>3. FolderTyped /\ DatesArePast
  <2>1. disk \in [Ids -> Nat] /\ scan \in [Ids -> Nat] /\ \A id \in Ids : disk[id] <= changes /\ scan[id] <= changes
    BY <1>1
  <2>2. DatesArePast
    BY <1>2, <2>1 DEF DatesArePast
  <2>3. /\ mods \in BOOLEAN /\ asked \in BOOLEAN /\ scheduled \in BOOLEAN
        /\ task \in {"none", "posted", "scanned", "done"} /\ resolver \in {"idle", "posted", "running"}
    BY ONLY <1>1
  <2>4. changes \in Nat \ {0}
    BY <1>1
  <2> QED
    BY ONLY <1>2, <2>1, <2>2, <2>3, <2>4 DEF FolderTyped
<1>4. IndexFinds
  <2>1. /\ IndexOf(rows) \in [DOMAIN IndexOf(rows) -> Nat \ {0}] /\ DOMAIN IndexOf(rows) \subseteq Ids
        /\ \A id \in DOMAIN IndexOf(rows) : \E i \in DOMAIN rows : rows[i].id = id
    BY <1>2, IndexOfIs
  <2> QED
    BY <1>1, <1>2, <2>1 DEF IndexFinds, Finds
<1>5. RowsHaveParses /\ InOrder /\ ParsesInOrder /\ ResultsInOrder /\ ParsesKnown
  BY <1>1, <1>2 DEF RowsHaveParses, InOrder, ParsesInOrder, ResultsInOrder, ParsesKnown
<1>6. DetailsFollow /\ ReadIsListed /\ RefusalIsOfRow /\ RefusalIsOfScan
  BY <1>2 DEF DetailsFollow, ReadIsListed, RefusalIsOfRow, RefusalIsOfScan
<1>7. UpdateComes /\ UpdateOrder
  BY <1>1, <1>2 DEF UpdateComes, UpdateOrder
<1> QED
  BY <1>3, <1>4, <1>5, <1>6, <1>7 DEF FolderInv

LEMMA FolderStepKeeps == FolderInv /\ [FolderNext]_folderVars => FolderInv'
<1> SUFFICES ASSUME FolderInv, [FolderNext]_folderVars PROVE FolderInv'
  OBVIOUS
<1>1. CASE UNCHANGED folderVars
  <2>1. UNCHANGED <<mods, disk, changes, requests, asked, task, scheduled, scan, rows, index, parses,
                    waiting, resolver, posted>>
    BY <1>1 DEF folderVars, diskVars, updateVars, listVars, resolverVars
  <2>2. OfQueue' /\ OfFile'
    BY <2>1, ListStays, FileStays DEF FolderInv, ParsesKnown
  <2>3. FolderTyped' /\ DatesArePast'
    BY <2>1 DEF FolderInv, FolderTyped, DatesArePast
  <2>4. UpdateComes' /\ UpdateOrder'
    BY <2>1 DEF FolderInv, UpdateComes, UpdateOrder, ListIsDisk, Pending
  <2> QED
    BY <2>2, <2>3, <2>4 DEF FolderInv, OfQueue, OfFile
<1> QED
  BY <1>1, UpdateKeeps, ChangeFileKeeps, UninstallResourceKeeps, ScanFolderKeeps, ScanReportsKeeps,
     OnUpdateSucceededKeeps, UpdateFinishedKeeps, ResolverKeeps, ResolverPostsKeeps, ParseKeeps,
     OnParseSucceededKeeps, OnParseFailedKeeps, ParseFinishedKeeps DEF FolderNext

(* At rest nothing is to be read or heard, and the last scan is the folder. *)
LEMMA FolderInvLists == FolderInv => FolderIsListed
<1> SUFFICES ASSUME FolderInv, FolderAtRest PROVE FolderIsListed
  BY DEF FolderIsListed, DetailsAreCurrent, PacksAreListed
<1>1. /\ asked /\ task = "none" /\ posted = <<>> /\ waiting = <<>>
  BY DEF FolderAtRest, FolderInv, ParsesKnown
<1>2. \A t : ~Unread(t) /\ \A k : ~Pending(k, t)
  BY <1>1 DEF Unread, Pending
<1>3. ListIsDisk
  BY <1>1, <1>2 DEF FolderInv, UpdateComes, UpdateOrder
<1>4. ASSUME NEW i \in DOMAIN rows
      PROVE  /\ rows[i].date = disk[rows[i].id] /\ rows[i].details = rows[i].date
             /\ rows[i].id \in Ids /\ rows[i].date # 0
             /\ ~mods => rows[i].date \notin Refused
  <2>1. rows[i] \in Row
    BY DEF FolderInv, FolderTyped
  <2>2. rows[i].date = disk[rows[i].id] /\ parses[rows[i].ticket].read = rows[i].date
    BY <1>2, <1>3 DEF FolderInv, ListIsDisk, ReadIsListed
  <2>3. rows[i].details = parses[rows[i].ticket].read
        /\ (~mods => parses[rows[i].ticket].read \notin Refused \cup {0})
    BY <1>2 DEF FolderInv, DetailsFollow
  <2> QED
    BY <2>1, <2>2, <2>3 DEF Row
<1>5. DetailsAreCurrent
  BY <1>4 DEF DetailsAreCurrent
<1>6. PacksAreListed
  <2> SUFFICES ASSUME ~mods
               PROVE  /\ {rows[i].id : i \in DOMAIN rows} = {id \in Found(disk) : disk[id] \notin Refused}
                      /\ \A i, j \in DOMAIN rows : rows[i].id = rows[j].id => i = j
    BY DEF PacksAreListed
  <2>1. \A i \in DOMAIN rows : rows[i].id \in Found(disk) /\ disk[rows[i].id] \notin Refused
    BY <1>4 DEF Found
  <2>2. \A id \in Found(disk) : disk[id] \notin Refused => \E i \in DOMAIN rows : rows[i].id = id
    BY <1>3 DEF ListIsDisk
  <2>3. \A i, j \in DOMAIN rows : rows[i].id = rows[j].id => i = j
    BY DEF FolderInv, IndexFinds, Finds
  <2> QED
    BY <2>1, <2>2, <2>3
<1> QED
  BY <1>5, <1>6 DEF FolderIsListed

(* When nothing is under way and the folder is as it was when an update was *)
(* last asked for, each listed resource shows what its file says, and the   *)
(* list of packs is the folder (ResourceFolderModel, ModFolderModel): of    *)
(* any number of files, changes and requests, in any order of the scans,    *)
(* the parse tasks and what they post.                                      *)
THEOREM FoldersAreListed == FolderSpec => []FolderIsListed
<1>1. FolderInit => FolderInv
  BY FolderInitHolds
<1>2. FolderInv /\ [FolderNext]_folderVars => FolderInv'
  BY FolderStepKeeps
<1>3. FolderInv => FolderIsListed
  BY FolderInvLists
<1> QED
  BY <1>1, <1>2, <1>3, PTL DEF FolderSpec
=============================================================================
