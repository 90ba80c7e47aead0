------------------------------ MODULE JavaSetup ------------------------------
(***************************************************************************)
(* The Java of one instance, launch after launch: AutoInstallJava finds or *)
(* downloads one, CheckJava runs it unless its signature is known, and     *)
(* VerifyJavaInstall compares the stored version with what the game needs. *)
(* An installation that was cancelled may go on behind the launch that     *)
(* began it, until the next launch destroys it; the program may die.       *)
(***************************************************************************)
EXTENDS Naturals

CONSTANTS
    Majors,       \* the number of compatible major versions
    MaxLaunches,  \* bound: launches
    MaxCancels,   \* bound: cancellations and deaths of the program
    MaxChanges,   \* bound: changes of the machine's Javas and of the setting
    MaxReplaced   \* bound: those of the machine's Javas among them

VARIABLES
    setup,     \* settings: what may be automatic, how the runtime comes, ...
    machine,   \* the Javas of the machine
    setting,   \* the global setting JavaPath
    runtime,   \* the files of the launcher's own Java
    override,  \* the instance's JavaPath, or "none" without OverrideJavaLocation
    stored,    \* JavaSignature and JavaVersion: FALSE the global ones, TRUE the instance's own
    torn,      \* history: the sides whose version was saved without its signature
    step,      \* the step of the launch
    work,      \* m_current_task, whether or not its step still waits for it
    major,     \* m_majorJavaVersionIndex, from 1
    found,     \* what the probes of the list found to be compatible
    probe,     \* m_JavaChecker: the signature computed for it and what it runs
    disturbed, \* history: an installation was cancelled or the program died in it
    counts     \* the bounded events so far

progress == <<step, work, major, found, probe>>
javaVars == <<setup, machine, setting, runtime, override, stored, torn, progress, disturbed, counts>>

(* Two places of the machine, and the place of the launcher's own Java. A   *)
(* Java that is "mute" says nothing the checker understands; "broken" lacks *)
(* libraries.                                                               *)
Places == {"one", "two"}
Kinds == {"missing", "fits", "old", "mute"}
Java == {"bin", "lib"}
None == [path |-> "none", stamp |-> 0, version |-> "none"]
Idle == [path |-> "none", stamp |-> 0, kind |-> "none"]

(* "doomed": an extraction that has been told to stop.                      *)
Installing == {"files", "extract", "doomed"}

JavaInit ==
    /\ setup \in [java : {"off", "detect", "download"}, delivery : {"manifest", "archive"},
                  ignore : BOOLEAN, checker : BOOLEAN]
    /\ machine \in [Places -> [kind : Kinds, stamp : {0}]]
    /\ setting = "one" /\ override = "none"
    /\ runtime = {}
    /\ stored = [own \in BOOLEAN |-> None] /\ torn = {}
    /\ step = "rest" /\ work = "none" /\ major = 1 /\ found = {} /\ probe = Idle
    /\ disturbed = FALSE
    /\ counts = [launches |-> 0, cancels |-> 0, changes |-> 0, replaced |-> 0]

Count(c) == counts' = [counts EXCEPT ![c] = @ + 1]

Own == override # "none"
JavaPath == IF Own THEN override ELSE setting

(* The side from which a PassthroughSetting reads: the instance's own, once *)
(* it has a value.  Of the four settings saved before the signature the     *)
(* version stands for all.                                                  *)
VersionSide == Own /\ stored[TRUE].version # "none"
SignatureSide == Own /\ stored[TRUE].path # "none"
StoredVersion == stored[VersionSide].version

Kind(path) ==
    IF path \in Places THEN machine[path].kind
    ELSE IF "bin" \notin runtime THEN "missing"
    ELSE IF "lib" \in runtime THEN "fits" ELSE "broken"
Stamp(path) == IF path \in Places THEN machine[path].stamp ELSE 0
Version(kind) == IF kind \in {"fits", "old"} THEN kind ELSE "none"

-----------------------------------------------------------------------------
(* AutoInstallJava.  Its results are heard by the step that waits, and what *)
(* it does after the step has ended only changes files and settings.        *)

Waits == step = "auto"
AutoEnds(next) == IF Waits THEN step' = next ELSE UNCHANGED step

(* emitSucceeded, with the Java of the settings. *)
Passes == AutoEnds("check") /\ work' = "none" /\ UNCHANGED <<override, runtime, major>>

(* emitFailed: the launch ends. *)
Fails == AutoEnds("rest") /\ work' = "none" /\ UNCHANGED <<override, major>>

SetJavaPath(path) ==
    /\ override' = path
    /\ AutoEnds("check")
    /\ work' = "none"
    /\ UNCHANGED <<runtime, major>>

SetJavaPathFromPartial ==
    IF "bin" \in runtime THEN SetJavaPath("managed") ELSE Passes

Continues(task) == work' = task /\ UNCHANGED <<override, runtime, step, major>>

(* tryNextMajorJava and downloadJava, for the versions from m on: one whose *)
(* file is not loaded is loaded first, one without a runtime for this       *)
(* system is passed over.                                                   *)
TryNextMajorJava(m) ==
    \/ Passes
    \/ \E n \in m..Majors :
          /\ major' = n + 1
          /\ work' \in {"version", setup.delivery}
          /\ UNCHANGED <<override, runtime, step>>
    \/ m <= Majors /\ runtime' = {} /\ Fails

Chosen == Own /\ Kind(override) # "missing"

AutoInstallJava ==
    /\ Waits /\ work = "none"
    /\ \/ /\ setup.java = "off" \/ Chosen
          /\ Passes /\ UNCHANGED found
       \/ /\ setup.java = "detect" /\ ~Chosen
          /\ found' = {p \in Places \cup {"managed"} : Kind(p) = "fits"}
          /\ Continues("probes")
       \/ /\ setup.java = "download" /\ ~Chosen
          /\ IF "bin" \in runtime THEN SetJavaPath("managed") ELSE Continues("list")
          /\ UNCHANGED found
    /\ UNCHANGED <<setup, machine, setting, stored, torn, probe, disturbed, counts>>

-----------------------------------------------------------------------------
(* What it waits for *)

(* JavaListLoadTask: without the checker's jar its checkers never end.      *)
ProbesEnd ==
    /\ work = "probes" /\ setup.checker
    /\ IF found = {} THEN Passes ELSE \E path \in found : SetJavaPath(path)
    /\ found' = {}
    /\ UNCHANGED <<setup, machine, setting, stored, torn, probe, disturbed, counts>>

JustWorks == UNCHANGED <<setup, machine, setting, stored, torn, found, probe, disturbed, counts>>

ListLoads ==
    /\ work = "list"
    /\ TryNextMajorJava(major) \/ (Fails /\ UNCHANGED runtime)
    /\ JustWorks

VersionLoads ==
    /\ work = "version"
    /\ \/ Continues(setup.delivery)
       \/ runtime' = {} /\ Fails
       \/ TryNextMajorJava(major)
    /\ JustWorks

(* A ManifestDownloadTask that was cancelled announces nothing any more; an *)
(* ArchiveDownloadTask whose job went on does.                              *)
Heard == Waits \/ setup.delivery = "archive"

(* failed() of the download: deletePath, emitFailed; the tryNextMajorJava   *)
(* connected as well finds the step ended.                                  *)
InstallFails ==
    /\ IF Heard THEN runtime' = {} ELSE UNCHANGED runtime
    /\ Fails

(* The manifest of a runtime, or the archive with it, arrives. *)
RuntimeLoads ==
    /\ \/ work = "manifest" /\ (Continues("files") \/ InstallFails)
       \/ work = "archive" /\ (Continues("extract") \/ InstallFails)
    /\ JustWorks

FileArrives(file) ==
    /\ work \in Installing
    /\ file \notin runtime
    /\ runtime' = runtime \cup {file}
    /\ UNCHANGED <<override, step, work, major>>
    /\ JustWorks

InstallEnds ==
    /\ \/ work \in {"files", "extract"} /\ runtime = Java /\ Heard /\ SetJavaPathFromPartial
       \/ work \in {"files", "extract"} /\ runtime = Java /\ ~Heard /\ Passes
       \/ work \in {"files", "extract"} /\ InstallFails
       \/ work = "doomed" /\ runtime' = {} /\ Fails
    /\ JustWorks

-----------------------------------------------------------------------------
(* CheckJava and VerifyJavaInstall *)

(* The stored version is compared with the majors the game is made for. *)
VerifyJavaInstall(version) ==
    step' = IF version = "fits" \/ setup.ignore THEN "game" ELSE "rest"

SignatureMatches ==
    /\ stored[SignatureSide].path = JavaPath
    /\ stored[SignatureSide].stamp = Stamp(JavaPath)
    /\ StoredVersion # "none"

CheckJava ==
    /\ step = "check" /\ probe = Idle
    /\ IF Kind(JavaPath) = "missing" \/ ~setup.checker
       THEN step' = "rest" /\ UNCHANGED probe
       ELSE IF SignatureMatches
       THEN VerifyJavaInstall(StoredVersion) /\ UNCHANGED probe
       ELSE /\ probe' = [path |-> JavaPath, stamp |-> Stamp(JavaPath), kind |-> Kind(JavaPath)]
            /\ UNCHANGED step
    /\ UNCHANGED <<setup, machine, setting, runtime, override, stored, torn, work, major, found,
                   disturbed, counts>>

(* A setting that passes through is set on both sides, the instance's       *)
(* first, and each is saved at once.                                        *)
Sides == IF Own THEN BOOLEAN ELSE {FALSE}

Saved(versions, signatures) ==
    /\ stored' = [own \in BOOLEAN |->
          [path    |-> IF own \in signatures THEN probe.path ELSE stored[own].path,
           stamp   |-> IF own \in signatures THEN probe.stamp ELSE stored[own].stamp,
           version |-> IF own \in versions THEN Version(probe.kind) ELSE stored[own].version]]
    /\ torn' = (torn \cup versions) \ signatures

(* A Java that does not start, or is killed after 15 s, is an error; what a *)
(* mute one leaves is the version that was stored before.                   *)
CheckJavaFinished ==
    /\ probe # Idle
    /\ probe' = Idle
    /\ \/ step' = "rest" /\ UNCHANGED <<stored, torn>>
       \/ probe.kind = "mute" /\ VerifyJavaInstall(StoredVersion) /\ UNCHANGED <<stored, torn>>
       \/ /\ probe.kind \in {"fits", "old"}
          /\ Saved(Sides, Sides)
          /\ VerifyJavaInstall(Version(probe.kind))
    /\ UNCHANGED <<setup, machine, setting, runtime, override, work, major, found,
                   disturbed, counts>>

-----------------------------------------------------------------------------
(* The host, the machine *)

(* A new LaunchTask destroys the steps of the earlier one with their tasks. *)
JavaLaunch ==
    /\ step = "rest" /\ counts.launches < MaxLaunches
    /\ step' = "auto" /\ work' = "none" /\ major' = 1 /\ found' = {}
    /\ disturbed' = (disturbed \/ work \in Installing)
    /\ Count("launches")
    /\ UNCHANGED <<setup, machine, setting, runtime, override, stored, torn, probe>>

(* AutoInstallJava::abort ends the step whatever becomes of its task: one   *)
(* with a job that has nothing active goes on (a version that was not       *)
(* loaded is then used for all that: the program dies, as in Dies), and so  *)
(* does an extraction, until it notices, or for good when it is over.       *)
Cancel ==
    /\ Waits /\ work \in {"list", "version", "manifest", "archive", "files", "extract"}
    /\ counts.cancels < MaxCancels
    /\ step' = "rest"
    /\ \/ work # "extract" /\ work' = "none"
       \/ work \in {"manifest", "archive", "files"} /\ work' = work
       \/ work = "extract" /\ work' = "doomed"
       \/ work = "extract" /\ runtime = Java /\ work' = work
    /\ runtime' = IF work \in {"manifest", "files"} \/ (work = "archive" /\ work' = "none")
                  THEN {} ELSE runtime
    /\ disturbed' = (disturbed \/ work' # "none")
    /\ Count("cancels")
    /\ UNCHANGED <<setup, machine, setting, override, stored, torn, major, found, probe>>

Death ==
    /\ counts.cancels < MaxCancels
    /\ step' = "rest" /\ work' = "none" /\ found' = {} /\ probe' = Idle
    /\ disturbed' = (disturbed \/ work \in Installing)
    /\ Count("cancels")
    /\ UNCHANGED <<setup, machine, setting, runtime, override, major>>

Dies ==
    /\ step # "rest" \/ work # "none"
    /\ Death
    /\ UNCHANGED <<stored, torn>>

(* The program dies while the answer of a probe is saved: the version has   *)
(* got to the instance or to both sides, the signature not to all of them.  *)
DiesSaving ==
    /\ probe.kind \in {"fits", "old"}
    /\ \/ Own /\ Saved({TRUE}, {})
       \/ Saved(Sides, {})
       \/ Own /\ Saved(Sides, {TRUE})
    /\ Death

JavaGameEnds ==
    /\ step = "game"
    /\ step' = "rest"
    /\ UNCHANGED <<setup, machine, setting, runtime, override, stored, torn, work, major, found, probe,
                   disturbed, counts>>

(* A Java of the machine comes, goes or is replaced; the host changes the   *)
(* setting.                                                                 *)
Change ==
    /\ counts.changes < MaxChanges
    /\ \/ /\ counts.replaced < MaxReplaced
          /\ \E place \in Places, kind \in Kinds :
                machine' = [machine EXCEPT ![place] = [kind |-> kind, stamp |-> @.stamp + 1]]
          /\ counts' = [counts EXCEPT !.changes = @ + 1, !.replaced = @ + 1]
          /\ UNCHANGED setting
       \/ /\ setting' \in Places \ {setting}
          /\ Count("changes")
          /\ UNCHANGED machine
    /\ UNCHANGED <<setup, runtime, override, stored, torn, progress, disturbed>>

Proceed ==
    \/ AutoInstallJava \/ ProbesEnd \/ ListLoads \/ VersionLoads
    \/ RuntimeLoads \/ InstallEnds
    \/ CheckJava \/ CheckJavaFinished

JavaNext ==
    \/ JavaLaunch \/ Cancel \/ Dies \/ DiesSaving \/ JavaGameEnds \/ Change
    \/ Proceed
    \/ \E file \in Java : FileArrives(file)

(* Downloads and probes end (a checker is killed after 15 s).               *)
JavaSpec == JavaInit /\ [][JavaNext]_javaVars /\ WF_javaVars(Proceed)

-----------------------------------------------------------------------------
(* A Java that CheckJava accepts by its signature has the version that is   *)
(* stored with it, whichever Javas were replaced, chosen or probed since -  *)
(* unless the program died while it saved that version, whose signature is  *)
(* then the one of an earlier Java; the next answer that is saved as a      *)
(* whole mends it.  And the launcher's own Java is whole as soon as nobody  *)
(* installs it, unless the program died or a cancelled installation went    *)
(* on.                                                                      *)
JavaIsKnown ==
    /\ step = "check" /\ SignatureMatches /\ Kind(JavaPath) \in Kinds =>
           StoredVersion = Version(Kind(JavaPath)) \/ VersionSide \in torn
    /\ "bin" \in runtime /\ "lib" \notin runtime => work \in Installing \/ disturbed

(* The three steps end, unless the checker is missing.                      *)
JavaStepsEnd ==
    (step \in {"auto", "check"} /\ (setup.checker \/ setup.java # "detect"))
        ~> step \in {"rest", "game"}
=============================================================================
