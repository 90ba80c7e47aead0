# Verification of AuraCore in TLA+

TLA+ models of the parts of AuraCore whose correctness depends on the order of events: tasks and task pools, network jobs,
requests and their cache, the registry of tasks behind the C interface, the launch of an instance with its account, its Java and
its files, the list of instances, the resolution of components, the import of packs, mod folders, logins and logs. TLC checks
them on small instances; TLAPS proves all but a few of the safety properties they have, and the refinements, for every size.

AuraCore is a headless C++/Qt launcher core. `launcher/` is the core (about 64,000 lines), `corebackend/` a C interface over
it (`Backend.cpp`, `backend.h`), `libraries/` vendored code. With few exceptions everything runs on one thread: a Qt event
loop delivers queued calls, timers, network replies and process signals one at a time, and a handler runs to its end unless it
starts a *nested* event loop. So the hard behaviours are not data races but *orders*: a queued call that is overtaken by
`abort()`, a signal that arrives after the object has concluded, a handler that re-enters another through a signal, a loop that
runs inside a handler, a file that an earlier, interrupted run left behind.

Conventions. An action of a model is one handler, with everything it calls synchronously. Calls queued on an object are a
sequence, served in order. Lines quoted below are of the files under `src/`. A definition called "Mutated form of X" is a
plausible error in X; it is used only to confirm that the properties notice the error.

- [1 Inventory](#1-inventory) · [2 Plan](#2-plan) · [3 The models](#3-the-models) · [4 Runs and bounds](#4-runs-and-bounds)
  · [5 Fairness](#5-fairness) · [6 Proofs](#6-proofs) · [7 Divergences](#7-divergences) · [8 Not modelled](#8-not-modelled)

## 1 Inventory

### Components

| Component | Module | State | Operations | What is hard |
|---|---|---|---|---|
| `Task`, `ConcurrentTask` | `ConcurrentTask` | `m_queue`, `m_doing`, `m_done`, `m_failed`, `m_succeeded` | `addTask`, `start`, wakeups, results of children, `abort`, `clear` | every completion must post exactly the wakeup that keeps the pool moving; abort with starts in flight |
| `SequentialTask`, `MultipleOptionsTask` | of the same names | inherited, one slot | override one hook each | their conclusions bypass the tests of the pool |
| `NetJob` | `NetJob` | `m_try`, `m_manual_try` on top | automatic and manual retries, `abort` | retries begin inside the pool's wakeup and inside `emitFailed` |
| `Net::Request`, `FileSink` | `Request` | state, reply, retry timer, counters, temporary file | `executeTask`, five reply handlers, `handleAutoRetry`, `abort` | redirects, 429 retries, abort and errors race; nine places emit terminal signals by hand |
| `HttpMetaCache`, `MetaCacheSink` | `MetaCache` | entries, index file, delayed save | resolve, update, evict, save | a crash between the commit of a file and the save of the index; a `304` for a file that was changed |
| `Meta::BaseEntity` | `BaseEntity` | load status, hashes, shared load task | load, abort, merge of the parent | which hash is compared with which file, and when |
| Task registry (`Backend.cpp`) | `TaskRegistry` | `m_tasks`, `m_nextTaskId`, nested loops | begin, poll, wait, cancel, `runTaskSync`, pruning | nested loops, erased records, cancellation at any moment |
| Launch chain (`CoreApplication`, `LaunchController`, `LaunchTask`, steps, `LoggedProcess`) | `Launch` | `m_controllers`, `m_launchProcess`, step, process, claimed account | `launch`, `kill`, `abort`, step and process handlers | a stop at any moment; steps nested in loops; two launches of one instance |
| `AccountList`, `MinecraftAccount`, `AuthFlow` | `Accounts`, `DeviceLogin`, `AccountSession` | refresh queue, timers, shared flows; code, expiry and poll of a login; tokens and their file | rounds, conclusions, add, remove, claim; polls, expiry, cancel; steps of a refresh, saves | only the list starts flows, launches wait for them in nested loops; expiry races a poll; a refresh that breaks off half-way |
| Java of an instance (`AutoInstallJava`, `CheckJava`, `VerifyJavaInstall`, `java/`) | `JavaSetup` | settings of two layers, runtime on disk, probes | the steps of launch after launch | what an interrupted installation leaves; a check remembered by signature |
| Files of an instance (`update/`, `AssetsUtils`, `Library`) | `UpdateSteps` | libraries, index, objects, what is laid out | the steps of launch after launch, online and offline | what a failed launch leaves for the next |
| `PackProfile`, `Component`, `ComponentUpdateTask`, `MinecraftLoadAndCheck` | `Components` | components, file, delayed save, update slots | load, resolve, remote loads, reload, save | rounds of removal, injection, change and loading until nothing is left |
| `InstanceList`, `InstanceStaging` | `InstanceList`, `InstanceStaging` | instances, groups in three places, trash, commits | groups, trash and undo, delete, rename, commit with retries | groups are saved before files are deleted; a reload inside a commit |
| Import of packs (`InstanceImportTask`, `modplatform/`) | `PackImport` | the stage, its job, files | 20 stages, their ends, their cancellation | work that goes on after the import has ended |
| `ResourceFolderModel`, `ModFolderModel` | `ResourceFolder` | rows, index, scans, parses | update, apply, resolve, results | results for rows that are gone; coalesced scans |
| `LogModel` | `LogModel` | ring buffer | append, clear, suspend | wrap-around |
| `LoggedProcess`, `LogParser` | `GameOutput` | unfinished line, buffer and unfinished event of each stream | read a piece, parse, append | lines and events cut anywhere, two streams |

What makes them correct, in short: a pool loses no task, runs none twice, never sleeps while work is left and succeeds only if
every child did; a request announces its end once, and its target is the body of one reply; what the cache calls fresh is what is
on disk; a loaded entity has the hash its parent announces; the registry keeps what its host may still ask for and every call
returns; an instance that may be launched is at rest, a stop reaches the game, every launch ends; accounts are refreshed one at
a time and not under a game; the Java that is run unchecked was checked; a game starts with all its files; a resolved list
meets its requirements and is what the file says; groups agree with instances, undo restores; an import that succeeds has its
files; a list of mods is the folder; a log is the last lines that came, and holds everything a game
wrote, once and in order.

### Interactions

Launch → accounts (shared flows, nested loops), Java and update steps (wrapped tasks), components (update before launch);
update steps, imports and metadata → `NetJob` → `ConcurrentTask` → `Request` → cache. `ResourceFolder` and imports run pools. The
registry owns whatever the host started and drives it from nested loops. Interaction is by queued calls and signals, by files
and, for settings, by values that are read when they are needed.

## 2 Plan

Order, most important first. Modules are parameterised by CONSTANTS and free of RECURSIVE operators, so that they can be proved
about.

1. **Done.** `ConcurrentTask`, its abstract specification `PoolContract`, its proofs; `SequentialTask`,
   `MultipleOptionsTask` and `NetJob`, which extend it as the classes do.
2. **Done.** `Request` with `FileSink`; `MetaCache` and `BaseEntity` over it.
3. **Done.** `TaskRegistry` and its proofs; `Launch`; `Accounts`, `DeviceLogin`, `AccountSession`.
4. **Done.** `InstanceList`, `InstanceStaging`; `Components`; `PackImport`; `ResourceFolder`; `LogModel` against
   `BoundedLog`; `GameOutput`; `JavaSetup`; `UpdateSteps`.
5. **Done.** Proofs of all of these (section 6).
6. Compositions still worth having: `Launch` over `Accounts` and over `JavaSetup`, which stand beside each other today;
   `Components` over `BaseEntity`, whose loads it sees by their end.

Which module composes which. `SequentialTask`, `MultipleOptionsTask` and `NetJob` extend `ConcurrentTask`; `BaseEntity` extends
`MetaCache`; `InstanceStaging` extends `InstanceList`; `Preparation` is `JavaSetup` beside `UpdateSteps`, what a launch prepares.
The MC modules put whole systems side by side: `MCPools` the pools, the folders and `Preparation`; `MCDownloads` `NetJob`,
`Request`, `PackImport` and `Components`; `MCStart` `Launch` (through `MCLaunch`) and `Accounts`; `MCTaskRegistry`, `MCStored` the
rest.

## 3 The models

### ConcurrentTask, PoolContract

`state`, `queue`, `doing`, `done`, `failed`, `succeeded` are the members of the class. `events` is the sequence of calls the
pool has posted: `Wakeup` is a queued `executeNextSubTask()`, `StartOf(t)` a queued `child->start()`. `child` is the state of
each child, `muted` the children whose `aborted` signal `abort()` has disconnected (`ConcurrentTask.cpp:82`). The rest is
history: signals announced, tasks added or thrown away, starts and aborts.

`Start` posts one wakeup per slot; `ExecuteNextSubTask` serves a wakeup (skip it when the slots are full, conclude, or start
the next child); `StartChild` serves a queued start, after which the child may already have concluded; `ChildConcludes` and
`ChildAborted` are the children's reports; `Abort` has its two forms, nothing active or children in flight; `Clear` resets.
`NoFreeSlot`, `Verdict`, `Emit` are the guards and the conclusion of the code. Children outside `Abortable` refuse an abort.

`PoolContract` is what an owner relies on, without event loop: tasks wait, begin while there is room, end good or bad, and the
run is closed once, with a success exactly when nothing was bad. `KeepsContract` maps a child whose start is still queued to
"waiting". Without aborts the pool implements the contract; this is checked and proved.

### SequentialTask, MultipleOptionsTask, NetJob

They EXTEND `ConcurrentTask` and replace the actions the classes override. `SequentialTask` concludes as failed from the
report of a child, with the next wakeup still queued. `MultipleOptionsTask` tests its own two conclusions before those of the
pool, without asking whether it runs. `NetJob` serves a wakeup (`ServeWakeup`) by first queueing the failed downloads again
(`Retry`, up to three tries), then turning a failed verdict into another round (`RetryManually`) while the setting
`NumberOfManualRetries` allows and the failure does not look like a missing network, or giving up (`GiveUp`); `AbortJob` files
queued downloads as failed and aborts the active ones, which report at once. `lastReply` says how the last reply of a download
looked (404, no network, other). Failed downloads go back in the order of a hash table, hence any order.

### Request

`requestState`, `reply` (none, open, errored with `finished()` still to come, finished), the retry `timer`, the two counters, the
temporary file `temp` and the target `file` (as the set of replies whose data it holds; 0 is the file of old), and the history
of terminal signals. Actions: `StartTransfer` (`start()`), `RetryTimeout` (the timer runs `executeTask` again), `ReadyRead`, `ReplyError`
(`downloadError`, with the 429 branch), `ReplyFinished` (`downloadFinished`: redirect, settle a failure, write the rest,
finalize) and `AbortRequest`. A write, a validator and a commit may each fail. The network may deliver anything in any order that the
signals of a `QNetworkReply` allow: data any number of times, an error before `finished()`, redirects in answer to anything.

### MetaCache, BaseEntity

`entries` are the `MetaEntry` objects, shared by pointer: a download keeps the one it resolved (`get[d].entry`) while
`m_entries` (`listed`) may drop it. `index` is the saved index, written by `SaveNow` when the batching timer fires (`saving`); a
restart takes the index as it is, or as the destructor saves it. Contents stand for their own md5, sha256 and ETag, a time
stamp for whether it is still that of the file. `ResolveEntry`, `SendGet`, `FinishGet` and `EvictEntry` are the operations of the code,
`Publish` and `EditFile` the server and other programs.

`BaseEntity` EXTENDS it: `expected` is `m_sha256` (which a merge of the parent may set), `fileSha` is `m_file_sha256`, `load`
the load tasks and `current` the shared one. `ExecuteLoad` reads, hashes, deletes or accepts the file, or downloads; the
download's `validate` parses before the sink commits, and its success marks the entity with the hash the load began with, whether
the load still waits for it or was aborted while its download went on. The parent may be merged at any moment (`Merge`, which
notes it in the loads under way), and may expect a file that does not parse. A download that fails is tried again (`RetryGet`)
until its job gives up (`GetFails`). `doubts` is history: why the data may not be what the hash says (its file was not committed;
the parent was merged during the load; a file was hashed for data loaded from another), until other data comes.

### TaskRegistry

`known` are the ids in `m_tasks`; `phase` is the state of each task (`queued` while its start is posted); `reported` is what
`taskStatus` answers; `stack` the nested loops: of `waitTask`, of `runTaskSync`, of the step of a launch. Only the innermost
loop delivers, and only until it is told to quit; a loop below returns after those above it. `HostLoop` says whether the host
runs a Qt loop of its own, `Reentrant` whether it calls the backend from inside a nested loop. Kinds of task differ in what
their `abort()` is worth (`CancelOutcome`): the creation of an instance, an export, a login, a launch.

### Launch

| Variable | Code |
|---|---|
| `ctl` | `Task::m_state` of each `LaunchController`; `"posted"` before its queued start, `"refresh"` in the loop of `decideLaunchMode` |
| `slot` | `CoreApplication::m_controllers` for the instance |
| `account` | `MinecraftAccount::accountState()` and whether a refresh exists and runs |
| `owner` | whose `LaunchTask` is `MinecraftInstance::m_launchProcess` |
| `running`, `lt`, `step` | `BaseInstance::m_isRunning`, `LaunchTask::state`, `currentStep` |
| `claimed`, `proc`, `killed` | the use of the account, the process of the step, `LoggedProcess::m_is_aborting` |
| `strays`, `stopped` | history: games left behind by a destroyed `LaunchTask`, launches whose process was killed |

`LaunchCall` is `CoreApplication::launch`: it asks `canLaunch()`, takes the slot and posts the start. `Start` is
`executeTask` up to the launch or the wait for the account; `RefreshStarts` is the round of `AccountList`, the only place that
starts a refresh; `Resume` is the end of the loop in `decideLaunchMode`. `LaunchInstance` creates the `LaunchTask`, destroying
the previous one (its game is detachable and lives on). Steps are a constant sequence of kinds: instantaneous, claiming the
account, asynchronous and abortable, asynchronous and not, wrapped in a nested loop, a command, the game. `Rests` gives the
places where a chain of steps may come to rest. `Stop` goes through the slot, `CancelTask` through a controller the registry
has kept. A queued start is delivered before later events, as Qt does.

`Hurried` says whether the host calls `launch()` again while an earlier launch of the instance has no `LaunchTask` yet. The
checked run excludes that; section 7 says what happens otherwise.

Left out: profilers (`m_profilers` is never filled, so that code cannot run), `QuitAfterGameStop` (the program is meant to end
there). An account grows stale at most once, at the start.

### Accounts, DeviceLogin, AccountSession

`Accounts` has the list, the refresh queue with its two timers (`next`, `hourly`) and, per account, `validity`, `state`,
`uses` and its `flow`; and the launches of several instances: `Begin` decides the mode or creates a flow and waits in a loop
(`loops`, innermost last), `LoopReturns` reads the state again when the loop ends, `Claim` and `LaunchEnds` move the use count.
`TryNext` starts the first account of the queue that is still due. The host adds, removes and changes the default.

`DeviceLogin` is the flow of a login: `request` is what the step asks the server and its answer, `pollTimer`, `expiry`,
`left` and `interval` the two timers. `AuthenticationFinished` covers pending, slow-down, network failures, approval and
refusal; `CodeExpires` aborts the step; `CancelLogin` is what the host's cancel does at each moment. `Expires` admits codes that
expire while a poll is under way.

`AccountSession` is one account over refreshes, logins and restarts. A token is known by the login and the grant it goes back to, so
that `data` tells which tokens belong together, and `dated` which of them the dates of the access token belong to; `entry` is the
account in `accounts.json`. `Refresh` is the check of the client id and the refresh token; each step has one action with all its answers:
it goes on, fails softly, or (`MSAFails`) ends the login, which clears the tokens and saves. Only that end and the last step save;
`ListChanges` is a save for any other reason, `SaveList` may fail. `Restart` takes what the file says, maybe with another client id.
`LogIn` replaces the account with the same profile while no refresh runs; nobody aborts a refresh, so there is no action for it.

### JavaSetup

One instance, launch after launch. `setting` and `override` are the two layers of `JavaPath`, `stored` the signature and version
that the last check left, in both layers (`PassthroughSetting`). `CheckJavaFinished` saves them in one handler, but setting by
setting: `DiesSaving` is the end of the program between two of these saves, and `torn` names the layers whose new version stands beside
an old signature since. `runtime` is what the directory of the launcher's own Java holds,
`machine` the Javas found elsewhere. `AutoInstallJava` tries the stored path, the probes of the list (`ProbesEnd`), the launcher's own
runtime, and its download through the list of versions (`ListLoads`, `VersionLoads`, `RuntimeLoads`), file by file or as an
archive. `CheckJava` compares the signature or runs the checker; `VerifyJavaInstall` compares the major version. `work`
outlives a step that was cancelled, until the next launch destroys it.

### UpdateSteps

The libraries, the libraries of an old FML, the asset index and the objects of one instance, launch after launch: `store`,
`copied`, `index` and `laid` are what is on disk, `job` the files the download in progress still has to fetch. A launch may fail
or be cancelled at any file, and the index may change between launches.

### Components, ComponentData

The list (`comps`), its file, the delayed save, the update with one slot per component, the metadata of each version (absent,
file, read, ready), and the check that a launch waits for. What the task does in one go, until it waits for downloads or has a
verdict, is `Done`: a piece of `Work` goes through its states, one step (`Proceed`) after the other. `LoadComponents` loads
what it can; `RemoveObsolete` is one round of the loop that removes what nothing requires; `ResolveDependencies` adds (`Injected`) and
changes (`Changed`) what is required, and goes back to loading. `Check` is the start of an update, `RemoteLoadSucceeded/Failed` the
ends of its loads, `CheckIfAllFinished` the decision when all have ended. `Data` is what a component announces when it changes.
`Done` stops after `MaxSteps` steps, and only work that has halted is taken on: 14 is more than any update of the run needs (10
already give the same states, and work cut short would leave a check without an end, against `DownloadsConclude`). Versions are
numbers, and `ComponentData` holds a small server: game, library, loader and mapping with their requirements.

### InstanceList, InstanceStaging

`dirs` is the folder, `loaded` the list, `book` the groups in the three places the code keeps them: the index by id, the
count per group and the file. `InstanceList` has groups (`SetInstanceGroup`, `RenameGroup`, `DeleteGroup`), the trash with its
undo, deletion, renaming, the watcher's reports, changes from outside and restarts; `InstanceStaging` the tasks that build an
instance elsewhere and commit it, with the retries of a commit that fails. `astray` is history: once directories change
from outside, the counts are no longer promised.

### PackImport

`stage` is the work under way of one import: the download of the archive, its listing and extraction, the files, ids, alternatives
and metadata the platform is asked for, the game's files. Stages that are downloads have a `job`, a NetJob reduced to its rounds of tries
(`RequestSucceeds`, `RequestFails`, `RequestFailsForGood`, `BeginQueued`). One action per end of a stage; `Cancel`
is what `InstanceImportTask::abort` does in each.

### ResourceFolder

`disk` holds the date of each file, `rows` the list, `index` the map from names to rows, `task`/`scheduled`/`scan` the update on
its worker thread, `parses`, `waiting` and `resolver` the pool that reads details, `posted` what is posted to the main
thread. `ApplyUpdates` keeps, drops and adds rows; `OnParseSucceeded` differs between mods and packs, as in the code: `mods` says
which of the two a folder is, and never changes.

### LogModel, BoundedLog

The ring buffer and, as its abstract specification, the sequence of the last lines. `KeepsLog` is the refinement. A capacity above
zero is an assumption (section 7).

### GameOutput

A stream of the game is a sequence of pieces: plain text, the beginning and the end of a log4j event, ends of lines, and events that cannot
be read (`nameless`, which lack an attribute, and `broken` XML). `ReadyRead` delivers one piece of either stream, wherever the system cut
it; `Reprocess` is the unfinished line of `LoggedProcess`; `ParseNext` what `LogParser` takes out of its buffer at once, `ParseAvailable` the loop
around it, `partial` the event it waits for; `ParseXmlLogs` appends to the log what was found. The loop and the selection of a stream's own pieces (`Kept`) are
functions defined by recursion, so that they can be proved about. `ProcessEnds` is the end of one process of the launch and the start of the next.
`lost` and `mixed` are history and name the cases in which the code does lose or reorder text (section 7).

## 4 Runs and bounds

A run often holds several small systems *side by side*: a variable `subject`, chosen in the initial state, says which one moves;
the others stay in their initial state. What is checked of one is unaffected by the rest.

| Run | Instance | Shows |
|---|---|---|
| `ConcurrentTask_runs` | 3 children, 2 slots, 2 starts, children added at any moment, no abort | types; the pool implements `PoolContract` |
| `Pools_abort` | the pool with an abort and a child that refuses it; a sequence; a task with options; a folder of mods, one of packs; the Java of an instance; its files | limit, accounting and wakeups across abort and restart; earned verdicts; a folder at rest is listed; the Java is known and the game complete after whatever happened before; each run of a pool, a sequence or options concludes, unless an aborted child is left behind; the steps of a launch end |
| `Downloads_runs` | a job of 2 downloads; a usual request; one with too many redirects and unread data; components; an import | one end per start, in agreement with the state; the target is one whole reply; earned verdicts; resolved and saved lists; whole imports; ends |
| `TaskRegistry_runs` | a table of 2 with 4 tasks; 3 nested calls of a reentrant host; a log of 3 lines; a game that writes 2 messages on 2 streams; a login; an account over refreshes and restarts | known, recent and true records; calls that return; the log; what is written is shown; the login goes on; what an `Online` account gives a launch is of one grant, of a login that has not ended, and saved |
| `Launch_runs` | 3 launches, 4 stops, 9 steps of every kind; 3 accounts with 2 launches | at rest, stop, end of launches; rounds of refreshes, used accounts, waits |
| `Stored_runs` | the cache alone, and under an entity whose loads are aborted and whose parent is merged; the list of instances alone and with a staging | what is fresh is on disk, what is loaded is expected; groups, trash and commits |
| `Launch_offline` | an offline default account; *violation* | a launch reported as failed whose game runs |
| `Instances_joins` | a launcher without instances; *violation* | a new instance that loses its group |
| `Components_offline` | an offline launch; *violation* | a check that passes although the update failed |
| `Accounts_claim` | one account, one launch; *violation* | a refresh under a running game |
| `ResourceFolder_ghosts` | 2 mods; *violation* | an index entry without a row |
| `Login_expires` | a code that expires during a poll; *violation* | a login that waits for nothing |

Why the bounds suffice.

- *Pools.* Two slots with three children have every combination that matters: a full pool with one more waiting, a slot freed
  while another child runs, both freed before a wakeup is served. A second start shows what a first run leaves behind; one
  abort can fall between any two steps, and a further one adds only an assertion that is known (section 7). Two downloads show
  retries of one while the other runs, done or failed.
- *Requests.* `MaxRedirects` and `MaxRetries` are 10 and 4 in the code and 2 here: the counters are compared only with their
  limit, and one more redirect than is followed is sent.
- *Registry.* A limit of 2 with four tasks prunes repeatedly, with the unfinished task at the head, in the middle or at the
  end. Three nested calls are one more than a wait in a step in a call.
- *Launch.* Three launches show a slot left, taken and overwritten (`MaxLaunches` 3, `MaxStops` 4). *Accounts*: two in the
  file, one that may be added or replace another, two launches so that loops nest, one call of the host. An account grows old once.
- *Stored.* Two versions and two downloads (one is late, one is not) with two publications, edits or restarts, of which one
  under an entity: a crash needs one, its effect on an edited file another. Beside that one, four loads are made or parents merged
  (`LoadsAndMerges`): a load that is aborted with its download under way, a merge, and two loads after it. Two ids and two groups with two events;
  one task that stages beside one event, since its retries multiply the states. Retries are counted to their end.
- *Components.* Four lists that need an addition, contradict each other, need a change, and need a recursive removal; two checks, one
  restart: an update that meets the leftovers of an earlier one.
- *Import.* A pack of two files or none, one round of retries (the code's three differ only in number) and one cancellation, at
  any stage. *Folder*: two files, two dates, three requests: one during a scan, one between its two signals (`MaxEdits` 2,
  the first date counted, `MaxRequests` 3; the violation needs a third date). An update that removes a file changes the folder too. *Java*: two acceptable majors, three launches, one cancel or death; a Java replaced and the setting changed, or the setting changed and
  changed back (`MaxChanges` 2, `MaxReplaced` 1), which the torn signature needs; the way a runtime comes is chosen only where one is
  downloaded. *Files*:
  three launches, three faults. *Login*: a code that lives three polls, three codes, two cancels. *Account over
  restarts*: three grants (the first, one of a refresh, one of another refresh or login), two restarts, two client ids. *Log*: three lines wrap around
  in either direction. *Output*: five messages (text, an event on one line, one that spans lines with text around it, a nameless one, a broken one), two
  of which are written, to one stream or both, with an end of the process anywhere.

Histories (`emitted`, `added`, `signals`, `attempts`, `accepted`, `stopped`, `late`, `astray`, `leftovers`, `disturbed`, `torn`, `doubts`, `unwritten`, `ended`, `written`, `lost`, `mixed`) never guard an
action of a module; `MCTaskRegistry` follows the output no further once it is `mixed`, since nothing is claimed of it then. Symmetry (versions, downloads, groups) and a view are used in runs without liveness only; the view of `MCMeta` forgets entry
objects nobody refers to and histories no property reads.

Deadlock is not checked: all of these systems come to rest legitimately.

## 5 Fairness

Weak fairness of a handler says that a posted call is delivered while the event loop runs.

- Pools: the wakeup, the queued start of each child, the end of each running child. That a child ends is an assumption about
  children; requests justify it (below).
- `Request`: the network ends every reply (`finished()`), the timer fires. Qt bounds the first by its transfer time-out, which
  `Request.cpp:174` sets from the setting `RequestTimeout` (0 would switch it off). Aborts are never fair.
- `TaskRegistry`: the timers of `waitTask` and of the valve, the return of a loop told to quit: weak. The start, the steps and
  the end of a task: strong, because nested loops interrupt their delivery again and again, and a loop delivers what was posted
  as soon as it is the innermost one.
- `Launch`: posted starts, the end of steps and processes; a killed process is reported by the system; the player ends the
  game. `RefreshStarts` rests on the account list, whose rounds `Accounts` shows to go on.
- `Accounts`: timers fire, flows conclude (each is a chain of requests), tokens get old, loops run, games end.
- Components and imports: a load or a request ends; work in a thread pool ends. Java: downloads and probes end; the checker is
  killed after 15 s (`JavaChecker.cpp`). In the MC modules this is stated of "some launch", "some flow" or "some load" where each
  happens at most once at a time; that is weaker than fairness to each and therefore no stronger assumption about the code.

## 6 Proofs

`ConcurrentTask_proofs` proves, for every finite set of tasks, every limit and every bound on starts and aborts:

| Theorem | Statement |
|---|---|
| `TypeCorrect` | `Spec => []TypeOK` |
| `SlotsAlwaysBounded` | `Spec => []SlotsBounded`: children that run occupy slots, no more than the limit |
| `TasksAccounted` | `Spec => []Accounted`: each task is in exactly one of queue, slots, done, or was thrown away |
| `WakeupsNeverLost` | if the limit is not 0, `Spec => []WakeupNeverLost` |
| `SuccessIsEarned` | `Spec => [][SuccessEarned]_vars`: a success covers every task that was not thrown away |
| `ImplementsContract` | if nobody aborts, `Spec => KeepsContract` |
| `StepsBuildOnSuccess` | if the limit is 1, `SeqSpec => [][StepBuildsOnSuccess]_vars` |
| `OneOptionDecides` | if the limit is 1, `OptSpec => [][OptionDecides]_vars` |
| `JobVerdictsAreEarned` | if not `LateAdds`, `NetSpec => JobVerdictEarned` |

The only other assumptions are those of the modules on their constants. The limit of 1 is what the constructors of
`SequentialTask` and `MultipleOptionsTask` set. `LateAdds` is excluded because the statement is false with it: the job counts
rounds and not the tries of each download, so one that is added while it runs gets fewer.

The arguments. *Slots*: that a running child occupies a slot is not inductive, because children are started by calls that were
queued earlier. The invariant adds that a queued start is for a child in a slot that has not started, and that no child has two;
then the accounting (a queued task is in no slot) gives that serving a start never runs a child outside the slots, and
filing a result never frees a slot twice. *Wakeups*: a running pool with no child in a slot must have a wakeup in the event loop,
and each unmuted child in a slot either runs or has its start pending. Each report posts a wakeup, the conclusion is
the only handler of a wakeup that posts nothing further while running, and a wakeup that finds no free slot leaves children
behind that will post one. That needs the limit to be positive. *Contract*: on top of the first invariant, no
child outlives the run it was started in and none is muted; each handler then maps to one step of the contract or to a
stutter. *Verdicts*: what is filed as succeeded has succeeded, and what is done and not failed has (`ResultsTrue`); with the
accounting a pool whose queue and slots are empty has filed everything. A sequence adds that after a failure in its first run the slot is
empty and the verdict given (`OverOnFailure`); the options, that nothing is in the slot once one has worked and that at most one call is
posted (`OneOption`), since a leftover wakeup would conclude a second time. A job forgets what it filed when it tries again, so
`NetInv` replaces the accounting: every download is in the queue, a slot, or filed as succeeded or failed (`NetFiled`), and in a first run without aborts
these are apart, with as many tries behind each download as the job has counted rounds, less the one it waits for (`Tried`).

`TaskRegistry_proofs` proves, for every size of the table, every number of tasks and calls and every kind of host:

| Theorem | Statement |
|---|---|
| `UnfinishedStaysKnown` | `Spec => []UnfinishedIsKnown` |
| `RecentStaysKnown` | `Spec => []RecentIsKnown`, in the code with a `Limit` of 32 |
| `StatusStaysTrue` | `Spec => []StatusIsTrue` |
| `ExportStaysCancelled` | `Spec => []ExportCancelSticks` |

It assumes no more than the module does of its constants. Two of these properties are not inductive. Pruning looks at the status of
an entry and not at its task, so "unfinished tasks are known" needs "the status is true" beside it; and that a
cancelled export does not succeed needs that from its first accepted cancellation on it is `canceling` or aborted
(`Sticks`). That the recent results survive is a fact about counting: the ids not below `id` lie in `id..newest`, at most
`Limit` of them (`PrunedKeepsRecent`). All events and cancellations that touch a task are one lemma (`PhaseKeeps`), the
loops are stutters of the registry (`StutterKeeps`).

The other proofs, each again for every value of the constants its module allows, and with these hypotheses and no others:

| Module | Theorem | Statement |
|---|---|---|
| `Launch_proofs` | `InstanceComesToRest` | if not `Hurried`, `Spec => []AtRest` |
| | `StoppedNeverSucceeds` | if not `Hurried`, `Spec => []StopSticks` |
| | `GamesCanBeStopped` | if not `Hurried` and no account is offline, `Spec => []StopReachesTheGame` |
| | `RoundsGoOn`, `UsedAccountsStay` | `ListSpec => []RoundGoesOn`, `ListSpec => UsedAccountsRest` |
| `Preparation_proofs` | `GamesArePrepared` | `PreparationSpec => []GameIsPrepared` |
| | `FoldersAreListed` | `FolderSpec => []FolderIsListed` |
| `Request_proofs` | `RequestEndsOnce`, `TargetIsOneReply` | `RequestSpec => []EndsOnce`, `RequestSpec => []FileIsOneReply` |
| | `ImportsAreWhole` | `ImportSpec => []ImportIsWhole` |
| | `UpdatesResolve`, `SavesFollowMemory` | `ComponentsSpec => []ResolvedOnSuccess`, `ComponentsSpec => []SavedIsMemory` |
| `BaseEntity_proofs` | `CacheIsTrue`, `EntityCacheIsTrue` | `MetaSpec => []FreshIsOnDisk`, `EntitySpec => []FreshIsOnDisk` |
| | `LoadedStaysExpected` | `EntitySpec => []LoadedIsExpected` |
| | `SuccessIsLoaded` | `EntitySpec => SuccessMeansLoaded` |
| `InstanceStaging_proofs` | `GroupsStayTrue`, `CommitsEnd` | `InstanceSpec => []GroupsAgree`, `InstanceSpec => []RetriesEnd` |
| | `DifferencesAreReported` | `InstanceSpec => []ListFollowsDisk` |
| | `UndoBringsBack` | `InstanceSpec => UndoRestores` |
| `TaskRegistry_proofs` | `LogIsBoundedLog` | `LogSpec => KeepsLog` |
| | `OutputStaysShown` | `OutputSpec => []OutputIsShown` |
| `Accounts_proofs` | `LoginKeepsGoing` | if not `Expires`, `LoginSpec => []LoginGoesOn` |
| | `OnlineStaysGranted` | `SessionSpec => []OnlineIsGranted` |

`Launch_proofs` holds the theorems of `Launch` and `Accounts`, `Preparation_proofs` also those of the folders of an instance, `Request_proofs` those of what downloads (`Request`, `PackImport`,
`Components`), `TaskRegistry_proofs` those of the log and of what a game writes, `Accounts_proofs` those of a login and of an account's tokens. The hypotheses are not for convenience: `Hurried`, `Expires` and an offline account are each a case in which the
code does break the property (section 7; `Login_expires` and `Launch_offline` are runs that show it). Where none of them is
named, the theorem covers every setting of the constants.

*Launch.* `LaunchInv`: a controller that is to go on has the slot and finds no launch running; one that has launched has the
`LaunchTask` and the slot; a process and a claim belong to a `LaunchTask` that runs; a stopped launch has failed or still has its
killed process. With an offline account the controller alone may end early, and only `StopReachesTheGame` needs it not to. Wherever a chain of
steps comes to rest, it does so at one of the launch's steps (`RestsAtStep`), and the `LaunchTask` is then in order (`SettleInOrder`).

*Request.* `RequestInv`: one signal per start that is over, nothing under way behind it; while a reply is under way no abort was seen, and
the temporary file of a request that goes well holds that reply's data and no other's. That last part is what makes
`FileIsOneReply` inductive.

*Cache and entity.* `CacheInv`: what an entry says it is of (md5, stamp, ETag) fits together with the file, in memory, in the index and in each
entry that a download under way still holds; a download that asked with a condition has an entry to fall back to. Without
the part about held entries a "304" could confirm anything. `EntityInv` adds the loads: a load runs until its download is over, and began with
something to keep or `Alone`, with an entry no one else has and no ETag, so that it cannot be answered by "304" (`LoadHolds`); that a
download during which no parent was merged looks for the hash that is expected now (`Looks`), also when its load was aborted; and that the hash of
an entity is that of its data, or one of the `doubts` is noted (`Marked`).

*Instances.* The operators on the groups are first reduced to what they do to the group of one instance, to the file and to the
counts (`AssignIs`, `SaveIs`, `LoadIs` and their like); an instance that goes from one group to another keeps the counts true
(`RegroupCounts`). `BookInv` says that the file has what the index has, or the program was started on an empty folder and has
not read it; that there are no groups without a file. `CountInv` says, while nothing is `astray`, that counts are those of the members and only instances of
the folder have groups, in memory and in the file: without the file, a reload could bring back a group that is not shown.
`RetriesEnd` needs that the pause tells the number of tries; `ListFollowsDisk` is inductive by itself.

*Preparation.* `JavaInv`: a signature that is stored tells the version of what it was computed for, or that file has been replaced
since, or its layer is `torn`; where it is not, signature and version are read from the same layer (`SavedKeeps` says what each part of a
save does to this); the launcher's own Java is whole when a check stored it; a probe under way will say what the file it runs is (`ProbeIsTrue`); work that
goes on behind its step belongs to a launch that was disturbed. `FilesInv` says for each step of a launch what the steps before it have left on
disk, or in the job it still waits for.

*Folder.* `FolderInv` follows a resource from the scan to its details. A listed resource has a parse task that was not aborted, the newest of
its name (`RowsHaveParses`). The tickets go through the resolver in order, and come back in order (`InOrder`, `ParsesInOrder`,
`ResultsInOrder`), so that a row shows what its newest task has read as soon as no older one is left to speak (`DetailsFollow`). What was read is
what is listed, unless the file has changed since (`ReadIsListed`). A pack that is refused late is the one in the list, and behind a scan
that is posted it is the one the scan found (`RefusalIsOfRow`, `RefusalIsOfScan`); else the refusal would take a good pack off.
The index finds each row, but may name mods that have none (`IndexFinds`, section 7). `UpdateComes`: what was asked for is
scheduled, under way, or done. That a scan is applied as it should be is about names that are treated one after the other, by a recursive
function over an order of a set; `TreatedIsReached` reduces it to one name at a time, by the argument described under *Components*: a row that is
replaced stays in its place (`KeepApplies`), rows that are removed from below leave those under them where they are (`DropApplies`),
and a new one finds no row of its name (`AddApplies`).

*Imports.* `ImportInv`: while its files are downloaded, each file of the pack that can be had is there or its request is somewhere in the job
(queued, active, to be tried again, lost); after that, an import that goes on has them all. A "lost" request is what keeps a
job that ends well from hiding a file.

*Components.* The property of one update is about a recursive function. A prover cannot apply the library's induction theorems, which take
an operator; here the set of steps at which a claim fails has its least member (`LeastOf`, from the well-foundedness of `<`), which is
enough for a function over `0..MaxSteps`: it exists (`TrailsExist`, `DoneIsReached`), and each step keeps `Sound`: nothing is left to
remove when changes are looked for, and a success has found nothing to add or to change (`ProceedsSoundly`). So the theorem covers
every number of steps. `ComponentsInv` adds that an update with slots has read the list, and that a change which is not announced
is none of what is saved (`SameDataSameFile`).

*Rounds of refreshes.* `ListInv`: one of the two timers runs, or one refresh does, and never two of them. That is `RoundGoesOn` said of
the flows one by one, and the end of a flow needs to know that it is the one that goes on.

*Log.* The ring is reduced to what it shows: a place is a turn of a row (`Turned`), and appending to a full ring moves every row by one
(`RowsMoveOn`), to one that is not full leaves them (`RowsGoOn`). Every call then is a step of the bounded queue.

*Output.* What is kept of a sequence and what is parsed of a buffer are functions over `0..n` that are defined by recursion; as for components, a least
counterexample takes the place of the induction theorems (`UpTo`, and `OfSequences` for facts about every sequence). `KeptOfBoth` says that the text of two
sequences one after the other is the two texts; `ParseNextKeeps`, that what was found and what is in the buffer always make up what was
given; so a parser that stops has found all but the event it waits for (`AllIsParsed`). `OutputInv` (`IsSound`) then adds for a stream whose events can be
read that the buffer is that event, and that what is left over of it is plain. A piece that does not end a line is left over (`WordIsLeft`), one that does
has the line parsed (`LineIsParsed`), and a new process drops only what was left over.

*Accounts.* `LoginInv`: a flow that goes on was not told to stop. `SessionInv`: in the middle of a refresh the tokens of the steps that are done are
of its grant, and what the file brings back renews with a login that has not ended.

What remains with TLC, and why:

- all liveness (`TasksConclude` with its part `Concludes`, `DownloadsConclude`, `HostIsServed`, `LaunchEnds`, `WaitIsServed`): fairness needs `ENABLED`,
  which the prover does not handle;
- `VerdictsEarned`, which says of the pool, the sequence and the options together what the theorems `SuccessIsEarned`, `StepsBuildOnSuccess`
  and `OneOptionDecides` say of each.

The six runs that show a violation state what the code does not keep; there is nothing to prove of them.

## 7 Divergences

Found while modelling, by TLC unless said otherwise. Six are kept as runs that must show the violation.

**Kept as runs.**

- `Launch_offline`. With an offline default account and no entitled one, `decideAccount()` fails the task
  (`LaunchController.cpp:94`) and `login()` goes on. The controller reports failure and leaves the map; the game
  starts; `stop_instance` finds no controller and answers that it stopped it, although `backend.h:168` promises to ask the process to
  terminate.
- `Instances_joins`. `commitStagedInstance` (`InstanceList.cpp:1147`) enters the group, emits `instancesChanged` and then saves. While no
  group file was ever read, the reload in between clears the index: the first instance of a launcher loses its group.
- `Components_offline`. An offline update concludes inside `reload()`, and its task is gone when
  `MinecraftLoadAndCheck.cpp:17` asks for it: the check succeeds whatever the update found.
- `Accounts_claim`. The token is taken when the mode of the launch is decided (`LaunchController.cpp:246`), the account is claimed
  several steps later; a refresh that begins in between runs under the game.
- `ResourceFolder_ghosts`. `ModFolderModel.cpp:277` reads `m_resourcesIndex[id]` for a mod that may be gone: a ghost entry with row 0.
  As consequences a mod on disk is missing from the list at rest, or the removal of the ghost takes another mod off the list; on an
  empty list the index is out of range.
- `Login_expires`. A code that expires during a poll: another code is shown to the user, and nobody polls for it
  (`MSADeviceCodeStep.cpp:153`).

**Launch.**

- The refresh that nobody starts. `LaunchController.cpp:144` calls `refresh()`, which creates an `AuthFlow` and does not
  start it; the comment at line 149 says "refresh is in progress; wait for it". Only the round of `AccountList` starts it. A launch with an
  account that is `Offline` or `Errored` waits in its loop up to an hour; if its token was renewed by a refresh that failed
  later (at the profile, say), `shouldRefresh()` is false until the token is within 12 hours of its end.
- Two launches in a hurry (`Hurried = TRUE`). `canLaunch()` asks `m_isRunning`, which is set when the `LaunchTask` is created
  (`CoreApplication.cpp:353`). A second `launch()` before that passes, takes the slot, and its `LaunchTask` destroys the first one. `AtRest`,
  `StopReachesTheGame` and `LaunchEnds` all fail: the first game goes on alone, no stop reaches it, and the first controller never
  concludes. `controllerFinished` (line 408) removes the slot by the instance's id, whichever controller ended.
- A wrapped task that accepts an abort and goes on leaves its `LaunchTask` in state `Aborted` (`LaunchTask.cpp:193`), in which
  further stops are refused, until a later step makes it `Waiting`.
- `backend.h:157-161` describes `offline_name` as naming the player for launches without an account; without any account the launch
  fails (by reading).

**Accounts and logins.**

- A launch that waits for an account without a profile, or one that was removed or replaced, waits for ever: its flow was created and
  nobody starts it. Loops of other launches below it do not return either (`Unserved`).
- The state that is read when the loop ends may be `Working`, of the next refresh: the launch then goes offline. An `Errored`
  account with a fresh token is not retried for up to 12 hours. A removed account's flow keeps a raw pointer to its data.
- `ClaimAccount` looks the account up by its profile's name. `requestRefresh()` and `isActive()` have no caller.
- A cancel during the wait or the poll of a login sends one more request for a code, which is shown for the cancelled
  task; `m_is_aborted` is never reset; a cancel before the posted start has no effect (`AuthFlow.cpp:148`, against `backend.h:114`); only the
  first step can be aborted (`AuthStep.h:36`). An approval of a code that is replaced because it would not live to the next poll is
  lost. Without approval codes are renewed for ever.
- A refresh that fails softly, offline or as disabled emits no `changed()` (`MinecraftAccount.cpp:158`): new tokens, of which Microsoft's
  refresh token may have replaced the old one, are saved only by another change of the list, and lost if the program ends before it.
- A profile that cannot be read empties the one that is known, on a failure called soft (`MinecraftProfileStep.cpp:66`): once that is saved,
  the account has no validity after a restart, and no round refreshes it again. `parseMojangResponse` sets the dates before it may
  fail, so that an old token counts as fresh for up to 12 hours. Capes are never removed from a profile; `STATE_FAILED_GONE` is emitted by nobody
  (by reading).

**Java and files of an instance.**

- The executable alone is taken for a whole runtime (`AutoInstallJava.cpp:147`). An installation outlives its cancel when nothing is
  active (`NetJob.cpp:106`), and its files arrive after the directory was deleted; if it is then cut off, by the next
  launch or the end of the program, every later launch takes the torso and fails in `CheckJava`.
- A load of versions that is cancelled with nothing active concludes as succeeded, without data: null dereference.
  `tryNextMajorJava()` after a failed download does nothing, since the step has failed. Loading the list and
  `CheckJava` cannot be aborted. Without `JavaCheck.jar` the detection never ends (left out of `TasksConclude` by name).
- A Java whose answer cannot be read keeps the stored version of another one and goes on. The path may change during the probe: the
  game starts with a Java that was not checked. An override is never detected again, even when it no longer fits.
- `CheckJava.cpp:134-138` saves the five values of an answer one by one, the signature last. If the program dies in between, the new version stands
  beside the signature of another Java, and a launch with that other Java takes it for checked, with the wrong version (the exception in
  `JavaIsKnown`, `torn`), until a whole answer is saved.
- `JavaChecker` reports an error and an end for a process it killed: `emitSucceeded()` twice, which asserts.
- `reconstructAssets()` never replaces a file that exists: after an update of the index it stays the old one. Objects are checked by
  size only. `EnsureOfflineLibraries` looks at libraries, not at assets. A cancel with nothing active has no effect.

**Pools.**

- `ConcurrentTask.h:73` says that `clear()` "allows the same task to be re-used". It empties every list but `m_doing`
  (`ConcurrentTask.cpp:103`): after an abort, muted children stay there and occupy slots. One that refused the abort, or starts only then, still
  reports and is taken out; one that was aborted is not, and the next run never concludes (the exception in `Concludes`). The one pool
  that is cleared (the resolver) is never aborted.
- `abort()` between `start()` and the first wakeup (`ConcurrentTask.cpp:74`) announces `finished()`, but the state stays
  `Running` and the pool concludes again.
- A second `abort()` asserts (`:92`). A limit of 0 posts no wakeup and never concludes (`:66`); `NumberOfConcurrentTasks` is
  stored unvalidated by `Backend::setSetting` and used as such by several owners of pools.
- A child that emits `failed()` inside its own `abort()` removes itself from the list that `:84` iterates (by reading).
- `SequentialTask.cpp:47`: a child that fails after the sequence was aborted makes it fail as well, a second conclusion.
- `MultipleOptionsTask.cpp:43`: a wakeup left over from an abort concludes again, since neither conclusion asks `isRunning()`.
- `NetJob.cpp:113`: aborting a job with no active download returns true and the job runs on. `:124`: a download whose start was
  queued when its job was aborted starts afterwards and outlives the job.

**Requests, cache, metadata.**

- `handleAutoRetry` sets the state `Failed` before it calls `emitFailed()` (`Request.cpp:350`), which therefore hits
  its assertion; without assertions it says nothing and the reply's `finished()` announces the failure. A reply with too many
  redirects that was aborted announces nothing (`:334`); the test of the last write takes the sink's success for a failure (`:407`).
- A `304` that answers for an entry which was disowned in the meantime lists the old entry as fresh for a file that was replaced
  (`late` in `FreshIsOnDisk`). The timer of the save is restarted by every change: steady traffic postpones it for ever.
- `BaseEntity.cpp:182` records the hash that is expected when the download ends, which need not be the one it was checked against if the parent was
  merged in between, while `BaseEntity.h:50` calls it "the file sha256"; the entity may then count as loaded with other data than the parent
  expects. So it may when the commit of the file fails, since the entity is parsed before, and its data stays with the hash of the data
  before; and when it was loaded without a hash and its file is hashed later, with other content (`:128`). These are the exceptions in
  `LoadedIsExpected`. A file whose hash matches but which does not parse is deleted, and the load succeeds with nothing loaded (`:132`, `:149`;
  `MatchedUnreadable`). An aborted load leaves a download that is queued or retried running, which marks the entity when it succeeds.

**Registry.**

- `succeeded()` is not connected to the quit of `runTaskSync`'s loop (`Backend.cpp:200`), so a synchronous call that succeeds returns only
  when its valve (30 s or 2 min) fires; the comment at lines 205-207 speaks of it as a safety net.
- Pruning stops at the first unfinished task (`Backend.cpp:405`): behind one task that never ends, finished records pile up, against
  `docs/AURA_MIGRATION.md:81`.
- `waitTask` overruns its time-out while a launch step's loop is nested in it (`Backend.cpp:1006`, against `backend.h:110`).
- Without a Qt loop of its own, a host that only polls never sees a task end (`Backend.cpp:441`, against `backend.h:98`): tasks move only
  inside waiting calls (`:133`). `HostIsServed` is checked for a host with a loop.

**Instances.**

- The group is removed and saved before the directory is deleted or trashed: if that fails the instance stays without its group. Renaming a
  directory, or changes from outside, leave entries under the old name, and so does grouping an instance that was just trashed.
- A write of the group file that fails is only logged (`InstanceList.cpp:794`): index and file differ until the next change of a group. The
  model has writes that succeed; `GroupsAgree` and `UndoRestores` are said of these.
- A commit whose copy fails half-way leaves a directory, and the retry creates a second one with another name. The staging directory
  stays after an override and after the last failure. An abort during the retries does nothing although `canAbort()` says it can;
  an abort during the download of game files ("Skip") creates the instance all the same.

**Components.**

- `PackProfile.cpp:121` writes `cachedVolatile`, `:142` reads `volatile`. A reload with a failed save pending overwrites memory with the old
  file. With `MetaRefreshOnLaunch` off, a load starts (`ComponentUpdateTask.cpp:135`) before its signals are connected (`:218`): one that ends
  at once is missed, and the update never ends (why `CheckRuns` asks for `refresh`).
- After a restart a version counts as loaded only when its list's hash is known: every offline update fails (and the check passes). An
  offline miss starts a download nevertheless. `abort()` iterates the list that `checkIfAllFinished` clears. The loop of removals never
  ends if a removable component is refused; metadata with cycles could oscillate; two dependencies injected at one index may be misordered
  (by reading).

**Imports.**

- A cancel with nothing active in a job is lost (`NetJob.cpp:106`, against `backend.h:114`). None is accepted while the archive is listed,
  after its extraction, or for Flame outside two stages. Cancelled during Flame's index, the import still succeeds; during the download of
  game files every cancel succeeds, and for Flame starts a second download beside the first.
- Flame goes on to the index after `finished()` of downloads that failed or were aborted, in a deleted directory, and concludes
  again. An unreadable answer about the projects (`FileResolvingTask.cpp:213`) leaves the import waiting for ever.
- `EnsureMetadataTask` announces a failure for bad JSON and goes on (`:245`); a failure for the versions is tolerated, for the projects it is
  not (`:163`); its abort disconnects its own signals (`:87`). Modrinth tries one second link only, and the first counts as
  succeeded. The branches that update an instance cannot be reached (no original name is passed); optional files are always installed,
  blocked ones never matched.

**Folders and logs.**

- `ScanModFolders.cpp:49` takes a busy list for a finished one; a later signal can conclude the step again. Nothing starts watching
  the folders. The resolver pool is started on a worker thread while the main thread adds tasks to it (a data race, left out).
- `LogModel::previousLevel()` (`:173`) ignores the wrap; `setMaxLines` (`:90`) keeps too many lines when it shrinks (it is called on an empty log
  only); a `ConsoleMaxLines` of 0 divides by zero.
- One `m_leftover_line` serves both streams (`LoggedProcess.h:85`): fragments of stdout and stderr that interleave become one line of
  whichever ends first. A last line without its end, and an event cut off by the exit, are never shown; the parsers live on for the next process
  of the launch.
- An event that is cut off or ill-formed keeps its parser waiting for ever, and it swallows all later lines of the stream
  (`LogParser.cpp:123`). An event that lacks an attribute stays in the buffer: every later line is shown raw beside an error, and the
  buffer grows. What was found on the same line before the error is shown as part of that raw line only. Blank
  lines are dropped (`LogParser.cpp:103`).

## 8 Not modelled

- Object lifetime: slots that keep their task alive, a reply deleted inside its own signal, raw pointers to earlier controllers or
  removed accounts. Worker threads, except that their results arrive later. Progress and wording.
- Formats and file access without a protocol of their own: versions and rules, worlds, skins, icons, the parsers of the mod
  platforms, archives, links and copies.
- Code without a caller in this core: the installers of ATLauncher, FTB, old FTB and Solder, `CheckUpdateTask`,
  `GetModDependenciesTask`, `ResourceDownloadTask`, the exports of packs, changes of a component's version, watching and editing of
  resource folders.
- Settings beyond the two layers of `JavaSetup`; there a save that fails, which is only logged, is left out too (the file it leaves is one
  that a death before the save would leave). Read, not modelled: `INISettingsObject::reload` compares a value with itself, so
  that no change is announced; keys that were removed from the file stay in memory; `resumeSave` never resets `m_doSave`, which costs
  a save that is not needed.
- Two failures that change nothing further: a copy of an asset that fails is only logged (`AssetsUtils.cpp:263`), and a launch whose
  instance cannot be prepared after its account was waited for (`LaunchController.cpp:249`, `:287`) ends as an aborted one does in `Resume`.
- The C functions, which only convert, and the probe.
