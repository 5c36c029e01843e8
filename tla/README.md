# Verification of PuxDesignFileWatcher

The program compares a directory with what it looked like at the previous run.
A user (Web form) or a client (HTTP API) asks for the analysis of a root
directory; the program reads the manifest it stored the last time, scans the
directory, hashes what may have changed, reports new, changed and deleted
entries with their versions, and stores the next manifest. It never watches a
directory by itself.

This directory holds TLA+ modules that model that program, configurations that
check them with TLC on small instances, and proofs that TLAPS checks.
Paths below are relative to the repository; `App/`, `Dom/`, `Inf/` stand for
`src/PuxDesignFileWatcher.Application/`, `.Domain/`, `.Infrastructure/`.

## 1. Inventory

| Component | State | Operations | Works with |
|---|---|---|---|
| Keyed analysis lock, `Inf/Concurrency/KeyedAnalysisLockService.cs` | `_locks`: full root path (case ignored) → `SemaphoreSlim(1,1)`; `_disposed` of each Releaser | `AcquireAsync`, `DisposeAsync` | called by the use case; one instance per process (`DependencyInjection.cs:28`) |
| Analysis use case, `App/UseCases/AnalyzeDirectory` (with LoadState, DiffState, SaveState) | locals of each running request | `HandleAsync` | every port; called by both hosts |
| File system traversal, `Inf/FileSystem` | stack of directories, files, directories found | `EnumerateFilesAsync` | the directory, which other programs change |
| Hybrid builder and hash, `Inf/Analysis`, `Inf/Hashing` | entries built so far | `BuildCurrentStateAsync`, `ComputeHashAsync` | scan result, previous manifest, file contents |
| Manifest diff, `Dom/Services`, `Dom/Entities`, `Dom/Changes` | none | `Diff` | pure |
| Manifest repositories, `Inf/Storage` | the manifest files | `LoadAsync`, `SaveAsync` | files shared by all processes of a user |
| Manifest path resolver, `Inf/Storage/ManifestPathResolver.cs` | none (creates directories) | `ResolveManifestPath` | storage options, root path |
| Configuration, `Inf/Configuration` | options, read once when the host starts | accessors with defaults | appsettings.json |
| Hosts, `Api/Program.cs`, `Web/Controllers` | none | one endpoint, one form | use case; map outcomes to answers |
| Views, assets, DI and CQRS interfaces | none | none | none |

What is hard here:

* **Concurrency.** Requests interleave at every `await`; the lock is per
  process but the manifest is shared by processes; a cancellation races with
  the hand-off of the lock.
* **A directory that moves.** Size and time are read during the scan, the
  content later; files and directories come, go and change in between.
* **Partial failure.** An `IOException` skips a directory, a file during the
  scan, or a file at hashing, each with a different result.
* **Failure of the whole.** Cancellation, an exception or the death of the
  process may come between any two steps, one of them between the truncation of
  the old manifest and the writing of the new.
* **Numbers.** Versions are `int`s that are incremented unchecked; settings may
  be numbers that no member of an enumeration has.
* **Paths.** One directory has several spellings, the lock and the manifest
  follow from the text of the path; roots share a store; the store may lie
  beneath a root; links make cycles; settings change between runs.
* **Answers.** The hosts turn some outcomes into answers and let others pass,
  and a client knows of a run only what its answer says.

What makes each part correct: the lock excludes, never loses or invents a
permit, serves in order and serves everybody. The diff moves versions by
exactly one per change of content and reports exactly the step it makes. The
builder never lets a hash stand for content it does not belong to. The
analysis as a whole loses no update, stores no more than the limits allow, ends
every request, and keeps a proper history of each root. Resolver and lock
give each root one manifest and one lock and no root another's; the traversal
returns exactly what lies beneath the root but for the store it ignores; a
client that reads every answer knows the stored versions. `PROJECT.json` lists
the hazards behind these at their lines.

## 2. Modules

| Module | What it is |
|---|---|
| `DirectoryData` | constants that the disk and the manifests share |
| `ManifestDiff` | entries, snapshots, change records, `Diff`; also the reference definitions `Succeeds` and `ReportExplains` |
| `WatchedDirectory` | the environment: files and directories under one root, changed by other programs |
| `KeyedAnalysisLock` | the lock: `Acquire`, `CancelWait`, `Dispose` over the runtime's semaphore (`Wait`, `Release`); a specification of its own |
| `AnalyzeDirectory` | the use case with traversal, limits, builder, diff and repositories, await by await; extends the three above |
| `ChangeLedger` | the abstract specification: what the sequence of stored manifests promises |
| `Hosts` | the Api's endpoint and the Web form around `AnalyzeDirectory`: outcome to answer, lists by type, what a client makes of them |
| `StorageConfiguration` | what the Storage settings mean: sections, flat keys, defaults, `Enum.TryParse` |
| `ManifestPath` | `ResolveManifestPath`, the fingerprint, the lock's key, the ignored directory, the choice of the repository |
| `FileTree` | the file system as paths see it: links, letter case, enumeration |
| `Traversal` | one call of `EnumerateFilesAsync` on any tree; extends `FileTree` |
| `RootAnalysis` | requests for several roots with real paths, coarser within a call: locks, stores, formats, restarts with other settings; extends `FileTree`, instantiates `KeyedAnalysisLock` |
| `MCKeyedAnalysisLock`, `MCAnalyzeDirectory`, `MCHosts`, `MCTraversal`, `MCRootAnalysis` | constants for TLC |
| `KeyedAnalysisLockProofs` | theorems about the lock |
| `AnalyzeDirectoryProofs` | the diff, types, exclusion, no lost update |
| `AnalyzeDirectorySnapshotProofs` | metadata and currency of what is stored |
| `AnalyzeDirectoryManifestProofs` | reports, the refinement of `ChangeLedger`, limits |
| `HostsProofs` | the hosts refine the analysis; what a client knows |
| `FileTreeProofs` | lemmas about paths: `Trim`, `Place`, `Reached`, `Entries`, `IsSameOrSubPath`, prefixes and parents |
| `TraversalProofs` | the traversal finds exactly the tree |
| `RootAnalysisProofs` | resolver, locks, histories, scans and restarts of several roots |

`AnalyzeDirectory` EXTENDS the others, so a request's `Submit` *is* the lock's
`Acquire` together with the handler's checks, and every way out of the handler
(`Leave`) *is* the lock's `Dispose` with the locals gone. `ChangeLedger` is
instantiated with a refinement mapping (`Ledger`), and `RecordsHistory` says
that the analysis implements it. `Hosts` conjoins an answer to each of the
analysis's actions. `AnalyzeDirectory` has one root, names as model values and
every step; `RootAnalysis` has few steps and everything that depends on the
text of a path. The two meet in the assumption `LockCoversManifest`
(requests for one manifest share a lock) of the first, which the second looks
into.

### State and actions of `AnalyzeDirectory`

`pc[r]` is the place of request `r` in `HandleAsync`:

```
idle --Submit--> admitted --OpenManifest--> reading --ReadManifest--> loaded
     (queued while handle[r] = "waiting")  \--(no file)---------------^  |
                                                                    StartScan
                                                                         v
 saved <--FinishSave-- writing <--BeginSave-- diffed <--ComputeDiff-- building <--AcceptScan-- scanning
```

`loaded`, `pending`, `listed`, `scanned`, `found`, `built` and `diff` are the
locals `previousSnapshot`, `pendingDirectories`, the names of the directory
being enumerated, the scanned files, the scanned directories, `currentFiles` and
`diffResult`. `touched` and `skipped` are history variables that only the
properties read. The other actions leave the handler with an error
(`CancelQueued`, `ReadTornManifest`, `SharingViolation`, `RootVanished`,
`RejectScan`, `VersionOverflow`, `Abort`), take one directory or file
(`ListDirectory`, `SkipDirectory`, `ReadMetadata`, `SkipFile`, `ReuseHash`,
`HashFile`, `KeepPrevious`), kill a process (`Crash`) or change the directory
(`Environment`). `Abort` stands for the cancellation of a running request and for
every exception nothing catches (access denied is not an `IOException`).

### State and actions of the others

`Hosts` adds `answer` (the answer to the last call of a request) and two history
variables: `told`, the versions that a reader of all answers knows, and `lost`,
the manifests of which an answer was cut off after the save had begun. Its
actions are the analysis's, split by what the host does with the outcome
(`Program.cs:47-61`, `HomeController.cs:28-66`).

`Traversal` keeps the locals of `EnumerateFilesAsync`; `status` tells whether it
runs or how it ended, `skipped` is history. `RootAnalysis` has the file system
(`content`, `folders`), the settings that each host started with, the lock, and
per request `pc`, `loaded` and `current`; `saves` numbers the saves and `latest`
is history. `Restart` kills a host and starts it with other settings,
`UserChanges` is what other programs do, also to the program's own files.

### Abstractions

* Paths are model values. `Paths` are relative paths up to letter case, as the
  dictionaries compare them; `Fold` maps the files of the disk to them.
  Directory names do not collide.
* Contents are model values with a size and a hash. TLC's instances have no
  hash collision; the theorems do not need that.
* A write replaces content and time in one step: the hash provider opens files
  with `FileShare.Read`, which keeps a .NET writer out while it reads. A file
  that is being written fails to open; that is `KeepPrevious`.
* The clock counts writes. `FreshStamps` says that two writes never get the same
  time; without it a metadata-first comparison cannot work, which README.md:45
  and docs/PuxDesignFileWatcher.txt:17 accept.
* The check that the root exists and the wait for the lock are one step, as are
  `File.Exists` and the open of the manifest. The two enumerations of one
  directory see it at one moment (the second may fail alone). The stack is a
  set: the order of visits is arbitrary.
* Truncation and the completion of the write are two steps; a partial manifest
  is `Torn`, whatever part of it was written. JSON and MessagePack agree on that.
* In `AnalyzeDirectory` all requests analyse the same directory; `LockOf` and
  `ManifestOf` say which lock and manifest file each gets. The manifest lies
  outside the root (AppData, the default), so that the scan does not see it.
* A crashed process restarts at once; its requests are forgotten.
* Logging, messages and timestamps of the analysis itself are left out.
* A full path is a sequence of names, a trailing separator a last name of its
  own, since `Path.GetFullPath` keeps it. Names that the resolver makes up are
  records; `SafeName` may give two roots one name, `Digest` may not
  (`ManifestPathAssumption`). How characters are replaced and hashed is left out,
  as is the length of names.
* `Place` resolves links and, on a file system without case, letter case.
  The system follows at most `MaxLinks` links in a path; that is what ends a
  traversal through a cycle.
* In `RootAnalysis` a scan with its hashing is one step and so is a save; versions
  are left out. `CreatesStorage` is the `Directory.CreateDirectory` in the
  resolver, which both load and save call.
* Settings are texts: members of the enumeration, numerals, or neither.
* The lists in an answer are sets of items: their order is layout. Model
  binding, the antiforgery token and the views are left out. A client
  recognises the deleted directory by its version 0.

## 3. Runs

`Paths` equals `Names` unless the run is about names that differ in case. Where
requests (or contents) are alike and no liveness is asked for, `SYMMETRY` swaps
them; in `two_hosts` it swaps the hosts together with their requests and locks.

| Run | Instance | Question |
|---|---|---|
| `lock` | 4 requests on one root, 2 on another | Does the lock exclude, conserve permits, keep queue and handles in step, serve in order, and serve everyone? Four requests allow a holder with three queued behind it, so that a cancellation can hit the first, a middle and the last place in the queue. |
| `one_host` | 2 requests, file `a`, directory `d` with file `b`, 2 contents, 2 writes | Everything at once in one process: exclusion, no lost update, sound metadata, current snapshots, complete reports, a proper history. Two requests suffice for overlap; a nested file for a traversal that can be interrupted between levels; two writes for new-then-changed and for a write between scan and hash. |
| `two_hosts` | 2 processes with a lock each, files `a` and `b`, at most 1 file allowed, `MaxInt` = 1, 2 writes | What survives without mutual exclusion: hashes stay safe to reuse, each snapshot is current, nothing over the limits is stored, also when scans overlap, collide or are rejected and versions overflow. |
| `liveness` | 3 requests, nested file, fairness | Does every request end? Three, so that one queues behind another that queues. |
| `answers` | a host, 2 requests, a file and a directory whose paths are the same, 3 contents of which one is too big, 3 writes, `MaxInt` = 2 | Does a client that reads every answer know the stored versions? Also: types and limits over several runs, past the largest version. |
| `traversal` | all trees over 4 directories and 2 files, a link back to the root, 5 settings, 2 spellings, one directory that may be denied | Does the traversal return exactly what lies beneath the root, and end? |
| `roots` | 2 roots with the same safe name, settings that all mean AppData or all mean PerRoot, 3 saves, other programs that make and remove directories and files, one of them named like the store | Does each root keep one history of its own? Does a scan see the user's files and none of the program's? Is the loss of a root ever reported as the deletion of all its files? Three saves: two of one root and one of the other in between. |
| `letter_case` | 2 requests that spell one root in different case, all formats, 2 saves | Do such requests exclude each other, and does a host that comes back with another format, perhaps an undefined one, only read what it can? |

Four runs show that the code does not do what the documents say (`findings` in
`PROJECT.json` quotes them):

* `cancelled_save`: a save that is cancelled or fails after the truncation
  leaves a manifest that no later run can load; the history is gone and every
  analysis of that root fails until someone deletes the file.
* `locked_file`: a file or directory that throws an `IOException` during the
  traversal is reported as deleted, and as new with version 1 when it can be
  read again. (The builder, by contrast, keeps the previous entry of a file it
  cannot hash.)
* `case_collision`: on a case-sensitive file system, files whose names differ
  in case only share one entry.
* `two_spellings`: `/data` and `/data/` have two locks and two manifests, so that
  two analyses of one directory overlap in one process.

What the models also show, where no document promises otherwise, is left to
the conditions of the properties rather than to runs of its own:

* Two hosts, or two instances of one, analyse a root at the same time and the
  last writer wins; README.md:47 of the repository says that instances share no
  state. `NoLostUpdate` is therefore checked in one process only.
* A change of format, mode or base path between runs starts a new history or
  takes up an old one; `roots` keeps each host within settings that mean the
  same.
* On a file system without letter case the lock is shared by spellings that
  differ in case, the manifest is not: `letter_case` does not check
  `ComparedWithPreviousRun`.
* The ignored directory exists in PerRoot mode with a base path only. With a
  blank base path, or with the application data beneath the root, a scan takes
  in the program's own manifest and each run reports it; `roots` has neither.
* In PerRoot mode the resolver creates the store of a root that was removed after
  it was checked, and so the root. `RemovedRootStartsAfresh` says what comes of it
  when the manifest is loaded: the history went with the root, so its files are
  not reported as deleted. A root that is removed between the scan and the save
  is made anew by the save, with a manifest of files that are gone; the next run
  reports those, and no property speaks of it.

Deadlock is checked in all runs but `traversal`, where the one call ends.
Bounds: `MaxClock` limits the number of writes, `MaxSaves` that of saves in
`RootAnalysis`, `MaxInt` shrinks the version type, `MaxDepth` (6) is more than the
deepest path of the instance with one link followed; `MaxFileCount` and
`MaxFileSize` are the limits of the program, `MaxLinks` that of the file system.
Nothing else is unbounded: requests return to `idle` and may be submitted again
for ever.

**Fairness.** `LockFairness`: whoever has the lock disposes its handle, because
the handler holds it with `await using` (`AnalyzeDirectoryCommandHandler.cs:58`).
`Fairness`: a request that can proceed eventually does, because the runtime runs
every ready continuation; it says nothing about which step succeeds. In
`Traversal` it is the loop that goes on while nobody cancels it. Nothing
is assumed of callers, cancellations, crashes or the environment. The first
waiter is served because the semaphore hands its permit over (`ServedInOrder`).

## 4. Proofs

* **The lock.** `LockInv` = types, `MutualExclusion`, `PermitConserved` and
  `QueueMatchesHandles` together are inductive, none of them is alone: that a
  release hands the lock to exactly one live handle needs the queue to hold each
  waiter once, and that an acquire of a free permit meets no holder needs the
  permits. The analysis reuses the lemmas action by action, since its steps
  change the lock through `Acquire`, `CancelWait` and `Dispose` only (or,
  `Crash`, reset whole locks).
* **The diff.** `DiffIsRight`: when `Diff` does not throw, its snapshot
  succeeds the previous one (version 1 or plus one per change of content) and
  its report explains the step exactly, for all tables.
* **Types, exclusion, no lost update.** `TypeCorrect` from
  `BaseInv` = `TypeOK` /\ `LockInv` /\ `StageMatchesHandle` (a request beyond
  `admitted` holds its lock; an idle one holds nothing). `AnalysesDoNotOverlap`
  and `NoUpdateIsLost` assume `LockCoversManifest`: requests for one manifest
  share a lock. That holds within one process, where lock key and manifest path
  follow from the same full path, and fails between processes.
  The strengthening for lost updates adds what a writer knows while its manifest
  is torn.
* **Metadata.** `MetadataIsSound` holds without any assumption on locks: its
  invariant says that not only the manifests but every table on the way to one
  (loaded, built, diffed) is sound for the files on the disk, and that no entry
  and no scanned description is from the future. A later write gets a time no
  table knows, so it cannot make a sound entry unsound; that is where
  `FreshStamps` comes in, and one key per file (`IsInjective(Fold)`) is needed so
  that an entry is about one file only.
* **Reports and history.** `DiffInv`: until it is stored, a result belongs to the
  manifest that was loaded; this follows from `DiffIsRight` and gives
  `ReportsAreComplete` without any assumption on locks. `HistoryIsRecorded`
  (under `LockCoversManifest`) proves that the analysis implements
  `ChangeLedger`. `Ledger` counts a manifest that is being rewritten as the one
  its writer read, so `BeginSave` is a stutter, `FinishSave` records, and a
  writer that leaves or dies loses its manifest. `UpdateInv` says that what the
  writer read is what the manifest was, `DiffInv` that what it writes may follow
  it, `LedgerIs` (from exclusion) that a manifest has one writer at most.

* **Currency.** `SnapshotsAreCurrent` follows each name and directory that has
  neither been touched nor skipped since the scan began through the stages: in
  a directory that is still to be listed, listed, scanned, built, diffed. That
  this covers everything needs the directories to form a tree (`IsTree`, part of
  `WatchedDirectoryAssumption`): one directory contains each name, and the way
  up from it ends at the root. A reused hash is right because of the invariant
  of `MetadataIsSound`, so its two assumptions are needed here as well.
* **Limits.** `LimitsAreKept`: the limits are checked on the scan, but a stored
  entry may be one of the manifest that was read, and sizes come from the scan
  or from there. The invariant bounds every table on the way: it never has
  more entries than names scanned, and a kept entry came from a manifest that
  was within the limits. The set of names must be finite, to be counted.
  The limits are constants: a host that comes back with lower ones is not
  covered, and a kept entry may then exceed them.
* **Paths.** `ManifestPathTellsRoot` and `ManifestPathTellsFormat` are about the
  resolver alone: whatever the settings, equal manifest paths (up to case) have
  equal roots and formats. The file name tells PerRoot from AppData and the
  extension the format; the fingerprint is in the file's name or in its
  directory's. Assumed are the types of names (`NamesAreTyped`) and that no
  made-up name has another spelling (`MadeUpNames`).
* **Hosts.** `HostsOnlyAnswer` is a refinement without a mapping: every step of
  the hosts is a step of the analysis or leaves it alone, so `HostSpec` implies
  `Spec` and every theorem about the analysis holds under the hosts.
  `AnswersAreEnough` (under `LockCoversManifest`) adds `ReportInv` (a report
  explains its step, and only directories are deleted with version 0) and
  `ToldInv`: while nobody owes an answer for a manifest, what was told is what is
  stored; while somebody does, it is what that request has loaded.
* **File tree.** What a path leads to is a recursive function over its length, and
  the library's induction theorems take an operator as a parameter. The proofs
  use the least counterexample instead (`Least`, of a subset of `Nat`, from
  the library's theorem on well-founded orders, which takes a set): `Recursion`
  unfolds the function, and every claim about paths of any length is proved by
  looking at the shortest path of which it is false. `PlaceWithoutLinks`: without
  links, the place of a path is its names, as the file system stores them.
* **Traversal.** The code keeps no record of the directories it has enumerated.
  The invariant `TraversalInv` says that there *is* such a set `V`
  (`Explored(V)`): whatever a member of `V` lists is pending, skipped, ignored,
  a member of `V` or in the result. `TraversalFindsTheTree` needs both
  directions: what the reference definition reaches was enumerated, level by
  level from the root; and what was enumerated is in some level up to `MaxDepth`.
  The second rests on the bound of the system on links: a path goes at most
  `Deepest` names down from the root or from a link (`Near`).
  `InstanceIsProper` states what names and places are and that `MaxDepth`, which
  is the reference definition's and not the code's, is beyond that bound. With
  `Deepest` = 2 and one link it asks for at least 6, the value of the run.
* **Roots.** `AnalysesDoNotOverlap` of `RootAnalysisProofs` reuses the lock's lemmas
  through an instance, and `ResetKeepsLockInv` for restarts. It assumes that
  paths which lead to one directory have one lock key; `two_spellings` has two
  requests of which that is false. `HistoriesStayApart` and
  `ManifestsStayReadable` have one invariant, `HistoryInv`: at every place that is
  a manifest's under some settings lies nothing or a manifest of that root and
  format. A save keeps it because of the two theorems on paths and
  `StoresAreApart` (no links join two stores, nobody else writes manifests).
* **Comparison with the previous run.** `EachRunFollowsTheLast` proves
  `ComparedWithPreviousRun` from `CompareInv`, three parts of which none is
  inductive alone: the number of a save is in one manifest (`NumbersInv`, so that
  a manifest which other programs remove is gone for good); what the last analysis
  of a directory stored lies where the next one looks (`LatestInv`); and a request
  that has loaded holds its lock, and what it loaded is still the last or was
  removed (`LoadedInv`, from the lock's invariant). `OneHistoryEach` is what the
  code promises this for: one spelling and one process for each directory, and
  settings that keep the manifest in its place. Section 3 says what happens
  otherwise.
* **What a scan sees.** `UserFilesAreSeen` and `ScansLeaveStoresOut` use the lemmas
  about `IsSameOrSubPath`, `Combine` and `Place` for paths of any length, without
  links (`PathsAreTyped`). The first assumes that the letter case of names makes no
  difference (`CaseTellsNothing`): on a case-sensitive system the user's own
  `STORE` beside the root's `store` is ignored with it, since the code compares
  without case. The second has the invariant `OwnInv`: manifests lie only where
  settings put them that hosts may have run with. It assumes that such
  settings agree on the place of the stores (`SettingsAgree`) and that no root
  is above a store that the code does not ignore for it (`RootsAreApart`): the
  store of AppData mode, or that of another root. The code has these
  exceptions, see section 3.
* **Removed roots.** `RemovedRootsStartAfresh` holds in every mode. The load
  makes directories before it looks for the manifest, so the question is whether
  a manifest can lie in a store beneath a root that is not there. `ClosedInv` says
  that whatever is somewhere is in a directory, up to the top: each creation adds
  all parents, and a removal takes all that was beneath. If the load makes the
  root, the root is the store or above it, so the store was gone before, and the
  manifest with it. Links may lead anywhere, but a manifest is no link itself and
  base paths end in no separator (`ManifestsAreFiles`); the directories that are
  there at first are in directories (`UserTreeIsProper`).

The assumptions on paths and settings are true of the instance of the run
`roots` (of `letter_case` those of `AnalysesDoNotOverlap` and
`ManifestsStayReadable`), and its states satisfy the inductive invariants
`ShapeInv`, `CompareInv`, `OwnInv` and `ClosedInv`; likewise `InstanceIsProper` is true of
`traversal`. TLC cannot evaluate two parts, which compare values of different
kinds: that null is not a path (`StoresAreNamed`), and that what others write is
no snapshot (`OneHistoryEach`).

Every invariant and action property of the passing runs is a theorem. Only
model-checked are the liveness properties `EveryWaiterServed`,
`EveryRequestAnswered` and `EveryTraversalEnds` (fairness and `ENABLED` are out of
the prover's reach), and the four disagreements, which are counterexamples.

## 5. Not modelled

* The page script `src/PuxDesignFileWatcher.Web/wwwroot/js/site.js` consists of
  four lines of comment. It has no state or behaviour, and no definition here
  stands for it; all of the program's behaviour is in its C# projects, which is
  what the modules translate.
* Views, styles and `wwwroot/lib`: rendering, and vendored libraries.
* Dependency injection and the CQRS interfaces: no state. That the lock service
  is a singleton is the reason why there is one lock table per process.
* The parsing of the analysis limits: a positive number or the default of 100
  files and 50 MB, times 2^20 in 64 bits, which cannot overflow. The limits are
  constants of `AnalyzeDirectory`.
* The mapper between snapshots and their stored form: it is the identity on
  what the program itself has stored. A manifest that another program has
  edited is not modelled.
* The save at the grain of buffers (a partial file is `Torn` whatever part was
  written), hash and serialisation libraries, logging.
* Growth of the lock's dictionary, which never loses a key, and names that are
  too long for the file system.

Left for later: properties of the traversal under concurrent changes with
links, and changing limits between runs.

## 6. Running

```
tlc -config AnalyzeDirectory_one_host.cfg MCAnalyzeDirectory.tla
tlc -config KeyedAnalysisLock.cfg MCKeyedAnalysisLock.tla
tlc -config RootAnalysis_roots.cfg MCRootAnalysis.tla
tlapm RootAnalysisProofs.tla
```
