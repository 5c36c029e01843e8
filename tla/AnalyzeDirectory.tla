-------------------------- MODULE AnalyzeDirectory --------------------------
(***************************************************************************)
(* The analysis of one directory, end to end                               *)
(* (AnalyzeDirectoryCommandHandler.HandleAsync): lock, load the manifest,  *)
(* scan, check the limits, build the current state, diff, save, return.    *)
(* Requests run concurrently, in one host process or in several that share *)
(* the manifests, while other programs change the directory.               *)
(*                                                                         *)
(* All requests analyse the same directory.  LockOf and ManifestOf are     *)
(* what the host and the spelling of the request's root path make of it.   *)
(***************************************************************************)
EXTENDS ManifestDiff, WatchedDirectory, KeyedAnalysisLock, FiniteSets

CONSTANTS
    Hosts,         \* processes: the Web and the Api host, or instances of them
    HostOf,        \* the host that serves each request
    Manifests,     \* manifest files
    ManifestOf,    \* the manifest file of each request's root path
    Fold,          \* the manifest key (path, case ignored) of each file
    MaxFileCount,  \* AnalysisLimits
    MaxFileSize,
    Torn           \* a manifest file that was truncated and not rewritten

FileInfo == [size : Nat, mtime : Nat]

ASSUME AnalyzeDirectoryAssumption ==
    /\ HostOf \in [Requests -> Hosts]
    /\ \A r, s \in Requests : LockOf[r] = LockOf[s] => HostOf[r] = HostOf[s]
    /\ ManifestOf \in [Requests -> Manifests]
    /\ Fold \in [Names -> Paths]
    /\ MaxFileCount \in Nat
    /\ MaxFileSize \in Nat
    /\ Torn \notin Snapshot \cup {Absent}
    /\ Missing \notin FileInfo

VARIABLES
    manifest,  \* the manifest files
    pc,        \* where each request is in HandleAsync
    loaded,    \* previousSnapshot
    pending,   \* pendingDirectories of the traversal
    listed,    \* names of the directory being enumerated, not looked at yet
    scanned,   \* scannedSnapshot.Files; the builder takes them off one by one
    found,     \* scannedSnapshot.Directories
    built,     \* currentFiles
    diff,      \* diffResult
    touched,   \* history: names changed on disk since the scan began
    skipped    \* history: names whose reading failed with an IOException

scanVars == <<pending, listed, scanned, found>>
workVars == <<loaded, built, diff>>
historyVars == <<touched, skipped>>
vars == <<lockVars, diskVars, manifest, pc, scanVars, workVars, historyVars>>

Stages == {"idle", "admitted", "reading", "loaded", "scanning", "building",
           "diffed", "writing", "saved"}

NothingScanned == [n \in Names |-> Missing]

InfoOf(file) == [size |-> SizeOf[file.content], mtime |-> file.mtime]

Init ==
    /\ LockInit
    /\ DiskInit
    /\ manifest = [m \in Manifests |-> Absent]
    /\ pc = [r \in Requests |-> "idle"]
    /\ loaded = [r \in Requests |-> Absent]
    /\ pending = [r \in Requests |-> {}]
    /\ listed = [r \in Requests |-> {}]
    /\ scanned = [r \in Requests |-> NothingScanned]
    /\ found = [r \in Requests |-> {}]
    /\ built = [r \in Requests |-> NoFiles]
    /\ diff = [r \in Requests |-> NoDiff]
    /\ touched = [r \in Requests |-> {}]
    /\ skipped = [r \in Requests |-> {}]

-----------------------------------------------------------------------------
GoTo(r, stage) == pc' = [pc EXCEPT ![r] = stage]

(* The locals of the requests R go out of scope.                           *)
Forget(R) ==
    LET Clear(f, value) == [r \in Requests |-> IF r \in R THEN value ELSE f[r]]
    IN  /\ loaded' = Clear(loaded, Absent)
        /\ pending' = Clear(pending, {})
        /\ listed' = Clear(listed, {})
        /\ scanned' = Clear(scanned, NothingScanned)
        /\ found' = Clear(found, {})
        /\ built' = Clear(built, NoFiles)
        /\ diff' = Clear(diff, NoDiff)
        /\ touched' = Clear(touched, {})
        /\ skipped' = Clear(skipped, {})

(* HandleAsync returns or throws: `await using` disposes the lock handle.  *)
Leave(r) ==
    /\ Dispose(r)
    /\ GoTo(r, "idle")
    /\ Forget({r})
    /\ UNCHANGED <<diskVars, manifest>>

(* The requests, of any host, that have manifest file m open.  FileShare   *)
(* keeps a writer alone and lets readers in together; an open that it      *)
(* refuses throws an IOException.                                          *)
ReadersOf(m) == {r \in Requests : ManifestOf[r] = m /\ pc[r] = "reading"}
WritersOf(m) == {r \in Requests : ManifestOf[r] = m /\ pc[r] = "writing"}

-----------------------------------------------------------------------------
(* The root exists; AcquireAsync takes the lock or queues.                 *)
Submit(r) ==
    /\ pc[r] = "idle"
    /\ Exists(Root)
    /\ Acquire(r)
    /\ GoTo(r, "admitted")
    /\ UNCHANGED <<diskVars, manifest, scanVars, workVars, historyVars>>

(* The client gives up while its request is queued.                        *)
CancelQueued(r) ==
    /\ pc[r] = "admitted"
    /\ CancelWait(r)
    /\ GoTo(r, "idle")
    /\ UNCHANGED <<diskVars, manifest, scanVars, workVars, historyVars>>

(* Mutant of OpenManifest: the manifest is loaded before the lock is held. *)
OpenBeforeGrant(r) ==
    /\ pc[r] = "admitted"
    /\ WritersOf(ManifestOf[r]) = {}
    /\ \/ manifest[ManifestOf[r]] = Absent /\ GoTo(r, "loaded")
       \/ manifest[ManifestOf[r]] # Absent /\ GoTo(r, "reading")
    /\ UNCHANGED <<lockVars, diskVars, manifest, scanVars, workVars, historyVars>>

(* LoadAsync up to the open: no file, no previous snapshot.                *)
OpenManifest(r) ==
    /\ pc[r] = "admitted"
    /\ handle[r] = "live"
    /\ WritersOf(ManifestOf[r]) = {}
    /\ \/ manifest[ManifestOf[r]] = Absent /\ GoTo(r, "loaded")
       \/ manifest[ManifestOf[r]] # Absent /\ GoTo(r, "reading")
    /\ UNCHANGED <<lockVars, diskVars, manifest, scanVars, workVars, historyVars>>

ReadManifest(r) ==
    /\ pc[r] = "reading"
    /\ manifest[ManifestOf[r]] # Torn
    /\ loaded' = [loaded EXCEPT ![r] = manifest[ManifestOf[r]]]
    /\ GoTo(r, "loaded")
    /\ UNCHANGED <<lockVars, diskVars, manifest, scanVars, built, diff, historyVars>>

(* Deserialisation throws on an empty or cut-off file.                     *)
ReadTornManifest(r) ==
    /\ pc[r] = "reading"
    /\ manifest[ManifestOf[r]] = Torn
    /\ Leave(r)

(* Another process has the file open.                                      *)
SharingViolation(r) ==
    /\ \/ /\ pc[r] = "admitted"
          /\ handle[r] = "live"
          /\ WritersOf(ManifestOf[r]) # {}
       \/ /\ pc[r] = "diffed"
          /\ WritersOf(ManifestOf[r]) \cup ReadersOf(ManifestOf[r]) # {}
    /\ Leave(r)

-----------------------------------------------------------------------------
StartScan(r) ==
    /\ pc[r] = "loaded"
    /\ Exists(Root)
    /\ pending' = [pending EXCEPT ![r] = {Root}]
    /\ GoTo(r, "scanning")
    /\ UNCHANGED <<lockVars, diskVars, manifest, listed, scanned, found,
                   workVars, historyVars>>

(* The next directory is popped off the stack.                             *)
Visiting(r, d) ==
    /\ pc[r] = "scanning"
    /\ listed[r] = {}
    /\ d \in pending[r]

(* The root is gone before or at its enumeration.                          *)
RootVanished(r) ==
    /\ pc[r] = "loaded" \/ Visiting(r, Root)
    /\ ~Exists(Root)
    /\ Leave(r)

(* Mutant of ListDirectory: its directories are noted but not visited.     *)
ListWithoutDescending(r, d) ==
    /\ Visiting(r, d)
    /\ Exists(d)
    /\ pending' = [pending EXCEPT ![r] = @ \ {d}]
    /\ found' = [found EXCEPT ![r] = @ \cup DirsIn(d)]
    /\ listed' = [listed EXCEPT ![r] = FilesIn(d)]
    /\ UNCHANGED <<lockVars, diskVars, manifest, pc, scanned, workVars, historyVars>>

(* Both enumerations of directory d.  The second one may fail alone: the   *)
(* files of d are skipped then, its directories are not.                   *)
ListDirectory(r, d) ==
    /\ Visiting(r, d)
    /\ Exists(d)
    /\ pending' = [pending EXCEPT ![r] = (@ \ {d}) \cup DirsIn(d)]
    /\ found' = [found EXCEPT ![r] = @ \cup DirsIn(d)]
    /\ \/ /\ listed' = [listed EXCEPT ![r] = FilesIn(d)]
          /\ UNCHANGED skipped
       \/ /\ skipped' = [skipped EXCEPT ![r] = @ \cup (Inside(d) \cap Names)]
          /\ UNCHANGED listed
    /\ UNCHANGED <<lockVars, diskVars, manifest, pc, scanned, workVars, touched>>

(* The first enumeration of d fails: the directory is gone, or cannot be   *)
(* read.  Nothing beneath it is visited.                                   *)
SkipDirectory(r, d) ==
    /\ Visiting(r, d)
    /\ d = Root => Exists(d)
    /\ pending' = [pending EXCEPT ![r] = @ \ {d}]
    /\ skipped' = [skipped EXCEPT ![r] = @ \cup Beneath[d]]
    /\ UNCHANGED <<lockVars, diskVars, manifest, pc, listed, scanned, found,
                   workVars, touched>>

(* FileInfo reads the size and the last-write time of n in one call.       *)
ReadMetadata(r, n) ==
    /\ pc[r] = "scanning"
    /\ n \in listed[r]
    /\ Exists(n)
    /\ listed' = [listed EXCEPT ![r] = @ \ {n}]
    /\ scanned' = [scanned EXCEPT ![r][n] = InfoOf(disk[n])]
    /\ UNCHANGED <<lockVars, diskVars, manifest, pc, pending, found,
                   workVars, historyVars>>

(* ... or throws an IOException, which it must when n is gone.             *)
SkipFile(r, n) ==
    /\ pc[r] = "scanning"
    /\ n \in listed[r]
    /\ listed' = [listed EXCEPT ![r] = @ \ {n}]
    /\ skipped' = [skipped EXCEPT ![r] = @ \cup {n}]
    /\ UNCHANGED <<lockVars, diskVars, manifest, pc, pending, scanned, found,
                   workVars, touched>>

ScanComplete(r) ==
    /\ pc[r] = "scanning"
    /\ pending[r] = {}
    /\ listed[r] = {}

Scanned(r) == {n \in Names : scanned[r][n] # Missing}

(* Mutants of WithinLimits: one of the limits is not checked.              *)
SizesWithinLimit(r) == \A n \in Scanned(r) : scanned[r][n].size <= MaxFileSize

CountWithinLimit(r) == Cardinality(Scanned(r)) <= MaxFileCount

WithinLimits(r) ==
    /\ Cardinality(Scanned(r)) <= MaxFileCount
    /\ \A n \in Scanned(r) : scanned[r][n].size <= MaxFileSize

AcceptScan(r) ==
    /\ ScanComplete(r)
    /\ WithinLimits(r)
    /\ GoTo(r, "building")
    /\ UNCHANGED <<lockVars, diskVars, manifest, scanVars, workVars, historyVars>>

RejectScan(r) ==
    /\ ScanComplete(r)
    /\ ~WithinLimits(r)
    /\ Leave(r)

-----------------------------------------------------------------------------
(* The builder takes the scanned file n, and `entry` becomes the current   *)
(* state of its path; Missing leaves the path as it is.                    *)
Build(r, n, entry) ==
    /\ scanned' = [scanned EXCEPT ![r][n] = Missing]
    /\ built' = IF entry = Missing THEN built
                ELSE [built EXCEPT ![r][Fold[n]] = entry]
    /\ UNCHANGED <<lockVars, diskVars, manifest, pc, pending, listed, found,
                   loaded, diff, touched>>

PreviousEntry(r, n) == PreviousFiles(loaded[r])[Fold[n]]

(* Mutant of CanReuseHash: the size alone decides.                         *)
SameSize(previous, info) ==
    /\ previous # Missing
    /\ previous.size = info.size

CanReuseHash(previous, info) ==
    /\ previous # Missing
    /\ previous.size = info.size
    /\ previous.mtime = info.mtime

(* Mutant of EntryOf: a new file starts at version 0.                      *)
EntryFromZero(info, hash, previous) ==
    [size    |-> info.size,
     mtime   |-> info.mtime,
     hash    |-> hash,
     version |-> IF previous = Missing THEN 0 ELSE previous.version]

EntryOf(info, hash, previous) ==
    [size    |-> info.size,
     mtime   |-> info.mtime,
     hash    |-> hash,
     version |-> IF previous = Missing THEN 1 ELSE previous.version]

ReuseHash(r, n) ==
    LET previous == PreviousEntry(r, n)
        info == scanned[r][n]
    IN  /\ pc[r] = "building"
        /\ n \in Scanned(r)
        /\ CanReuseHash(previous, info)
        /\ Build(r, n, EntryOf(info, previous.hash, previous))
        /\ UNCHANGED skipped

(* ComputeHashAsync reads the file as it is by now; the size and the time  *)
(* of the entry are those of the scan.                                     *)
HashFile(r, n) ==
    LET previous == PreviousEntry(r, n)
        info == scanned[r][n]
    IN  /\ pc[r] = "building"
        /\ n \in Scanned(r)
        /\ ~CanReuseHash(previous, info)
        /\ Exists(n)
        /\ Build(r, n, EntryOf(info, HashOf[disk[n].content], previous))
        /\ UNCHANGED skipped

(* Opening or reading the file throws an IOException, which it must when   *)
(* the file is gone: its previous entry, if any, stays.                    *)
KeepPrevious(r, n) ==
    LET previous == PreviousEntry(r, n)
    IN  /\ pc[r] = "building"
        /\ n \in Scanned(r)
        /\ ~CanReuseHash(previous, scanned[r][n])
        /\ Build(r, n, previous)
        /\ skipped' = [skipped EXCEPT ![r] = @ \cup {n}]

-----------------------------------------------------------------------------
ComputeDiff(r) ==
    /\ pc[r] = "building"
    /\ Scanned(r) = {}
    /\ ~DiffThrows(loaded[r], built[r])
    /\ diff' = [diff EXCEPT ![r] = Diff(loaded[r], built[r], found[r])]
    /\ built' = [built EXCEPT ![r] = NoFiles]
    /\ found' = [found EXCEPT ![r] = {}]
    /\ GoTo(r, "diffed")
    /\ UNCHANGED <<lockVars, diskVars, manifest, pending, listed, scanned,
                   loaded, historyVars>>

VersionOverflow(r) ==
    /\ pc[r] = "building"
    /\ Scanned(r) = {}
    /\ DiffThrows(loaded[r], built[r])
    /\ Leave(r)

(* FileMode.Create truncates the old manifest ...                          *)
BeginSave(r) ==
    /\ pc[r] = "diffed"
    /\ WritersOf(ManifestOf[r]) \cup ReadersOf(ManifestOf[r]) = {}
    /\ manifest' = [manifest EXCEPT ![ManifestOf[r]] = Torn]
    /\ touched' = [touched EXCEPT ![r] = {}]
    /\ skipped' = [skipped EXCEPT ![r] = {}]
    /\ GoTo(r, "writing")
    /\ UNCHANGED <<lockVars, diskVars, scanVars, workVars>>

(* ... and the new one is complete when serialisation is.                  *)
FinishSave(r) ==
    /\ pc[r] = "writing"
    /\ manifest' = [manifest EXCEPT ![ManifestOf[r]] = diff[r].next]
    /\ GoTo(r, "saved")
    /\ UNCHANGED <<lockVars, diskVars, scanVars, workVars, historyVars>>

Return(r) ==
    /\ pc[r] = "saved"
    /\ Leave(r)

-----------------------------------------------------------------------------
(* The token is cancelled, or an exception that nothing catches is thrown  *)
(* (access denied, disk full, ...).  No await follows the save.            *)
Abort(r) ==
    /\ pc[r] \in Stages \ {"idle", "saved"}
    /\ handle[r] = "live"
    /\ Leave(r)

(* A host process dies: its locks and requests die with it, the manifest   *)
(* files stay as they are.  It is restarted at once.                       *)
Crash(h) ==
    LET R == {r \in Requests : HostOf[r] = h}
        L == {LockOf[r] : r \in R}
    IN  /\ \E r \in R : pc[r] # "idle"
        /\ permits' = [l \in Locks |-> IF l \in L THEN 1 ELSE permits[l]]
        /\ queue' = [l \in Locks |-> IF l \in L THEN << >> ELSE queue[l]]
        /\ handle' = [r \in Requests |-> IF r \in R THEN "none" ELSE handle[r]]
        /\ pc' = [r \in Requests |-> IF r \in R THEN "idle" ELSE pc[r]]
        /\ Forget(R)
        /\ UNCHANGED <<diskVars, manifest>>

(* Other programs change the directory while analyses run.                 *)
Environment(x) ==
    /\ ChangeOf(x)
    /\ touched' = [r \in Requests |->
                      IF pc[r] \in {"scanning", "building", "diffed"}
                      THEN touched[r] \cup {x} ELSE touched[r]]
    /\ UNCHANGED <<lockVars, manifest, pc, scanVars, workVars, skipped>>

-----------------------------------------------------------------------------
(* What HandleAsync does by itself once it has been called.                *)
Proceed(r) ==
    \/ OpenManifest(r) \/ ReadManifest(r) \/ ReadTornManifest(r)
    \/ SharingViolation(r)
    \/ StartScan(r) \/ RootVanished(r)
    \/ \E d \in Dirs : ListDirectory(r, d) \/ SkipDirectory(r, d)
    \/ \E n \in Names : ReadMetadata(r, n) \/ SkipFile(r, n)
    \/ AcceptScan(r) \/ RejectScan(r)
    \/ \E n \in Names : ReuseHash(r, n) \/ HashFile(r, n) \/ KeepPrevious(r, n)
    \/ ComputeDiff(r) \/ VersionOverflow(r)
    \/ BeginSave(r) \/ FinishSave(r) \/ Return(r)

Next ==
    \/ \E r \in Requests : Submit(r) \/ CancelQueued(r) \/ Proceed(r) \/ Abort(r)
    \/ \E h \in Hosts : Crash(h)
    \/ \E x \in Names \cup Dirs : Environment(x)

(* Every handler that runs keeps running; nobody has to call it, cancel it *)
(* or touch the directory.                                                 *)
Fairness == \A r \in Requests : WF_vars(Proceed(r))

Spec == Init /\ [][Next]_vars

FairSpec == Spec /\ Fairness
-----------------------------------------------------------------------------
AnalysisTypeOK ==
    /\ manifest \in [Manifests -> Snapshot \cup {Absent, Torn}]
    /\ pc \in [Requests -> Stages]
    /\ loaded \in [Requests -> Snapshot \cup {Absent}]
    /\ pending \in [Requests -> SUBSET Dirs]
    /\ listed \in [Requests -> SUBSET Names]
    /\ scanned \in [Requests -> [Names -> FileInfo \cup {Missing}]]
    /\ found \in [Requests -> SUBSET Subdirs]
    /\ built \in [Requests -> FileTable]
    /\ diff \in [Requests -> DiffResult]
    /\ touched \in [Requests -> SUBSET (Names \cup Dirs)]
    /\ skipped \in [Requests -> SUBSET (Names \cup Dirs)]

TypeOK == LockTypeOK /\ DiskTypeOK /\ AnalysisTypeOK

(* A request is inside the lock.                                           *)
Analyzing(r) == pc[r] # "idle" /\ handle[r] = "live"

(* Within one process, a root that is spelled in one way has one lock and  *)
(* one manifest.                                                           *)
LockCoversManifest ==
    \A r, s \in Requests : ManifestOf[r] = ManifestOf[s] => LockOf[r] = LockOf[s]

(* At most one analysis works on a manifest at a time                      *)
(* (.github/copilot-instructions.md:67).                                   *)
OneAnalysisPerManifest ==
    \A r, s \in Requests :
        Analyzing(r) /\ Analyzing(s) /\ ManifestOf[r] = ManifestOf[s] => r = s

(* No lost update: from the moment an analysis has read the manifest until *)
(* it overwrites it, the manifest is the one it read; and what it returns  *)
(* is what it has stored.  Without it a version would be skipped or given  *)
(* twice, and a change reported twice or never.                            *)
NoLostUpdate ==
    \A r \in Requests :
        /\ pc[r] \in {"loaded", "scanning", "building", "diffed"}
              => manifest[ManifestOf[r]] = loaded[r]
        /\ pc[r] = "saved" => manifest[ManifestOf[r]] = diff[r].next

(* An entry tells the truth about any file that still looks like it.       *)
SoundFor(entry, file) ==
    /\ entry # Missing
    /\ file # Missing
    /\ InfoOf(file) = [size |-> entry.size, mtime |-> entry.mtime]
    => entry.hash = HashOf[file.content]

Sound(files) == \A n \in Names : SoundFor(files[Fold[n]], disk[n])

(* The hash of a stored entry may be reused for a file of the same size    *)
(* and last-write time: although size and time are read at the scan and    *)
(* the content only later, when it may be another one, no manifest ever    *)
(* pairs a file's current size and time with a hash that is not its own.   *)
MetadataSound ==
    \A m \in Manifests :
        manifest[m] \notin {Absent, Torn} => Sound(manifest[m].files)

(* The new snapshot is the directory as it is, except for the files and    *)
(* directories that changed since the scan began or could not be read.     *)
SnapshotIsCurrent ==
    \A r \in Requests : pc[r] = "diffed" =>
        /\ \A n \in Names \ (touched[r] \cup skipped[r]) :
              LET entry == diff[r].next.files[Fold[n]] IN
              IF disk[n] = Missing THEN entry = Missing
              ELSE /\ entry # Missing
                   /\ entry.hash = HashOf[disk[n].content]
                   /\ [size |-> entry.size, mtime |-> entry.mtime] = InfoOf(disk[n])
        /\ \A d \in Subdirs \ (touched[r] \cup skipped[r]) :
              d \in diff[r].next.dirs <=> d \in dirs

(* The report accounts exactly for the step from the manifest that the     *)
(* analysis found to the one it is about to store.                         *)
ReportIsComplete ==
    \A r \in Requests :
        pc[r] = "diffed" => ReportExplains(loaded[r], diff[r])

(* Nothing over the limits is ever stored (docs/PuxDesignFileWatcher.txt:  *)
(* 15-16), also when what is stored comes from older entries.              *)
ManifestWithinLimits ==
    \A m \in Manifests : manifest[m] \notin {Absent, Torn} =>
        LET files == manifest[m].files
        IN  /\ Cardinality(Known(files)) <= MaxFileCount
            /\ \A p \in Known(files) : files[p].size <= MaxFileSize

(* What is reported as deleted is not there any more (README.md:11,        *)
(* ChangeType.cs:19), unless it came back meanwhile.  It fails: a file     *)
(* that an IOException kept from being read is reported as deleted.        *)
DeletedFilesAreGone ==
    \A r \in Requests : pc[r] = "diffed" =>
        \A n \in Names \ touched[r] :
            (\E c \in diff[r].changes :
                c.kind = "File" /\ c.type = "Deleted" /\ c.path = Fold[n])
            => disk[n] = Missing

(* Every file has an entry, hence a version, of its own content            *)
(* (README.md:13), if it could be read and did not change meanwhile.  It   *)
(* fails where two names differ in case only.                              *)
EveryFileHasItsVersion ==
    \A r \in Requests : pc[r] = "diffed" =>
        \A n \in {f \in Names : Exists(f)} \ (touched[r] \cup skipped[r]) :
            LET entry == diff[r].next.files[Fold[n]]
            IN  entry # Missing /\ entry.hash = HashOf[disk[n].content]

(* When nobody is at work every manifest can be loaded, so that the next   *)
(* run can print the differences since the previous one                    *)
(* (.github/copilot-instructions.md:10).  It fails: an analysis that is    *)
(* cancelled while it saves leaves a truncated manifest.                   *)
ManifestsReadable ==
    (\A r \in Requests : pc[r] = "idle") => \A m \in Manifests : manifest[m] # Torn

(* What the manifests amount to (ChangeLedger): while a manifest is being  *)
(* rewritten it still counts as the one that its writer read.              *)
Ledger ==
    [m \in Manifests |->
        IF WritersOf(m) = {} THEN manifest[m]
        ELSE loaded[CHOOSE r \in WritersOf(m) : TRUE]]

History == INSTANCE ChangeLedger WITH ledger <- Ledger

(* Every manifest goes through a proper history of its root, whatever      *)
(* analyses, cancellations and crashes there are.                          *)
RecordsHistory == History!LedgerSpec

(* Every request is answered, with a result or an error, although it may   *)
(* have to queue behind others and the directory changes under it.         *)
EveryRequestAnswered ==
    \A r \in Requests : pc[r] # "idle" ~> pc[r] = "idle"
=============================================================================
