------------------------ MODULE AnalyzeDirectoryProofs ------------------------
(***************************************************************************)
(* Proofs about the analysis, for any number of requests, hosts, files and *)
(* directories, any limits and any width of the version numbers: first     *)
(* what ManifestDiffService.Diff returns, then types, mutual exclusion and *)
(* lost updates.                                                           *)
(***************************************************************************)
EXTENDS AnalyzeDirectory, KeyedAnalysisLockProofs

-----------------------------------------------------------------------------
LEMMA PreviousType ==
    ASSUME NEW prev \in Snapshot \cup {Absent}
    PROVE  /\ PreviousFiles(prev) \in FileTable
           /\ PreviousDirectories(prev) \in SUBSET Subdirs
BY DEF PreviousFiles, PreviousDirectories, Snapshot, FileTable, NoFiles

(* The version of each file in the next snapshot, when none overflows.      *)
LEMMA NextFilesProperties ==
    ASSUME NEW prev \in Snapshot \cup {Absent},
           NEW files \in FileTable,
           ~DiffThrows(prev, files)
    PROVE  /\ NextFiles(prev, files) \in FileTable
           /\ \A p \in Paths :
                 LET old == PreviousFiles(prev)[p]
                     cur == files[p]
                     new == NextFiles(prev, files)[p]
                 IN  /\ cur = Missing <=> new = Missing
                     /\ cur # Missing =>
                           /\ new.size = cur.size
                           /\ new.mtime = cur.mtime
                           /\ new.hash = cur.hash
                           /\ new.version = IF old = Missing THEN 1
                                            ELSE IF old.hash = cur.hash THEN old.version
                                            ELSE old.version + 1
<1> DEFINE Old(p) == PreviousFiles(prev)[p]
           New(p) == NextFiles(prev, files)[p]
<1>1. ASSUME NEW p \in Paths, files[p] = Missing
      PROVE  New(p) = Missing
  BY <1>1 DEF NextFiles
<1>2. ASSUME NEW p \in Paths, files[p] # Missing
      PROVE  /\ New(p) \in Entry
             /\ New(p).size = files[p].size
             /\ New(p).mtime = files[p].mtime
             /\ New(p).hash = files[p].hash
             /\ New(p).version = IF Old(p) = Missing THEN 1
                                 ELSE IF Old(p).hash = files[p].hash THEN Old(p).version
                                 ELSE Old(p).version + 1
  <2>1. files[p] \in Entry
    BY <1>2 DEF FileTable
  <2>2. Old(p) \in Entry \cup {Missing}
    BY PreviousType DEF FileTable
  <2>3. New(p) = NextEntry(Old(p), files[p])
    BY <1>2 DEF NextFiles
  <2>4. ~(New(p).version < 1)
    BY <1>2 DEF DiffThrows, Known
  <2> HIDE DEF Old, New
  <2>5. /\ New(p).size = files[p].size
        /\ New(p).mtime = files[p].mtime
        /\ New(p).hash = files[p].hash
        /\ New(p).version = IF Old(p) = Missing THEN 1 ELSE NextVersion(Old(p), files[p])
        /\ New(p) = [size |-> files[p].size, mtime |-> files[p].mtime,
                     hash |-> files[p].hash, version |-> New(p).version]
    BY <2>1, <2>3 DEF NextEntry, Entry
  <2>6. /\ New(p).version = IF Old(p) = Missing THEN 1
                            ELSE IF Old(p).hash = files[p].hash THEN Old(p).version
                            ELSE Old(p).version + 1
        /\ New(p).version \in 1..MaxInt
    <3>1. CASE Old(p) = Missing
      BY <2>5, <3>1, ManifestDiffAssumption
    <3>2. CASE Old(p) # Missing /\ Old(p).hash = files[p].hash
      BY <2>2, <2>5, <3>2 DEF NextVersion, HasContentChanged, Entry
    <3>3. CASE Old(p) # Missing /\ Old(p).hash # files[p].hash
      <4>1. New(p).version = Increment(Old(p).version)
        BY <2>5, <3>3 DEF NextVersion, HasContentChanged
      <4>2. Old(p).version \in 1..MaxInt
        BY <2>2, <3>3 DEF Entry
      <4>3. QED
        BY <2>4, <3>3, <4>1, <4>2, ManifestDiffAssumption DEF Increment
    <3>4. QED
      BY <3>1, <3>2, <3>3
  <2>7. QED
    BY <2>1, <2>5, <2>6 DEF Entry
<1>3. NextFiles(prev, files) \in FileTable
  BY <1>1, <1>2 DEF NextFiles, FileTable
<1>4. QED
  BY <1>1, <1>2, <1>3, ManifestDiffAssumption

(* What ends up among the changes, one kind at a time.                      *)
LEMMA ChangesMembers ==
    ASSUME NEW prev \in Snapshot \cup {Absent}, NEW files \in FileTable,
           NEW subdirs \in SUBSET Subdirs, NEW c
    PROVE  c \in Changes(prev, files, subdirs) <=>
              \/ \E p \in Paths :
                    LET old == PreviousFiles(prev)[p]
                        new == NextFiles(prev, files)[p]
                    IN  \/ /\ files[p] # Missing /\ old = Missing
                           /\ c = Change(p, "File", "New", 1)
                        \/ /\ files[p] # Missing /\ old # Missing
                           /\ old.hash # files[p].hash
                           /\ c = Change(p, "File", "Changed", new.version)
                        \/ /\ files[p] = Missing /\ old # Missing
                           /\ c = Change(p, "File", "Deleted", old.version)
              \/ \E d \in PreviousDirectories(prev) \ subdirs :
                    c = Change(d, "Directory", "Deleted", 0)
<1>1. c \in NewFiles(prev, files) <=>
         \E p \in Paths : /\ files[p] # Missing /\ PreviousFiles(prev)[p] = Missing
                          /\ c = Change(p, "File", "New", 1)
  BY DEF NewFiles, Known
<1>2. c \in ChangedFiles(prev, files) <=>
         \E p \in Paths :
            /\ files[p] # Missing /\ PreviousFiles(prev)[p] # Missing
            /\ PreviousFiles(prev)[p].hash # files[p].hash
            /\ c = Change(p, "File", "Changed", NextFiles(prev, files)[p].version)
  BY DEF ChangedFiles, Known, HasContentChanged
<1>3. c \in DeletedFiles(prev, files) <=>
         \E p \in Paths :
            /\ files[p] = Missing /\ PreviousFiles(prev)[p] # Missing
            /\ c = Change(p, "File", "Deleted", PreviousFiles(prev)[p].version)
  BY DEF DeletedFiles, Known
<1>4. c \in DeletedDirectories(prev, subdirs) <=>
         \E d \in PreviousDirectories(prev) \ subdirs :
            c = Change(d, "Directory", "Deleted", 0)
  BY DEF DeletedDirectories
<1>5. c \in Changes(prev, files, subdirs) <=>
         \/ c \in NewFiles(prev, files) \/ c \in ChangedFiles(prev, files)
         \/ c \in DeletedFiles(prev, files) \/ c \in DeletedDirectories(prev, subdirs)
  BY DEF Changes
<1>6. QED
  BY <1>1, <1>2, <1>3, <1>4, <1>5

(* For every previous snapshot (or none), every state of the files and every *)
(* set of directories, a Diff that does not throw returns a well-formed      *)
(* snapshot that moves every version on as it should, and a report that      *)
(* accounts for each path exactly once.                                      *)
THEOREM DiffIsRight ==
    ASSUME NEW prev \in Snapshot \cup {Absent}, NEW files \in FileTable,
           NEW subdirs \in SUBSET Subdirs, ~DiffThrows(prev, files)
    PROVE  /\ Diff(prev, files, subdirs) \in DiffResult
           /\ Succeeds(prev, Diff(prev, files, subdirs).next)
           /\ ReportExplains(prev, Diff(prev, files, subdirs))
<1> DEFINE Old(p) == PreviousFiles(prev)[p]
           New(p) == NextFiles(prev, files)[p]
           D == Diff(prev, files, subdirs)
<1>1. /\ D.next = [files |-> NextFiles(prev, files), dirs |-> subdirs]
      /\ D.next.files = NextFiles(prev, files)
      /\ D.next.dirs = subdirs
      /\ D.changes = Changes(prev, files, subdirs)
      /\ D = [next |-> D.next, changes |-> D.changes]
  BY DEF Diff
<1>2. NextFiles(prev, files) \in FileTable /\ D.next \in Snapshot
  BY <1>1, NextFilesProperties DEF Snapshot
<1>3. \A p \in Paths : Old(p) \in Entry \cup {Missing} /\ New(p) \in Entry \cup {Missing}
  BY <1>2, PreviousType DEF FileTable
<1>4. \A p \in Paths :
         /\ files[p] = Missing <=> New(p) = Missing
         /\ files[p] # Missing =>
               /\ New(p).hash = files[p].hash
               /\ New(p).version = IF Old(p) = Missing THEN 1
                                   ELSE IF Old(p).hash = files[p].hash THEN Old(p).version
                                   ELSE Old(p).version + 1
  BY NextFilesProperties
<1>5. Succeeds(prev, D.next)
  BY <1>1, <1>4 DEF Succeeds, Known
<1>6. D.changes \in SUBSET ChangeRecord
  <2> SUFFICES ASSUME NEW c \in Changes(prev, files, subdirs)
               PROVE  c \in ChangeRecord
    BY <1>1
  <2>1. ASSUME NEW p \in Paths, Old(p) # Missing
        PROVE  Old(p).version \in 0..MaxInt
    BY <1>3, <2>1 DEF Entry
  <2>2. ASSUME NEW p \in Paths, New(p) # Missing
        PROVE  New(p).version \in 0..MaxInt
    BY <1>3, <2>2 DEF Entry
  <2>3. 0 \in 0..MaxInt /\ 1 \in 0..MaxInt
    BY ManifestDiffAssumption
  <2>4. \A d \in PreviousDirectories(prev) : d \in Subdirs
    BY PreviousType
  <2>5. \/ \E p \in Paths :
              \/ c = Change(p, "File", "New", 1)
              \/ New(p) # Missing /\ c = Change(p, "File", "Changed", New(p).version)
              \/ Old(p) # Missing /\ c = Change(p, "File", "Deleted", Old(p).version)
        \/ \E d \in PreviousDirectories(prev) : c = Change(d, "Directory", "Deleted", 0)
    BY <1>4, ChangesMembers
  <2>6. QED
    BY <2>1, <2>2, <2>3, <2>4, <2>5 DEF Change, ChangeRecord
<1>7. ReportExplains(prev, D)
  <2> DEFINE About(p) == {c \in D.changes : c.kind = "File" /\ c.path = p}
  <2>1. ASSUME NEW p \in Paths, NEW c
        PROVE  c \in About(p) <=>
                  \/ /\ files[p] # Missing /\ Old(p) = Missing
                     /\ c = Change(p, "File", "New", 1)
                  \/ /\ files[p] # Missing /\ Old(p) # Missing
                     /\ Old(p).hash # files[p].hash
                     /\ c = Change(p, "File", "Changed", New(p).version)
                  \/ /\ files[p] = Missing /\ Old(p) # Missing
                     /\ c = Change(p, "File", "Deleted", Old(p).version)
    BY <1>1, ChangesMembers DEF Change
  <2>2. ASSUME NEW p \in Paths
        PROVE  /\ Old(p) = Missing /\ New(p) = Missing => About(p) = {}
               /\ Old(p) = Missing /\ New(p) # Missing =>
                     About(p) = {Change(p, "File", "New", New(p).version)}
               /\ Old(p) # Missing /\ New(p) = Missing =>
                     About(p) = {Change(p, "File", "Deleted", Old(p).version)}
               /\ Old(p) # Missing /\ New(p) # Missing =>
                     About(p) = IF Old(p).hash = New(p).hash THEN {}
                                ELSE {Change(p, "File", "Changed", New(p).version)}
    <3> HIDE DEF About, Old, New, D
    <3>1. /\ files[p] = Missing <=> New(p) = Missing
          /\ files[p] # Missing => New(p).hash = files[p].hash
          /\ files[p] # Missing /\ Old(p) = Missing => New(p).version = 1
      BY <1>4
    <3>2. QED
      BY <2>1, <3>1
  <2>3. {c.path : c \in {c \in D.changes : c.kind = "Directory"}}
           = PreviousDirectories(prev) \ D.next.dirs
    <3> DEFINE Gone == {c \in D.changes : c.kind = "Directory"}
    <3>1. ASSUME NEW c
          PROVE  c \in Gone <=> \E d \in PreviousDirectories(prev) \ subdirs :
                                   c = Change(d, "Directory", "Deleted", 0)
      <4>1. CASE \E d \in PreviousDirectories(prev) \ subdirs :
                    c = Change(d, "Directory", "Deleted", 0)
        BY <1>1, <4>1, ChangesMembers DEF Change
      <4>2. CASE ~ \E d \in PreviousDirectories(prev) \ subdirs :
                      c = Change(d, "Directory", "Deleted", 0)
        BY <1>1, <4>2, ChangesMembers DEF Change
      <4>3. QED
        BY <4>1, <4>2
    <3>2. \A d : Change(d, "Directory", "Deleted", 0).path = d
      BY DEF Change
    <3> HIDE DEF Gone
    <3>3. {c.path : c \in Gone} = PreviousDirectories(prev) \ subdirs
      BY <3>1, <3>2
    <3>4. QED
      BY <1>1, <3>3 DEF Gone
  <2>4. QED
    BY <1>1, <2>2, <2>3 DEF ReportExplains
<1>8. QED
  BY <1>1, <1>2, <1>5, <1>6, <1>7 DEF DiffResult

-----------------------------------------------------------------------------
(* The stage of a request and what it holds: whoever is past "admitted" is *)
(* inside the lock, and whoever is not in HandleAsync holds nothing.       *)
StageMatchesHandle ==
    \A r \in Requests :
        /\ pc[r] = "idle" => handle[r] \in {"none", "disposed"}
        /\ pc[r] = "admitted" => handle[r] \in {"waiting", "live"}
        /\ pc[r] \notin {"idle", "admitted"} => handle[r] = "live"

BaseInv == TypeOK /\ LockInv /\ StageMatchesHandle

-----------------------------------------------------------------------------
(* The steps of a request by what they do to the lock and to the disk.     *)

(* HandleAsync ends.                                                       *)
Leaving(r) ==
    \/ ReadTornManifest(r) \/ SharingViolation(r) \/ RootVanished(r)
    \/ RejectScan(r) \/ VersionOverflow(r) \/ Return(r) \/ Abort(r)

(* HandleAsync goes on.                                                    *)
Working(r) ==
    \/ OpenManifest(r) \/ ReadManifest(r) \/ StartScan(r)
    \/ \E d \in Dirs : ListDirectory(r, d) \/ SkipDirectory(r, d)
    \/ \E n \in Names : ReadMetadata(r, n) \/ SkipFile(r, n)
    \/ AcceptScan(r)
    \/ \E n \in Names : ReuseHash(r, n) \/ HashFile(r, n) \/ KeepPrevious(r, n)
    \/ ComputeDiff(r) \/ BeginSave(r) \/ FinishSave(r)

LEMMA NextCases ==
    ASSUME Next
    PROVE  \/ \E r \in Requests : \/ Submit(r) \/ CancelQueued(r)
                                  \/ Leaving(r) \/ Working(r)
           \/ \E h \in Hosts : Crash(h)
           \/ \E x \in Names \cup Dirs : Environment(x)
BY DEF Next, Proceed, Leaving, Working

LEMMA LeavingFacts ==
    ASSUME BaseInv, NEW r \in Requests, Leaving(r)
    PROVE  /\ Leave(r)
           /\ handle[r] = "live"
           /\ pc[r] # "idle"
<1>1. Leave(r)
  BY DEF Leaving, ReadTornManifest, SharingViolation, RootVanished, RejectScan,
         VersionOverflow, Return, Abort
<1>2. pc[r] # "idle" /\ (pc[r] = "admitted" => handle[r] = "live")
  BY DEF Leaving, ReadTornManifest, SharingViolation, RootVanished, RejectScan,
         VersionOverflow, Return, Abort, ScanComplete, Visiting
<1>3. QED
  BY <1>1, <1>2 DEF BaseInv, StageMatchesHandle

LEMMA WorkingFacts ==
    ASSUME BaseInv, NEW r \in Requests, Working(r)
    PROVE  /\ UNCHANGED lockVars
           /\ UNCHANGED diskVars
           /\ handle[r] = "live"
           /\ pc[r] # "idle"
           /\ pc' \in [Requests -> Stages]
           /\ pc'[r] \notin {"idle", "admitted"}
           /\ \A s \in Requests \ {r} : pc'[s] = pc[s]
<1>1. UNCHANGED lockVars /\ UNCHANGED diskVars
  BY DEF Working, OpenManifest, ReadManifest, StartScan, ListDirectory,
         SkipDirectory, ReadMetadata, SkipFile, AcceptScan, ReuseHash, HashFile,
         KeepPrevious, Build, ComputeDiff, BeginSave, FinishSave
<1>2. /\ pc[r] # "idle"
      /\ pc[r] = "admitted" => handle[r] = "live"
      /\ \/ pc' = pc /\ pc[r] # "admitted"
         \/ \E stage \in Stages \ {"idle", "admitted"} : GoTo(r, stage)
  <2> USE DEF Stages
  <2>1. CASE OpenManifest(r) \/ ReadManifest(r) \/ StartScan(r)
    BY <2>1 DEF OpenManifest, ReadManifest, StartScan
  <2>2. ASSUME NEW d \in Dirs, ListDirectory(r, d) \/ SkipDirectory(r, d)
        PROVE  pc[r] = "scanning" /\ pc' = pc
    BY <2>2 DEF ListDirectory, SkipDirectory, Visiting
  <2>3. ASSUME NEW n \in Names, ReadMetadata(r, n) \/ SkipFile(r, n)
        PROVE  pc[r] = "scanning" /\ pc' = pc
    BY <2>3 DEF ReadMetadata, SkipFile
  <2>4. ASSUME NEW n \in Names, ReuseHash(r, n) \/ HashFile(r, n) \/ KeepPrevious(r, n)
        PROVE  pc[r] = "building" /\ pc' = pc
    BY <2>4 DEF ReuseHash, HashFile, KeepPrevious, Build
  <2>5. CASE AcceptScan(r) \/ ComputeDiff(r) \/ BeginSave(r) \/ FinishSave(r)
    BY <2>5 DEF AcceptScan, ScanComplete, ComputeDiff, BeginSave, FinishSave
  <2>6. QED
    BY <2>1, <2>2, <2>3, <2>4, <2>5 DEF Working
<1>3. pc \in [Requests -> Stages]
  BY DEF BaseInv, TypeOK, AnalysisTypeOK
<1>4. /\ pc' \in [Requests -> Stages]
      /\ pc'[r] \notin {"idle", "admitted"}
      /\ \A s \in Requests \ {r} : pc'[s] = pc[s]
  BY <1>2, <1>3 DEF GoTo
<1>5. handle[r] = "live"
  BY <1>2 DEF BaseInv, StageMatchesHandle
<1>6. QED
  BY <1>1, <1>2, <1>4, <1>5

-----------------------------------------------------------------------------
(* Lock and stages.                                                        *)

LEMMA SubmitKeeps ==
    ASSUME BaseInv, NEW r \in Requests, Submit(r)
    PROVE  LockInv' /\ StageMatchesHandle'
<1>1. LockInv'
  BY AcquireKeepsLockInv DEF Submit, BaseInv
<1>2. /\ handle'[r] \in {"waiting", "live"}
      /\ \A s \in Requests \ {r} : handle'[s] = handle[s]
  BY DEF Submit, Acquire, Wait, BaseInv, LockInv, LockTypeOK
<1>3. /\ pc'[r] = "admitted"
      /\ \A s \in Requests \ {r} : pc'[s] = pc[s]
  BY DEF Submit, GoTo, BaseInv, TypeOK, AnalysisTypeOK
<1>4. QED
  BY <1>1, <1>2, <1>3 DEF BaseInv, StageMatchesHandle

LEMMA CancelQueuedKeeps ==
    ASSUME BaseInv, NEW r \in Requests, CancelQueued(r)
    PROVE  LockInv' /\ StageMatchesHandle'
<1>1. LockInv'
  BY CancelWaitKeepsLockInv DEF CancelQueued, BaseInv
<1>2. /\ handle'[r] = "none"
      /\ \A s \in Requests \ {r} : handle'[s] = handle[s]
  BY DEF CancelQueued, CancelWait, BaseInv, LockInv, LockTypeOK
<1>3. /\ pc'[r] = "idle"
      /\ \A s \in Requests \ {r} : pc'[s] = pc[s]
  BY DEF CancelQueued, GoTo, BaseInv, TypeOK, AnalysisTypeOK
<1>4. QED
  BY <1>1, <1>2, <1>3 DEF BaseInv, StageMatchesHandle

(* The request that the lock is handed to, if any, was waiting for it.     *)
LEMMA LeavingKeeps ==
    ASSUME BaseInv, NEW r \in Requests, Leaving(r)
    PROVE  LockInv' /\ StageMatchesHandle'
<1>1. Dispose(r) /\ handle[r] = "live" /\ GoTo(r, "idle")
  BY LeavingFacts DEF Leave
<1>2. LockInv'
  BY <1>1, DisposeKeepsLockInv DEF BaseInv
<1>3. /\ pc'[r] = "idle"
      /\ \A s \in Requests \ {r} : pc'[s] = pc[s]
  BY <1>1 DEF GoTo, BaseInv, TypeOK, AnalysisTypeOK
<1>4. /\ handle'[r] = "disposed"
      /\ \A s \in Requests \ {r} :
            handle'[s] = handle[s] \/ (handle[s] = "waiting" /\ handle'[s] = "live")
  BY <1>1, DisposeEffect DEF BaseInv
<1>5. QED
  BY <1>2, <1>3, <1>4 DEF BaseInv, StageMatchesHandle

LEMMA WorkingKeeps ==
    ASSUME BaseInv, NEW r \in Requests, Working(r)
    PROVE  LockInv' /\ StageMatchesHandle'
<1>1. UNCHANGED lockVars
  BY WorkingFacts
<1>2. LockInv'
  BY <1>1, StutterKeepsLockInv DEF BaseInv
<1>3. StageMatchesHandle'
  BY <1>1, WorkingFacts DEF BaseInv, StageMatchesHandle, lockVars
<1>4. QED
  BY <1>2, <1>3

(* The locks of a host that crashes are used by its own requests only.     *)
LEMMA CrashKeeps ==
    ASSUME BaseInv, NEW h \in Hosts, Crash(h)
    PROVE  LockInv' /\ StageMatchesHandle'
<1> DEFINE R == {r \in Requests : HostOf[r] = h}
           L == {LockOf[r] : r \in R}
<1>1. /\ permits' = [l \in Locks |-> IF l \in L THEN 1 ELSE permits[l]]
      /\ queue' = [l \in Locks |-> IF l \in L THEN << >> ELSE queue[l]]
      /\ handle' = [r \in Requests |-> IF r \in R THEN "none" ELSE handle[r]]
      /\ pc' = [r \in Requests |-> IF r \in R THEN "idle" ELSE pc[r]]
  BY DEF Crash
<1>2. \A r \in Requests : r \in R <=> LockOf[r] \in L
  BY AnalyzeDirectoryAssumption
<1> HIDE DEF R, L
<1>3. handle' = [r \in Requests |-> IF LockOf[r] \in L THEN "none" ELSE handle[r]]
  BY <1>1, <1>2
<1>4. LockInv'
  BY <1>1, <1>3, ResetKeepsLockInv DEF BaseInv
<1>5. StageMatchesHandle'
  BY <1>1 DEF BaseInv, StageMatchesHandle
<1>6. QED
  BY <1>4, <1>5

-----------------------------------------------------------------------------
(* Types.                                                                  *)

LEMMA ForgetType ==
    ASSUME AnalysisTypeOK, NEW R, Forget(R),
           manifest' \in [Manifests -> Snapshot \cup {Absent, Torn}],
           pc' \in [Requests -> Stages]
    PROVE  AnalysisTypeOK'
<1>1. NoFiles \in FileTable
  BY DEF NoFiles, FileTable
<1>2. NoDiff \in DiffResult
  BY <1>1 DEF NoDiff, DiffResult, Snapshot
<1>3. NothingScanned \in [Names -> FileInfo \cup {Missing}]
  BY DEF NothingScanned
<1> HIDE DEF NoFiles, NoDiff, NothingScanned
<1>4. /\ loaded' \in [Requests -> Snapshot \cup {Absent}]
      /\ pending' \in [Requests -> SUBSET Dirs]
      /\ listed' \in [Requests -> SUBSET Names]
      /\ found' \in [Requests -> SUBSET Subdirs]
      /\ touched' \in [Requests -> SUBSET (Names \cup Dirs)]
      /\ skipped' \in [Requests -> SUBSET (Names \cup Dirs)]
  BY DEF AnalysisTypeOK, Forget
<1>5. /\ scanned' \in [Requests -> [Names -> FileInfo \cup {Missing}]]
      /\ built' \in [Requests -> FileTable]
      /\ diff' \in [Requests -> DiffResult]
  BY <1>1, <1>2, <1>3 DEF AnalysisTypeOK, Forget
<1>6. QED
  BY <1>4, <1>5 DEF AnalysisTypeOK

LEMMA InsideType ==
    ASSUME DiskTypeOK, NEW d \in Dirs
    PROVE  /\ Beneath[d] \subseteq Names \cup Subdirs
           /\ Inside(d) \subseteq Beneath[d]
           /\ FilesIn(d) \subseteq Names
           /\ DirsIn(d) \subseteq Subdirs
BY WatchedDirectoryAssumption DEF Inside, FilesIn, DirsIn, Dirs, DiskTypeOK

LEMMA InfoType ==
    ASSUME NEW file \in FileState
    PROVE  InfoOf(file) \in FileInfo
BY WatchedDirectoryAssumption DEF InfoOf, FileInfo, FileState

(* The entry that the builder makes of a scanned file.                     *)
LEMMA EntryType ==
    ASSUME NEW info \in FileInfo, NEW hash \in Hashes,
           NEW previous \in Entry \cup {Missing}
    PROVE  EntryOf(info, hash, previous) \in Entry
BY ManifestDiffAssumption DEF EntryOf, FileInfo, Entry

LEMMA BuildType ==
    ASSUME AnalysisTypeOK, NEW r \in Requests, NEW n \in Names,
           NEW entry \in Entry \cup {Missing}, Build(r, n, entry),
           skipped' \in [Requests -> SUBSET (Names \cup Dirs)]
    PROVE  AnalysisTypeOK'
<1>1. Fold[n] \in Paths
  BY AnalyzeDirectoryAssumption
<1>2. built' \in [Requests -> FileTable]
  BY <1>1 DEF AnalysisTypeOK, Build, FileTable
<1>3. scanned' \in [Requests -> [Names -> FileInfo \cup {Missing}]]
  BY DEF AnalysisTypeOK, Build
<1>4. QED
  BY <1>2, <1>3 DEF AnalysisTypeOK, Build

LEMMA PreviousEntryType ==
    ASSUME AnalysisTypeOK, NEW r \in Requests, NEW n \in Names
    PROVE  PreviousEntry(r, n) \in Entry \cup {Missing}
<1>1. loaded[r] \in Snapshot \cup {Absent}
  BY DEF AnalysisTypeOK
<1>2. Fold[n] \in Paths
  BY AnalyzeDirectoryAssumption
<1>3. QED
  BY <1>1, <1>2, PreviousType DEF PreviousEntry, FileTable

LEMMA WorkingType ==
    ASSUME BaseInv, NEW r \in Requests, Working(r)
    PROVE  AnalysisTypeOK'
<1>1. AnalysisTypeOK /\ DiskTypeOK
  BY DEF BaseInv, TypeOK
<1>2. pc' \in [Requests -> Stages]
  BY WorkingFacts
<1>3. ManifestOf[r] \in Manifests
  BY AnalyzeDirectoryAssumption
<1>4. CASE OpenManifest(r) \/ AcceptScan(r)
  BY <1>1, <1>2, <1>4
  DEF AnalysisTypeOK, OpenManifest, AcceptScan, scanVars, workVars, historyVars
<1>5. CASE ReadManifest(r)
  <2>1. manifest[ManifestOf[r]] \in Snapshot \cup {Absent}
    BY <1>1, <1>3, <1>5 DEF AnalysisTypeOK, ReadManifest
  <2>2. loaded' \in [Requests -> Snapshot \cup {Absent}]
    BY <1>1, <1>5, <2>1 DEF AnalysisTypeOK, ReadManifest
  <2>3. QED
    BY <1>1, <1>2, <1>5, <2>2 DEF AnalysisTypeOK, ReadManifest, scanVars, historyVars
<1>6. CASE StartScan(r)
  <2>1. pending' \in [Requests -> SUBSET Dirs]
    BY <1>1, <1>6 DEF AnalysisTypeOK, StartScan, Dirs
  <2>2. QED
    BY <1>1, <1>2, <1>6, <2>1 DEF AnalysisTypeOK, StartScan, workVars, historyVars
<1>7. ASSUME NEW d \in Dirs, ListDirectory(r, d)
      PROVE  AnalysisTypeOK'
  <2>1. /\ pending' \in [Requests -> SUBSET Dirs]
        /\ found' \in [Requests -> SUBSET Subdirs]
    BY <1>1, <1>7, InsideType DEF AnalysisTypeOK, ListDirectory, Dirs
  <2>2. /\ listed' \in [Requests -> SUBSET Names]
        /\ skipped' \in [Requests -> SUBSET (Names \cup Dirs)]
    <3>1. FilesIn(d) \in SUBSET Names
      BY <1>1, InsideType
    <3>2. \/ listed' = [listed EXCEPT ![r] = FilesIn(d)] /\ skipped' = skipped
          \/ /\ skipped' = [skipped EXCEPT ![r] = @ \cup (Inside(d) \cap Names)]
             /\ listed' = listed
      BY <1>7 DEF ListDirectory
    <3>3. /\ listed \in [Requests -> SUBSET Names]
          /\ skipped \in [Requests -> SUBSET (Names \cup Dirs)]
      BY <1>1 DEF AnalysisTypeOK
    <3>4. CASE listed' = [listed EXCEPT ![r] = FilesIn(d)] /\ skipped' = skipped
      BY <3>1, <3>3, <3>4
    <3>5. CASE /\ skipped' = [skipped EXCEPT ![r] = @ \cup (Inside(d) \cap Names)]
               /\ listed' = listed
      BY <3>3, <3>5
    <3>6. QED
      BY <3>2, <3>4, <3>5
  <2>3. QED
    BY <1>1, <1>2, <1>7, <2>1, <2>2 DEF AnalysisTypeOK, ListDirectory, workVars
<1>8. ASSUME NEW d \in Dirs, SkipDirectory(r, d)
      PROVE  AnalysisTypeOK'
  <2>1. /\ pending' \in [Requests -> SUBSET Dirs]
        /\ skipped' \in [Requests -> SUBSET (Names \cup Dirs)]
    BY <1>1, <1>8, InsideType DEF AnalysisTypeOK, SkipDirectory, Dirs
  <2>2. QED
    BY <1>1, <1>2, <1>8, <2>1 DEF AnalysisTypeOK, SkipDirectory, workVars
<1>9. ASSUME NEW n \in Names, ReadMetadata(r, n)
      PROVE  AnalysisTypeOK'
  <2>1. disk[n] \in FileState
    BY <1>1, <1>9 DEF DiskTypeOK, ReadMetadata, Exists
  <2>2. scanned' \in [Requests -> [Names -> FileInfo \cup {Missing}]]
    <3>1. InfoOf(disk[n]) \in FileInfo
      BY <2>1, InfoType
    <3>2. scanned' = [scanned EXCEPT ![r][n] = InfoOf(disk[n])]
      BY <1>9 DEF ReadMetadata
    <3>3. QED
      BY <1>1, <3>1, <3>2 DEF AnalysisTypeOK
  <2>3. listed' \in [Requests -> SUBSET Names]
    BY <1>1, <1>9 DEF AnalysisTypeOK, ReadMetadata
  <2>4. QED
    BY <1>1, <1>2, <1>9, <2>2, <2>3
    DEF AnalysisTypeOK, ReadMetadata, workVars, historyVars
<1>10. ASSUME NEW n \in Names, SkipFile(r, n)
       PROVE  AnalysisTypeOK'
  <2>1. /\ listed' \in [Requests -> SUBSET Names]
        /\ skipped' \in [Requests -> SUBSET (Names \cup Dirs)]
    BY <1>1, <1>10 DEF AnalysisTypeOK, SkipFile
  <2>2. QED
    BY <1>1, <1>2, <1>10, <2>1 DEF AnalysisTypeOK, SkipFile, workVars
<1>11. ASSUME NEW n \in Names, ReuseHash(r, n) \/ HashFile(r, n) \/ KeepPrevious(r, n)
       PROVE  AnalysisTypeOK'
  <2> DEFINE previous == PreviousEntry(r, n)
             info == scanned[r][n]
  <2>1. previous \in Entry \cup {Missing}
    BY <1>1, PreviousEntryType
  <2>2. info \in FileInfo
    BY <1>1, <1>11 DEF AnalysisTypeOK, ReuseHash, HashFile, KeepPrevious, Scanned
  <2>3. CASE ReuseHash(r, n)
    <3>1. /\ previous # Missing
          /\ Build(r, n, EntryOf(info, previous.hash, previous))
          /\ skipped' = skipped
      BY <2>3 DEF ReuseHash, CanReuseHash
    <3>2. previous.hash \in Hashes
      BY <2>1, <3>1 DEF Entry
    <3>3. QED
      BY <1>1, <2>1, <2>2, <3>1, <3>2, EntryType, BuildType DEF AnalysisTypeOK
  <2>4. CASE HashFile(r, n)
    <3>1. /\ disk[n] # Missing
          /\ Build(r, n, EntryOf(info, HashOf[disk[n].content], previous))
          /\ skipped' = skipped
      BY <2>4 DEF HashFile, Exists
    <3>2. HashOf[disk[n].content] \in Hashes
      BY <1>1, <3>1, WatchedDirectoryAssumption DEF DiskTypeOK, FileState
    <3>3. QED
      BY <1>1, <2>1, <2>2, <3>1, <3>2, EntryType, BuildType DEF AnalysisTypeOK
  <2>5. CASE KeepPrevious(r, n)
    <3>1. /\ Build(r, n, previous)
          /\ skipped' \in [Requests -> SUBSET (Names \cup Dirs)]
      BY <1>1, <2>5 DEF KeepPrevious, AnalysisTypeOK
    <3>2. QED
      BY <1>1, <2>1, <3>1, BuildType
  <2>6. QED
    BY <1>11, <2>3, <2>4, <2>5
<1>12. CASE ComputeDiff(r)
  <2>1. /\ loaded[r] \in Snapshot \cup {Absent}
        /\ built[r] \in FileTable
        /\ found[r] \in SUBSET Subdirs
        /\ ~DiffThrows(loaded[r], built[r])
    BY <1>1, <1>12 DEF AnalysisTypeOK, ComputeDiff
  <2>2. Diff(loaded[r], built[r], found[r]) \in DiffResult
    BY <2>1, DiffIsRight
  <2>3. diff' \in [Requests -> DiffResult]
    BY <1>1, <1>12, <2>2 DEF AnalysisTypeOK, ComputeDiff
  <2>4. NoFiles \in FileTable
    BY DEF NoFiles, FileTable
  <2>5. built' \in [Requests -> FileTable] /\ found' \in [Requests -> SUBSET Subdirs]
    BY <1>1, <1>12, <2>4 DEF AnalysisTypeOK, ComputeDiff
  <2>6. QED
    BY <1>1, <1>2, <1>12, <2>3, <2>5 DEF AnalysisTypeOK, ComputeDiff, historyVars
<1>13. CASE BeginSave(r)
  BY <1>1, <1>2, <1>3, <1>13 DEF AnalysisTypeOK, BeginSave, scanVars, workVars
<1>14. CASE FinishSave(r)
  <2>1. diff[r].next \in Snapshot
    BY <1>1 DEF AnalysisTypeOK, DiffResult
  <2>2. QED
    BY <1>1, <1>2, <1>3, <1>14, <2>1
    DEF AnalysisTypeOK, FinishSave, scanVars, workVars, historyVars
<1>15. QED
  BY <1>4, <1>5, <1>6, <1>7, <1>8, <1>9, <1>10, <1>11, <1>12, <1>13, <1>14 DEF Working

LEMMA EnvironmentType ==
    ASSUME DiskTypeOK, AnalysisTypeOK, NEW x \in Names \cup Dirs, Environment(x)
    PROVE  DiskTypeOK' /\ AnalysisTypeOK'
<1>1. AnalysisTypeOK'
  BY DEF AnalysisTypeOK, Environment, scanVars, workVars
<1>2. DiskTypeOK'
  <2> USE DEF DiskTypeOK
  <2>1. ASSUME NEW c \in Contents, x \in Names, WriteFile(x, c)
        PROVE  DiskTypeOK'
    <3>1. PICK t \in {clock, clock + 1} :
             /\ t <= MaxClock
             /\ disk' = [disk EXCEPT ![x] = [content |-> c, mtime |-> t]]
             /\ clock' = t
             /\ dirs' = dirs
      BY <2>1 DEF WriteFile
    <3>2. t \in 0..MaxClock /\ clock <= t
      BY <3>1, WatchedDirectoryAssumption
    <3>3. [content |-> c, mtime |-> t] \in FileState
      BY <3>2 DEF FileState
    <3>4. disk' \in [Names -> FileState \cup {Missing}]
      BY <2>1, <3>1, <3>3
    <3>5. ASSUME NEW n \in Names, disk'[n] # Missing
          PROVE  disk'[n].mtime <= clock'
      <4>1. CASE n = x
        BY <2>1, <3>1, <3>2, <4>1
      <4>2. CASE n # x
        <5>1. disk'[n] = disk[n] /\ disk[n] \in FileState /\ disk[n].mtime <= clock
          BY <3>1, <3>5, <4>2 DEF Exists
        <5>2. QED
          BY <3>1, <3>2, <5>1 DEF FileState
      <4>3. QED
        BY <4>1, <4>2
    <3>6. QED
      BY <3>1, <3>2, <3>4, <3>5 DEF Exists
  <2>2. CASE x \in Names /\ DeleteFile(x)
    BY <2>2 DEF DeleteFile, Exists
  <2>3. CASE x \in Dirs /\ (MakeDirectory(x) \/ RemoveDirectory(x))
    BY <2>3 DEF MakeDirectory, RemoveDirectory, Exists
  <2>4. QED
    BY <2>1, <2>2, <2>3 DEF Environment, ChangeOf
<1>3. QED
  BY <1>1, <1>2

-----------------------------------------------------------------------------
LEMMA InitBaseInv == Init => BaseInv
<1> SUFFICES ASSUME Init
             PROVE  BaseInv
  OBVIOUS
<1>1. LockInv
  BY LockInitInv DEF Init
<1>2. DiskTypeOK
  BY WatchedDirectoryAssumption DEF Init, DiskInit, DiskTypeOK, Exists, Dirs
<1>3. AnalysisTypeOK
  <2>1. NoFiles \in FileTable
    BY DEF NoFiles, FileTable
  <2>2. NoDiff \in DiffResult
    BY <2>1 DEF NoDiff, DiffResult, Snapshot
  <2>3. NothingScanned \in [Names -> FileInfo \cup {Missing}]
    BY DEF NothingScanned
  <2> HIDE DEF NoFiles, NoDiff, NothingScanned
  <2>4. QED
    BY <2>1, <2>2, <2>3 DEF Init, AnalysisTypeOK, Stages
<1>4. StageMatchesHandle
  BY DEF Init, LockInit, StageMatchesHandle
<1>5. QED
  BY <1>1, <1>2, <1>3, <1>4 DEF BaseInv, TypeOK, LockInv

LEMMA BaseInvStep == BaseInv /\ [Next]_vars => BaseInv'
<1> SUFFICES ASSUME BaseInv, [Next]_vars
             PROVE  BaseInv'
  OBVIOUS
<1>1. LockTypeOK /\ DiskTypeOK /\ AnalysisTypeOK
  BY DEF BaseInv, TypeOK
<1>2. ASSUME NEW r \in Requests, Submit(r)
      PROVE  BaseInv'
  <2>1. LockInv' /\ StageMatchesHandle'
    BY <1>2, SubmitKeeps
  <2>2. DiskTypeOK'
    BY <1>1, <1>2 DEF Submit, DiskTypeOK, Exists, diskVars
  <2>3. AnalysisTypeOK'
    BY <1>1, <1>2
    DEF Submit, GoTo, AnalysisTypeOK, Stages, scanVars, workVars, historyVars
  <2>4. QED
    BY <2>1, <2>2, <2>3 DEF BaseInv, TypeOK, LockInv
<1>3. ASSUME NEW r \in Requests, CancelQueued(r)
      PROVE  BaseInv'
  <2>1. LockInv' /\ StageMatchesHandle'
    BY <1>3, CancelQueuedKeeps
  <2>2. DiskTypeOK'
    BY <1>1, <1>3 DEF CancelQueued, DiskTypeOK, Exists, diskVars
  <2>3. AnalysisTypeOK'
    BY <1>1, <1>3
    DEF CancelQueued, GoTo, AnalysisTypeOK, Stages, scanVars, workVars, historyVars
  <2>4. QED
    BY <2>1, <2>2, <2>3 DEF BaseInv, TypeOK, LockInv
<1>4. ASSUME NEW r \in Requests, Leaving(r)
      PROVE  BaseInv'
  <2>1. LockInv' /\ StageMatchesHandle'
    BY <1>4, LeavingKeeps
  <2>2. Leave(r)
    BY <1>4, LeavingFacts
  <2>3. DiskTypeOK'
    BY <1>1, <2>2 DEF Leave, DiskTypeOK, Exists, diskVars
  <2>4. pc' \in [Requests -> Stages]
    BY <1>1, <2>2 DEF Leave, GoTo, AnalysisTypeOK, Stages
  <2>5. AnalysisTypeOK'
    BY <1>1, <2>2, <2>4, ForgetType DEF Leave, AnalysisTypeOK
  <2>6. QED
    BY <2>1, <2>3, <2>5 DEF BaseInv, TypeOK, LockInv
<1>5. ASSUME NEW r \in Requests, Working(r)
      PROVE  BaseInv'
  <2>1. LockInv' /\ StageMatchesHandle' /\ AnalysisTypeOK'
    BY <1>5, WorkingKeeps, WorkingType
  <2>2. DiskTypeOK'
    BY <1>1, <1>5, WorkingFacts DEF DiskTypeOK, Exists, diskVars
  <2>3. QED
    BY <2>1, <2>2 DEF BaseInv, TypeOK, LockInv
<1>6. ASSUME NEW h \in Hosts, Crash(h)
      PROVE  BaseInv'
  <2>1. LockInv' /\ StageMatchesHandle'
    BY <1>6, CrashKeeps
  <2>2. DiskTypeOK'
    BY <1>1, <1>6 DEF Crash, DiskTypeOK, Exists, diskVars
  <2>3. /\ pc' \in [Requests -> Stages]
        /\ manifest' = manifest
        /\ Forget({r \in Requests : HostOf[r] = h})
    BY <1>1, <1>6 DEF Crash, AnalysisTypeOK, Stages
  <2>4. AnalysisTypeOK'
    BY <1>1, <2>3, ForgetType DEF AnalysisTypeOK
  <2>5. QED
    BY <2>1, <2>2, <2>4 DEF BaseInv, TypeOK, LockInv
<1>7. ASSUME NEW x \in Names \cup Dirs, Environment(x)
      PROVE  BaseInv'
  <2>1. DiskTypeOK' /\ AnalysisTypeOK'
    BY <1>1, <1>7, EnvironmentType
  <2>2. UNCHANGED lockVars /\ UNCHANGED pc
    BY <1>7 DEF Environment
  <2>3. LockInv' /\ StageMatchesHandle'
    BY <2>2, StutterKeepsLockInv DEF BaseInv, StageMatchesHandle, lockVars
  <2>4. QED
    BY <2>1, <2>3 DEF BaseInv, TypeOK, LockInv
<1>8. CASE UNCHANGED vars
  <2>1. UNCHANGED lockVars /\ UNCHANGED diskVars
    BY <1>8 DEF vars
  <2>2. LockInv' /\ StageMatchesHandle'
    BY <1>8, <2>1, StutterKeepsLockInv DEF BaseInv, StageMatchesHandle, vars, lockVars
  <2>3. DiskTypeOK' /\ AnalysisTypeOK'
    BY <1>1, <1>8
    DEF DiskTypeOK, Exists, AnalysisTypeOK, vars, diskVars, scanVars, workVars, historyVars
  <2>4. QED
    BY <2>2, <2>3 DEF BaseInv, TypeOK, LockInv
<1>9. QED
  BY <1>2, <1>3, <1>4, <1>5, <1>6, <1>7, <1>8, NextCases

LEMMA BaseInvCorrect == Spec => []BaseInv
BY InitBaseInv, BaseInvStep, PTL DEF Spec

(* Every variable keeps its type; among other things, every stored and     *)
(* every reported version is between 1 and the largest int.                *)
THEOREM TypeCorrect == Spec => []TypeOK
<1>1. BaseInv => TypeOK
  BY DEF BaseInv
<1>2. QED
  BY <1>1, BaseInvCorrect, PTL

-----------------------------------------------------------------------------
(* Mutual exclusion and lost updates.                                      *)

LEMMA OneAnalysis ==
    ASSUME LockCoversManifest, BaseInv
    PROVE  OneAnalysisPerManifest
BY DEF BaseInv, LockInv, MutualExclusion, LockCoversManifest,
       OneAnalysisPerManifest, Analyzing

(* If the lock of a request covers its manifest, no two analyses ever work *)
(* on one manifest together.                                               *)
THEOREM AnalysesDoNotOverlap ==
    ASSUME LockCoversManifest
    PROVE  Spec => []OneAnalysisPerManifest
<1>1. BaseInv => OneAnalysisPerManifest
  BY OneAnalysis
<1>2. QED
  BY <1>1, BaseInvCorrect, PTL

(* NoLostUpdate becomes inductive with what comes before the load, and     *)
(* with what a manifest is worth while it is being rewritten.              *)
UpdateInv ==
    /\ NoLostUpdate
    /\ \A r \in Requests :
          /\ pc[r] \in {"idle", "admitted", "reading"} => loaded[r] = Absent
          /\ pc[r] = "writing" => manifest[ManifestOf[r]] = Torn

LEMMA WorkingFrame ==
    ASSUME BaseInv, NEW r \in Requests, Working(r)
    PROVE  /\ \A s \in Requests \ {r} :
                 /\ pc'[s] = pc[s]
                 /\ loaded'[s] = loaded[s]
                 /\ diff'[s] = diff[s]
           /\ \/ manifest' = manifest
              \/ BeginSave(r) \/ FinishSave(r)
<1> USE DEF BaseInv, TypeOK, AnalysisTypeOK, scanVars, workVars, historyVars
<1>1. CASE \/ OpenManifest(r) \/ ReadManifest(r) \/ StartScan(r) \/ AcceptScan(r)
           \/ ComputeDiff(r)
  BY <1>1, WorkingFacts DEF OpenManifest, ReadManifest, StartScan, AcceptScan, ComputeDiff
<1>2. ASSUME NEW d \in Dirs, ListDirectory(r, d) \/ SkipDirectory(r, d)
      PROVE  UNCHANGED <<manifest, loaded, diff>>
  BY <1>2 DEF ListDirectory, SkipDirectory
<1>3. ASSUME NEW n \in Names, ReadMetadata(r, n) \/ SkipFile(r, n)
      PROVE  UNCHANGED <<manifest, loaded, diff>>
  BY <1>3 DEF ReadMetadata, SkipFile
<1>4. ASSUME NEW n \in Names, ReuseHash(r, n) \/ HashFile(r, n) \/ KeepPrevious(r, n)
      PROVE  UNCHANGED <<manifest, loaded, diff>>
  BY <1>4 DEF ReuseHash, HashFile, KeepPrevious, Build
<1>5. CASE BeginSave(r) \/ FinishSave(r)
  BY <1>5, WorkingFacts DEF BeginSave, FinishSave
<1>6. QED
  BY <1>1, <1>2, <1>3, <1>4, <1>5, WorkingFacts DEF Working

(* What a step of request r leaves alone.                                  *)
LEMMA WorkingTables ==
    ASSUME BaseInv, NEW r \in Requests, Working(r)
    PROVE  \A s \in Requests \ {r} : built'[s] = built[s] /\ scanned'[s] = scanned[s]
<1> USE DEF BaseInv, TypeOK, AnalysisTypeOK, scanVars, workVars, historyVars
<1>1. CASE \/ OpenManifest(r) \/ ReadManifest(r) \/ StartScan(r) \/ AcceptScan(r)
           \/ ComputeDiff(r) \/ BeginSave(r) \/ FinishSave(r)
  BY <1>1 DEF OpenManifest, ReadManifest, StartScan, AcceptScan, ComputeDiff,
              BeginSave, FinishSave
<1>2. ASSUME NEW d \in Dirs, ListDirectory(r, d) \/ SkipDirectory(r, d)
      PROVE  UNCHANGED <<built, scanned>>
  BY <1>2 DEF ListDirectory, SkipDirectory
<1>3. ASSUME NEW n \in Names, ReadMetadata(r, n) \/ SkipFile(r, n)
      PROVE  \A s \in Requests \ {r} : built'[s] = built[s] /\ scanned'[s] = scanned[s]
  BY <1>3 DEF ReadMetadata, SkipFile
<1>4. ASSUME NEW n \in Names, NEW entry, Build(r, n, entry)
      PROVE  \A s \in Requests \ {r} : built'[s] = built[s] /\ scanned'[s] = scanned[s]
  BY <1>4 DEF Build
<1>5. ASSUME NEW n \in Names, ReuseHash(r, n) \/ HashFile(r, n) \/ KeepPrevious(r, n)
      PROVE  \A s \in Requests \ {r} : built'[s] = built[s] /\ scanned'[s] = scanned[s]
  BY <1>4, <1>5 DEF ReuseHash, HashFile, KeepPrevious
<1>6. QED
  BY <1>1, <1>2, <1>3, <1>5 DEF Working

LEMMA UpdateInvStep ==
    ASSUME LockCoversManifest, BaseInv, UpdateInv, [Next]_vars
    PROVE  UpdateInv'
<1> USE DEF UpdateInv, NoLostUpdate
<1>1. AnalysisTypeOK
  BY DEF BaseInv, TypeOK
<1>2. ASSUME NEW r \in Requests, Submit(r) \/ CancelQueued(r)
      PROVE  UpdateInv'
  <2>1. /\ UNCHANGED <<manifest, loaded, diff>>
        /\ pc[r] \in {"idle", "admitted"}
        /\ pc'[r] \in {"idle", "admitted"}
        /\ \A s \in Requests \ {r} : pc'[s] = pc[s]
    BY <1>1, <1>2 DEF Submit, CancelQueued, GoTo, workVars, AnalysisTypeOK
  <2>2. QED
    BY <2>1
<1>3. ASSUME NEW r \in Requests, Leaving(r)
      PROVE  UpdateInv'
  <2>1. Leave(r)
    BY <1>3, LeavingFacts
  <2>2. /\ manifest' = manifest
        /\ pc'[r] = "idle" /\ loaded'[r] = Absent
        /\ \A s \in Requests \ {r} :
              pc'[s] = pc[s] /\ loaded'[s] = loaded[s] /\ diff'[s] = diff[s]
    BY <1>1, <2>1 DEF Leave, GoTo, Forget, AnalysisTypeOK
  <2>3. QED
    BY <2>2
<1>4. ASSUME NEW r \in Requests, Working(r)
      PROVE  UpdateInv'
  <2>1. ASSUME NEW s \in Requests \ {r}, pc[s] \notin {"idle", "admitted"},
               BeginSave(r) \/ FinishSave(r)
        PROVE  manifest'[ManifestOf[s]] = manifest[ManifestOf[s]]
    <3>1. Analyzing(r) /\ Analyzing(s)
      BY <1>4, <2>1, WorkingFacts DEF BaseInv, StageMatchesHandle, Analyzing
    <3>2. ManifestOf[s] # ManifestOf[r]
      BY <3>1, OneAnalysis DEF OneAnalysisPerManifest
    <3>3. QED
      BY <1>1, <2>1, <3>2, AnalyzeDirectoryAssumption
      DEF BeginSave, FinishSave, AnalysisTypeOK
  <2>2. ASSUME NEW s \in Requests \ {r}
        PROVE  /\ pc'[s] \in {"loaded", "scanning", "building", "diffed"}
                     => manifest'[ManifestOf[s]] = loaded'[s]
               /\ pc'[s] = "saved" => manifest'[ManifestOf[s]] = diff'[s].next
               /\ pc'[s] \in {"idle", "admitted", "reading"} => loaded'[s] = Absent
               /\ pc'[s] = "writing" => manifest'[ManifestOf[s]] = Torn
    BY <1>4, <2>1, WorkingFrame
  <2>3. /\ pc'[r] \in {"loaded", "scanning", "building", "diffed"}
              => manifest'[ManifestOf[r]] = loaded'[r]
        /\ pc'[r] = "saved" => manifest'[ManifestOf[r]] = diff'[r].next
        /\ pc'[r] \in {"idle", "admitted", "reading"} => loaded'[r] = Absent
        /\ pc'[r] = "writing" => manifest'[ManifestOf[r]] = Torn
    <3> USE <1>1, AnalyzeDirectoryAssumption
        DEF AnalysisTypeOK, GoTo, workVars, scanVars, historyVars
    <3>1. CASE OpenManifest(r)
      BY <3>1 DEF OpenManifest
    <3>2. CASE ReadManifest(r)
      BY <3>2 DEF ReadManifest
    <3>3. CASE StartScan(r) \/ AcceptScan(r)
      BY <3>3 DEF StartScan, AcceptScan, ScanComplete
    <3>4. ASSUME NEW d \in Dirs, ListDirectory(r, d) \/ SkipDirectory(r, d)
          PROVE  UNCHANGED <<manifest, pc, loaded, diff>>
      BY <3>4 DEF ListDirectory, SkipDirectory
    <3>5. ASSUME NEW n \in Names, ReadMetadata(r, n) \/ SkipFile(r, n)
          PROVE  UNCHANGED <<manifest, pc, loaded, diff>>
      BY <3>5 DEF ReadMetadata, SkipFile
    <3>6. ASSUME NEW n \in Names,
                 ReuseHash(r, n) \/ HashFile(r, n) \/ KeepPrevious(r, n)
          PROVE  UNCHANGED <<manifest, pc, loaded, diff>>
      BY <3>6 DEF ReuseHash, HashFile, KeepPrevious, Build
    <3>7. CASE ComputeDiff(r)
      BY <3>7 DEF ComputeDiff
    <3>8. CASE BeginSave(r)
      BY <3>8 DEF BeginSave
    <3>9. CASE FinishSave(r)
      BY <3>9 DEF FinishSave
    <3>10. QED
      BY <1>4, <3>1, <3>2, <3>3, <3>4, <3>5, <3>6, <3>7, <3>8, <3>9 DEF Working
  <2>4. QED
    BY <2>2, <2>3
<1>5. ASSUME NEW h \in Hosts, Crash(h)
      PROVE  UpdateInv'
  <2>1. /\ manifest' = manifest
        /\ \A s \in Requests :
              \/ pc'[s] = "idle" /\ loaded'[s] = Absent
              \/ pc'[s] = pc[s] /\ loaded'[s] = loaded[s] /\ diff'[s] = diff[s]
    BY <1>1, <1>5 DEF Crash, Forget, AnalysisTypeOK
  <2>2. QED
    BY <2>1
<1>6. CASE (\E x \in Names \cup Dirs : Environment(x)) \/ UNCHANGED vars
  <2>1. UNCHANGED <<manifest, pc, loaded, diff>>
    BY <1>6 DEF Environment, vars, workVars
  <2>2. QED
    BY <2>1
<1>7. QED
  BY <1>2, <1>3, <1>4, <1>5, <1>6, NextCases

LEMMA UpdateInvCorrect ==
    ASSUME LockCoversManifest
    PROVE  Spec => []UpdateInv
<1>1. Init => UpdateInv
  BY DEF Init, UpdateInv, NoLostUpdate
<1>2. BaseInv /\ UpdateInv /\ [Next]_vars => UpdateInv'
  BY UpdateInvStep
<1>3. QED
  BY <1>1, <1>2, BaseInvCorrect, PTL DEF Spec

(* If the lock of a request covers its manifest, no analysis ever works    *)
(* from a manifest that another one has replaced meanwhile.                *)
THEOREM NoUpdateIsLost ==
    ASSUME LockCoversManifest
    PROVE  Spec => []NoLostUpdate
<1>1. UpdateInv => NoLostUpdate
  BY DEF UpdateInv
<1>2. QED
  BY <1>1, UpdateInvCorrect, PTL
=============================================================================
