-------------------- MODULE AnalyzeDirectorySnapshotProofs --------------------
(***************************************************************************)
(* What the entries of a snapshot are worth: their hashes may be reused,   *)
(* and a new snapshot shows the directory as it is.                        *)
(***************************************************************************)
EXTENDS AnalyzeDirectoryProofs

-----------------------------------------------------------------------------
(***************************************************************************)
(* The hybrid detection is sound: for any number of hosts, whatever locks  *)
(* they share or do not share, with analyses, crashes and writes to the    *)
(* directory interleaved in any way, a stored hash is never the wrong one  *)
(* for a file that has the stored size and time, provided that             *)
(*   - each write gives a file a later time than any earlier write, and    *)
(*   - no two file names are equal up to case.                             *)
(* The argument: an entry's time is at most the clock, so that the next    *)
(* write makes it different from the file's for good; and an entry is made *)
(* either from the file's content or from an entry that was right.         *)
(***************************************************************************)

(* Table `files` is right about disk state dsk, and no newer than time t.  *)
Good(files, dsk, t) ==
    /\ \A n \in Names : SoundFor(files[Fold[n]], dsk[n])
    /\ \A p \in Paths : files[p] # Missing => files[p].mtime <= t

MetadataInv ==
    /\ \A m \in Manifests :
          manifest[m] \notin {Absent, Torn} => Good(manifest[m].files, disk, clock)
    /\ \A r \in Requests :
          /\ loaded[r] # Absent => Good(loaded[r].files, disk, clock)
          /\ Good(built[r], disk, clock)
          /\ Good(diff[r].next.files, disk, clock)
          /\ \A n \in Names : scanned[r][n] # Missing => scanned[r][n].mtime <= clock

-----------------------------------------------------------------------------
LEMMA EmptyIsGood ==
    ASSUME NEW dsk, NEW t
    PROVE  Good(NoFiles, dsk, t)
BY AnalyzeDirectoryAssumption DEF Good, NoFiles, SoundFor

LEMMA PreviousIsGood ==
    ASSUME NEW prev, NEW dsk, NEW t,
           prev # Absent => Good(prev.files, dsk, t)
    PROVE  Good(PreviousFiles(prev), dsk, t)
BY EmptyIsGood DEF PreviousFiles

(* A change on disk leaves a table good: a file that is written gets a     *)
(* time that no entry has.                                                 *)
LEMMA ChangeKeepsGood ==
    ASSUME FreshStamps, DiskTypeOK, NEW x \in Names \cup Dirs, ChangeOf(x),
           NEW files \in FileTable, Good(files, disk, clock)
    PROVE  Good(files, disk', clock')
<1>1. \A n \in Names : Fold[n] \in Paths
  BY AnalyzeDirectoryAssumption
<1>2. \A p \in Paths : files[p] # Missing => files[p] \in Entry
  BY DEF FileTable
<1>3. ASSUME NEW c \in Contents, x \in Names, WriteFile(x, c)
      PROVE  Good(files, disk', clock')
  <2>1. /\ disk' = [disk EXCEPT ![x] = [content |-> c, mtime |-> clock + 1]]
        /\ clock' = clock + 1
    BY <1>3 DEF WriteFile
  <2>2. clock \in Nat
    BY DEF DiskTypeOK
  <2>3. ASSUME NEW p \in Paths, files[p] # Missing
        PROVE  files[p].mtime <= clock /\ files[p].mtime <= clock'
    BY <1>2, <2>1, <2>2, <2>3 DEF Good, Entry
  <2>4. ASSUME NEW n \in Names
        PROVE  SoundFor(files[Fold[n]], disk'[n])
    <3>1. CASE n = x
      <4>1. disk'[n] = [content |-> c, mtime |-> clock + 1]
        BY <1>3, <2>1, <3>1 DEF DiskTypeOK
      <4>2. files[Fold[n]] # Missing =>
               files[Fold[n]].mtime \in Nat /\ files[Fold[n]].mtime <= clock
        BY <1>1, <1>2, <2>3 DEF Entry
      <4>3. InfoOf(disk'[n]).mtime = clock + 1
        BY <4>1 DEF InfoOf
      <4>4. files[Fold[n]] # Missing =>
               InfoOf(disk'[n]) # [size  |-> files[Fold[n]].size,
                                   mtime |-> files[Fold[n]].mtime]
        BY <2>2, <4>2, <4>3
      <4>5. QED
        BY <4>4 DEF SoundFor
    <3>2. CASE n # x
      BY <2>1, <3>2 DEF Good, DiskTypeOK
    <3>3. QED
      BY <3>1, <3>2
  <2>5. QED
    BY <2>3, <2>4 DEF Good
<1>4. CASE x \in Names /\ DeleteFile(x)
  <2>1. disk' = [disk EXCEPT ![x] = Missing] /\ clock' = clock
    BY <1>4 DEF DeleteFile
  <2>2. ASSUME NEW n \in Names
        PROVE  SoundFor(files[Fold[n]], disk'[n])
    <3>1. disk'[n] = disk[n] \/ disk'[n] = Missing
      BY <2>1 DEF DiskTypeOK
    <3>2. QED
      BY <3>1 DEF Good, SoundFor
  <2>3. QED
    BY <2>1, <2>2 DEF Good
<1>5. CASE x \in Dirs /\ (MakeDirectory(x) \/ RemoveDirectory(x))
  BY <1>5 DEF MakeDirectory, RemoveDirectory
<1>6. QED
  BY <1>3, <1>4, <1>5 DEF ChangeOf

(* One entry may be added that is right about its file: no other file has  *)
(* its path.                                                               *)
LEMMA EntryKeepsGood ==
    ASSUME IsInjective(Fold), NEW files \in FileTable, NEW dsk, NEW t,
           Good(files, dsk, t),
           NEW n \in Names, NEW entry,
           SoundFor(entry, dsk[n]),
           entry # Missing => entry.mtime <= t
    PROVE  Good([files EXCEPT ![Fold[n]] = entry], dsk, t)
<1> DEFINE new == [files EXCEPT ![Fold[n]] = entry]
<1>1. \A p \in Paths : new[p] = IF p = Fold[n] THEN entry ELSE files[p]
  BY DEF FileTable
<1>2. \A k \in Names : Fold[k] \in Paths /\ (Fold[k] = Fold[n] => k = n)
  BY AnalyzeDirectoryAssumption DEF IsInjective
<1> HIDE DEF new
<1>3. \A k \in Names : SoundFor(new[Fold[k]], dsk[k])
  <2> TAKE k \in Names
  <2>1. CASE k = n
    BY <1>1, <1>2, <2>1
  <2>2. CASE k # n
    BY <1>1, <1>2, <2>2 DEF Good
  <2>3. QED
    BY <2>1, <2>2
<1>4. \A p \in Paths : new[p] # Missing => new[p].mtime <= t
  BY <1>1 DEF Good
<1>5. QED
  BY <1>3, <1>4 DEF Good, new

(* The diff changes nothing but versions.                                  *)
LEMMA DiffKeepsGood ==
    ASSUME NEW prev \in Snapshot \cup {Absent}, NEW files \in FileTable,
           ~DiffThrows(prev, files), NEW dsk, NEW t, Good(files, dsk, t)
    PROVE  Good(NextFiles(prev, files), dsk, t)
<1> DEFINE new == NextFiles(prev, files)
<1>1. \A p \in Paths :
         /\ files[p] = Missing <=> new[p] = Missing
         /\ files[p] # Missing => /\ new[p].size = files[p].size
                                  /\ new[p].mtime = files[p].mtime
                                  /\ new[p].hash = files[p].hash
  BY NextFilesProperties
<1>2. \A n \in Names : Fold[n] \in Paths
  BY AnalyzeDirectoryAssumption
<1> HIDE DEF new
<1>3. \A n \in Names : SoundFor(new[Fold[n]], dsk[n])
  BY <1>1, <1>2 DEF Good, SoundFor
<1>4. \A p \in Paths : new[p] # Missing => new[p].mtime <= t
  BY <1>1 DEF Good
<1>5. QED
  BY <1>3, <1>4 DEF Good, new

-----------------------------------------------------------------------------
(* What the builder enters for a file is right about the file as it is by  *)
(* then, although size and time are older.                                 *)
LEMMA BuilderKeepsGood ==
    ASSUME IsInjective(Fold), BaseInv, MetadataInv,
           NEW r \in Requests, NEW n \in Names,
           ReuseHash(r, n) \/ HashFile(r, n) \/ KeepPrevious(r, n)
    PROVE  Good(built'[r], disk, clock)
<1> DEFINE previous == PreviousEntry(r, n)
           info == scanned[r][n]
<1>1. AnalysisTypeOK /\ DiskTypeOK
  BY DEF BaseInv, TypeOK
<1>2. /\ built[r] \in FileTable
      /\ Fold[n] \in Paths
      /\ clock \in Nat
      /\ info # Missing => info \in FileInfo /\ info.mtime <= clock
  BY <1>1, AnalyzeDirectoryAssumption
  DEF AnalysisTypeOK, DiskTypeOK, MetadataInv
<1>3. /\ previous \in Entry \cup {Missing}
      /\ SoundFor(previous, disk[n])
      /\ previous # Missing => previous.mtime <= clock
  <2>1. Good(PreviousFiles(loaded[r]), disk, clock)
    BY PreviousIsGood DEF MetadataInv
  <2>2. QED
    BY <1>1, <1>2, <2>1, PreviousEntryType DEF Good, PreviousEntry
<1> HIDE DEF previous, info
<1>4. ASSUME NEW entry, Build(r, n, entry), SoundFor(entry, disk[n]),
             entry # Missing => entry.mtime <= clock
      PROVE  Good(built'[r], disk, clock)
  <2>1. Good(built[r], disk, clock)
    BY DEF MetadataInv
  <2>2. CASE entry = Missing
    BY <1>4, <2>1, <2>2 DEF Build
  <2>3. CASE entry # Missing
    <3>1. built'[r] = [built[r] EXCEPT ![Fold[n]] = entry]
      BY <1>1, <1>4, <2>3 DEF Build, AnalysisTypeOK
    <3>2. QED
      BY <1>2, <1>4, <2>1, <3>1, EntryKeepsGood
  <2>4. QED
    BY <2>2, <2>3
<1>5. CASE ReuseHash(r, n)
  <2> DEFINE entry == EntryOf(info, previous.hash, previous)
  <2>1. /\ previous # Missing
        /\ info # Missing
        /\ previous.size = info.size /\ previous.mtime = info.mtime
        /\ Build(r, n, entry)
    BY <1>5 DEF ReuseHash, CanReuseHash, Scanned, previous, info
  <2>2. /\ entry.size = previous.size
        /\ entry.mtime = previous.mtime
        /\ entry.hash = previous.hash
    BY <2>1 DEF EntryOf
  <2> HIDE DEF entry
  <2>3. SoundFor(entry, disk[n])
    BY <1>3, <2>1, <2>2 DEF SoundFor
  <2>4. entry # Missing => entry.mtime <= clock
    BY <1>3, <2>1, <2>2
  <2>5. QED
    BY <1>4, <2>1, <2>3, <2>4
<1>6. CASE HashFile(r, n)
  <2> DEFINE entry == EntryOf(info, HashOf[disk[n].content], previous)
  <2>1. info # Missing /\ Build(r, n, entry)
    BY <1>6 DEF HashFile, Scanned, previous, info
  <2>2. entry.mtime = info.mtime /\ entry.hash = HashOf[disk[n].content]
    BY DEF EntryOf
  <2> HIDE DEF entry
  <2>3. SoundFor(entry, disk[n])
    BY <2>2 DEF SoundFor
  <2>4. entry # Missing => entry.mtime <= clock
    BY <1>2, <2>1, <2>2
  <2>5. QED
    BY <1>4, <2>1, <2>3, <2>4
<1>7. CASE KeepPrevious(r, n)
  <2>1. Build(r, n, previous)
    BY <1>7 DEF KeepPrevious, previous
  <2>2. QED
    BY <1>3, <1>4, <2>1
<1>8. QED
  BY <1>5, <1>6, <1>7

LEMMA WorkingKeepsMetadataInv ==
    ASSUME IsInjective(Fold), BaseInv, MetadataInv, NEW r \in Requests, Working(r)
    PROVE  MetadataInv'
<1>1. AnalysisTypeOK /\ DiskTypeOK
  BY DEF BaseInv, TypeOK
<1>2. UNCHANGED diskVars
  BY WorkingFacts
<1>3. disk' = disk /\ clock' = clock
  BY <1>2 DEF diskVars
<1> DEFINE Enough ==
         /\ \A m \in Manifests :
               manifest'[m] \notin {Absent, Torn} => Good(manifest'[m].files, disk, clock)
         /\ loaded'[r] # Absent => Good(loaded'[r].files, disk, clock)
         /\ Good(built'[r], disk, clock)
         /\ Good(diff'[r].next.files, disk, clock)
         /\ \A n \in Names : scanned'[r][n] # Missing => scanned'[r][n].mtime <= clock
<1>4. SUFFICES Enough
  <2>1. ASSUME NEW s \in Requests \ {r}
        PROVE  /\ loaded'[s] = loaded[s] /\ built'[s] = built[s]
               /\ diff'[s] = diff[s] /\ scanned'[s] = scanned[s]
    BY WorkingFrame, WorkingTables
  <2>2. QED
    BY <1>3, <2>1 DEF MetadataInv
<1>5. CASE \/ OpenManifest(r) \/ StartScan(r) \/ AcceptScan(r)
           \/ \E d \in Dirs : ListDirectory(r, d) \/ SkipDirectory(r, d)
           \/ \E n \in Names : SkipFile(r, n)
  <2>1. UNCHANGED <<manifest, loaded, built, diff, scanned>>
    BY <1>5 DEF OpenManifest, StartScan, AcceptScan, ListDirectory, SkipDirectory,
                SkipFile, scanVars, workVars
  <2>2. QED
    BY <2>1 DEF MetadataInv
<1>6. CASE ReadManifest(r)
  <2>1. /\ UNCHANGED <<manifest, built, diff, scanned>>
        /\ loaded'[r] = manifest[ManifestOf[r]]
        /\ manifest[ManifestOf[r]] # Torn
        /\ ManifestOf[r] \in Manifests
    BY <1>1, <1>6, AnalyzeDirectoryAssumption
    DEF ReadManifest, AnalysisTypeOK, scanVars
  <2>2. QED
    BY <2>1 DEF MetadataInv
<1>7. ASSUME NEW n \in Names, ReadMetadata(r, n)
      PROVE  Enough
  <2>1. /\ UNCHANGED <<manifest, loaded, built, diff>>
        /\ scanned' = [scanned EXCEPT ![r][n] = InfoOf(disk[n])]
        /\ Exists(n)
    BY <1>7 DEF ReadMetadata, workVars
  <2>2. InfoOf(disk[n]).mtime <= clock
    BY <1>1, <2>1 DEF DiskTypeOK, InfoOf
  <2>3. \A k \in Names : scanned'[r][k] = IF k = n THEN InfoOf(disk[n]) ELSE scanned[r][k]
    BY <1>1, <2>1 DEF AnalysisTypeOK
  <2>4. \A k \in Names : scanned'[r][k] # Missing => scanned'[r][k].mtime <= clock
    BY <2>2, <2>3 DEF MetadataInv
  <2>5. QED
    BY <2>1, <2>4 DEF MetadataInv
<1>8. ASSUME NEW n \in Names, ReuseHash(r, n) \/ HashFile(r, n) \/ KeepPrevious(r, n)
      PROVE  Enough
  <2>1. /\ UNCHANGED <<manifest, loaded, diff>>
        /\ scanned' = [scanned EXCEPT ![r][n] = Missing]
    <3>1. ASSUME NEW entry, Build(r, n, entry)
          PROVE  /\ UNCHANGED <<loaded, diff, manifest>>
                 /\ scanned' = [scanned EXCEPT ![r][n] = Missing]
      BY <3>1 DEF Build
    <3>2. QED
      BY <1>8, <3>1 DEF ReuseHash, HashFile, KeepPrevious
  <2>2. \A k \in Names : scanned'[r][k] = IF k = n THEN Missing ELSE scanned[r][k]
    BY <1>1, <2>1 DEF AnalysisTypeOK
  <2>3. Good(built'[r], disk, clock)
    BY <1>8, BuilderKeepsGood
  <2>4. QED
    BY <2>1, <2>2, <2>3 DEF MetadataInv
<1>9. CASE ComputeDiff(r)
  <2>1. /\ UNCHANGED <<manifest, loaded, scanned>>
        /\ built'[r] = NoFiles
        /\ diff'[r] = Diff(loaded[r], built[r], found[r])
        /\ ~DiffThrows(loaded[r], built[r])
        /\ loaded[r] \in Snapshot \cup {Absent}
        /\ built[r] \in FileTable
    BY <1>1, <1>9 DEF ComputeDiff, AnalysisTypeOK
  <2>2. Good(NextFiles(loaded[r], built[r]), disk, clock)
    BY <2>1, DiffKeepsGood DEF MetadataInv
  <2>3. diff'[r].next.files = NextFiles(loaded[r], built[r])
    BY <2>1 DEF Diff
  <2>4. Good(built'[r], disk, clock)
    BY <2>1, EmptyIsGood
  <2>5. QED
    BY <2>1, <2>2, <2>3, <2>4 DEF MetadataInv
<1>10. CASE BeginSave(r) \/ FinishSave(r)
  <2>1. /\ UNCHANGED <<loaded, built, diff, scanned>>
        /\ \A m \in Manifests :
              manifest'[m] \in {manifest[m], Torn, diff[r].next}
    BY <1>1, <1>10 DEF BeginSave, FinishSave, AnalysisTypeOK, scanVars, workVars
  <2>2. QED
    BY <2>1 DEF MetadataInv
<1>11. QED
  BY <1>5, <1>6, <1>7, <1>8, <1>9, <1>10 DEF Working

LEMMA MetadataInvStep ==
    ASSUME FreshStamps, IsInjective(Fold), BaseInv, MetadataInv, [Next]_vars
    PROVE  MetadataInv'
<1>1. AnalysisTypeOK /\ DiskTypeOK
  BY DEF BaseInv, TypeOK
<1>2. ASSUME UNCHANGED <<disk, clock, manifest, loaded, built, diff, scanned>>
      PROVE  MetadataInv'
  BY <1>2 DEF MetadataInv
<1>3. ASSUME NEW r \in Requests, Submit(r) \/ CancelQueued(r)
      PROVE  MetadataInv'
  BY <1>2, <1>3 DEF Submit, CancelQueued, diskVars, scanVars, workVars
<1>4. ASSUME NEW R, Forget(R), UNCHANGED <<disk, clock, manifest>>
      PROVE  MetadataInv'
  <2>1. ASSUME NEW s \in Requests
        PROVE  /\ loaded'[s] \in {loaded[s], Absent}
               /\ built'[s] \in {built[s], NoFiles}
               /\ diff'[s] \in {diff[s], NoDiff}
               /\ scanned'[s] \in {scanned[s], NothingScanned}
    BY <1>4 DEF Forget
  <2>2. /\ NoDiff.next.files = NoFiles
        /\ \A n \in Names : NothingScanned[n] = Missing
    BY DEF NoDiff, NothingScanned
  <2>3. Good(NoFiles, disk, clock)
    BY EmptyIsGood
  <2>4. ASSUME NEW s \in Requests
        PROVE  /\ loaded'[s] # Absent => Good(loaded'[s].files, disk, clock)
               /\ Good(built'[s], disk, clock)
               /\ Good(diff'[s].next.files, disk, clock)
               /\ \A n \in Names : scanned'[s][n] # Missing => scanned'[s][n].mtime <= clock
    BY <2>1, <2>2, <2>3 DEF MetadataInv
  <2>5. QED
    BY <1>4, <2>4 DEF MetadataInv
<1>5. ASSUME NEW r \in Requests, Leaving(r)
      PROVE  MetadataInv'
  BY <1>4, <1>5, LeavingFacts DEF Leave, diskVars
<1>6. ASSUME NEW h \in Hosts, Crash(h)
      PROVE  MetadataInv'
  BY <1>4, <1>6 DEF Crash, diskVars
<1>7. ASSUME NEW r \in Requests, Working(r)
      PROVE  MetadataInv'
  BY <1>7, WorkingKeepsMetadataInv
<1>8. ASSUME NEW x \in Names \cup Dirs, Environment(x)
      PROVE  MetadataInv'
  <2>1. ChangeOf(x) /\ UNCHANGED <<manifest, loaded, built, diff, scanned>>
    BY <1>8 DEF Environment, scanVars, workVars
  <2>2. ASSUME NEW files \in FileTable, Good(files, disk, clock)
        PROVE  Good(files, disk', clock')
    BY <1>1, <2>1, <2>2, ChangeKeepsGood
  <2>3. \A m \in Manifests : manifest[m] \notin {Absent, Torn} => manifest[m].files \in FileTable
    BY <1>1 DEF AnalysisTypeOK, Snapshot
  <2>4. ASSUME NEW r \in Requests
        PROVE  /\ loaded[r] # Absent => loaded[r].files \in FileTable
               /\ built[r] \in FileTable
               /\ diff[r].next.files \in FileTable
    BY <1>1 DEF AnalysisTypeOK, Snapshot, DiffResult
  <2>5. ASSUME NEW r \in Requests, NEW n \in Names, scanned[r][n] # Missing
        PROVE  scanned[r][n].mtime <= clock'
    <3>1. clock' \in {clock, clock + 1}
      BY <2>1 DEF ChangeOf, WriteFile, DeleteFile, MakeDirectory, RemoveDirectory
    <3>2. scanned[r][n].mtime \in Nat /\ clock \in Nat
      BY <1>1, <2>5 DEF AnalysisTypeOK, FileInfo, DiskTypeOK
    <3>3. scanned[r][n].mtime <= clock
      BY <2>5 DEF MetadataInv
    <3>4. QED
      BY <3>1, <3>2, <3>3
  <2>6. QED
    BY <2>1, <2>2, <2>3, <2>4, <2>5 DEF MetadataInv
<1>9. CASE UNCHANGED vars
  BY <1>2, <1>9 DEF vars, diskVars, scanVars, workVars
<1>10. QED
  BY <1>3, <1>5, <1>6, <1>7, <1>8, <1>9, NextCases

LEMMA MetadataInvCorrect ==
    ASSUME FreshStamps, IsInjective(Fold)
    PROVE  Spec => []MetadataInv
<1>1. Init => MetadataInv
  <2> SUFFICES ASSUME Init
               PROVE  MetadataInv
    OBVIOUS
  <2>1. Good(NoFiles, disk, clock) /\ NoDiff.next.files = NoFiles
    BY EmptyIsGood DEF NoDiff
  <2>2. QED
    BY <2>1 DEF Init, MetadataInv, NothingScanned
<1>2. BaseInv /\ MetadataInv /\ [Next]_vars => MetadataInv'
  BY MetadataInvStep
<1>3. QED
  BY <1>1, <1>2, BaseInvCorrect, PTL DEF Spec

(* The soundness of reusing hashes; no assumption on locks or hosts.       *)
THEOREM MetadataIsSound ==
    ASSUME FreshStamps, IsInjective(Fold)
    PROVE  Spec => []MetadataSound
<1>1. MetadataInv => MetadataSound
  BY DEF MetadataInv, MetadataSound, Good, Sound
<1>2. QED
  BY <1>1, MetadataInvCorrect, PTL

-----------------------------------------------------------------------------
(***************************************************************************)
(* A new snapshot shows the directory as it is, for any number of hosts,   *)
(* locks, files and directories: every file and directory that has not     *)
(* changed since the scan began, and that could be read, is in the         *)
(* snapshot just as it is on disk.  It takes what the reuse of hashes      *)
(* takes: fresh last-write times, and no two file names equal up to case.  *)
(*                                                                         *)
(* The argument: what exists and has not been found yet lies beneath a     *)
(* directory that is still on the stack, since whatever exists has all its *)
(* parents; and what has been found stays true until it is touched.        *)
(***************************************************************************)

(* Whatever exists has all its parents.                                    *)
ParentsExist ==
    \A d \in Dirs : (\E x \in Beneath[d] : Exists(x)) => d \in dirs

(* An entry, or none, that is right about a file, or about its absence.    *)
Right(entry, file) ==
    IF file = Missing THEN entry = Missing
    ELSE /\ entry # Missing
         /\ entry.hash = HashOf[file.content]
         /\ [size |-> entry.size, mtime |-> entry.mtime] = InfoOf(file)

(* What request r need not be right about.                                 *)
Excused(r) == touched[r] \cup skipped[r]

(* The traversal still has to visit a directory above x.                   *)
Ahead(r, x) == \E d \in pending[r] : x \in Beneath[d]

FileScanned(r, n) ==
    \/ disk[n] = Missing /\ scanned[r][n] = Missing
    \/ disk[n] # Missing /\ scanned[r][n] = InfoOf(disk[n])

FileSeen(r, n) ==
    \/ FileScanned(r, n)
    \/ /\ disk[n] # Missing
       /\ scanned[r][n] = Missing
       /\ n \in listed[r] \/ Ahead(r, n)

DirectorySeen(r, d) ==
    IF d \in dirs THEN d \in found[r] \/ Ahead(r, d) ELSE d \notin found[r]

FileBuilt(r, n) ==
    IF scanned[r][n] = Missing THEN Right(built[r][Fold[n]], disk[n])
    ELSE disk[n] # Missing /\ scanned[r][n] = InfoOf(disk[n])

ScanIsCurrent(r) ==
    /\ \A n \in Names \ Excused(r) : FileSeen(r, n)
    /\ \A d \in Subdirs \ Excused(r) : DirectorySeen(r, d)

BuildIsCurrent(r) ==
    /\ \A n \in Names \ Excused(r) : FileBuilt(r, n)
    /\ \A d \in Subdirs \ Excused(r) : d \in found[r] <=> d \in dirs

DiffIsCurrent(r) ==
    /\ \A n \in Names \ Excused(r) : Right(diff[r].next.files[Fold[n]], disk[n])
    /\ \A d \in Subdirs \ Excused(r) : d \in diff[r].next.dirs <=> d \in dirs

(* What a request has seen so far, by its stage.                           *)
RequestIsCurrent(r) ==
    /\ pc[r] \in {"idle", "admitted", "reading", "loaded"} =>
          scanned[r] = NothingScanned /\ found[r] = {}
    /\ pc[r] \in {"idle", "admitted", "reading", "loaded", "scanning"} =>
          built[r] = NoFiles
    /\ pc[r] = "scanning" => ScanIsCurrent(r)
    /\ pc[r] = "building" => BuildIsCurrent(r)
    /\ pc[r] = "diffed" => DiffIsCurrent(r)

CurrentInv == ParentsExist /\ \A r \in Requests : RequestIsCurrent(r)

LEMMA CurrentInvSuffices == CurrentInv => SnapshotIsCurrent
BY DEF CurrentInv, RequestIsCurrent, DiffIsCurrent, Right, Excused,
       SnapshotIsCurrent

-----------------------------------------------------------------------------
LEMMA ChangeKeepsParents ==
    ASSUME DiskTypeOK, ParentsExist, NEW x \in Names \cup Dirs, ChangeOf(x)
    PROVE  ParentsExist'
<1>1. ASSUME NEW n \in Names, NEW c \in Contents, WriteFile(n, c)
      PROVE  ParentsExist'
  <2>1. PICK e \in dirs : n \in Inside(e)
    BY <1>1 DEF WriteFile
  <2>2. /\ dirs' = dirs
        /\ \A k \in Names \ {n} : disk'[k] = disk[k]
    BY <1>1 DEF WriteFile, DiskTypeOK
  <2>3. e \in Dirs /\ n \in Beneath[e] /\ \A f \in Beneath[e] \cap Subdirs : n \notin Beneath[f]
    BY <2>1 DEF DiskTypeOK, Inside
  <2>4. ASSUME NEW d \in Dirs, n \in Beneath[d]
        PROVE  d \in dirs
    <3>1. d = e \/ d \in Beneath[e] \/ e \in Beneath[d]
      BY <2>3, <2>4, WatchedDirectoryAssumption DEF IsTree
    <3>2. CASE d = e
      BY <2>1, <3>2
    <3>3. CASE d \in Beneath[e]
      <4>1. d \in Subdirs
        BY <2>3, <3>3, WatchedDirectoryAssumption DEF Dirs
      <4>2. QED
        BY <2>3, <2>4, <3>3, <4>1
    <3>4. CASE e \in Beneath[d]
      <4>1. e \notin Names
        BY <2>3, WatchedDirectoryAssumption
      <4>2. QED
        BY <2>1, <3>4, <4>1 DEF ParentsExist, Exists
    <3>5. QED
      BY <3>1, <3>2, <3>3, <3>4
  <2>5. ASSUME NEW d \in Dirs, NEW y \in Beneath[d], Exists(y)'
        PROVE  d \in dirs'
    <3>1. CASE y = n
      BY <2>2, <2>4, <2>5, <3>1
    <3>2. CASE y # n
      BY <2>2, <2>5, <3>2 DEF ParentsExist, Exists
    <3>3. QED
      BY <3>1, <3>2
  <2>6. QED
    BY <2>5 DEF ParentsExist
<1>2. ASSUME NEW n \in Names, DeleteFile(n)
      PROVE  ParentsExist'
  <2>1. dirs' = dirs /\ \A k \in Names : disk'[k] \in {disk[k], Missing}
    BY <1>2 DEF DeleteFile, DiskTypeOK
  <2>2. QED
    BY <2>1 DEF ParentsExist, Exists
<1>3. ASSUME NEW d \in Dirs, MakeDirectory(d)
      PROVE  ParentsExist'
  <2>1. dirs' = dirs \cup {d} /\ disk' = disk
    BY <1>3 DEF MakeDirectory
  <2>2. ASSUME NEW e \in Dirs, d \in Beneath[e]
        PROVE  e \in dirs
    <3>1. d # Root
      BY <2>2, WatchedDirectoryAssumption DEF Dirs
    <3>2. PICK f \in dirs : d \in Inside(f)
      BY <1>3, <3>1 DEF MakeDirectory
    <3>3. /\ f \in Dirs /\ d \in Beneath[f]
          /\ \A g \in Beneath[f] \cap Subdirs : d \notin Beneath[g]
      BY <3>2 DEF DiskTypeOK, Inside
    <3>4. e = f \/ e \in Beneath[f] \/ f \in Beneath[e]
      BY <2>2, <3>3, WatchedDirectoryAssumption DEF IsTree
    <3>5. e \in Beneath[f] => e \in Subdirs
      BY <3>3, WatchedDirectoryAssumption DEF Dirs
    <3>6. f \notin Names
      BY <3>3, WatchedDirectoryAssumption
    <3>7. QED
      BY <2>2, <3>2, <3>3, <3>4, <3>5, <3>6 DEF ParentsExist, Exists
  <2>3. d \notin Names
    BY WatchedDirectoryAssumption
  <2>4. ASSUME NEW e \in Dirs, NEW y \in Beneath[e], Exists(y)'
        PROVE  e \in dirs'
    <3>1. CASE y = d
      BY <2>1, <2>2, <3>1
    <3>2. CASE y # d
      BY <2>1, <2>4, <3>2 DEF ParentsExist, Exists
    <3>3. QED
      BY <3>1, <3>2
  <2>5. QED
    BY <2>4 DEF ParentsExist
<1>4. ASSUME NEW d \in Dirs, RemoveDirectory(d)
      PROVE  ParentsExist'
  <2>1. /\ dirs' = dirs \ {d} /\ disk' = disk
        /\ FilesIn(d) \cup DirsIn(d) = {}
    BY <1>4 DEF RemoveDirectory
  <2>2. ASSUME NEW y \in Beneath[d], Exists(y)
        PROVE  FALSE
    <3>1. CASE y \in Inside(d)
      BY <2>1, <2>2, <3>1 DEF FilesIn, DirsIn, Exists
    <3>2. CASE y \notin Inside(d)
      <4>1. PICK e \in Inside(d) \cap Subdirs : y \in Beneath[e]
        BY <3>2, WatchedDirectoryAssumption DEF IsTree
      <4>2. e \in dirs
        BY <2>2, <4>1 DEF ParentsExist, Dirs
      <4>3. QED
        BY <2>1, <4>1, <4>2 DEF DirsIn
    <3>3. QED
      BY <3>1, <3>2
  <2>3. ASSUME NEW e \in Dirs, NEW y \in Beneath[e], Exists(y)'
        PROVE  e \in dirs'
    <3>1. Exists(y)
      BY <2>1, <2>3 DEF Exists
    <3>2. e # d
      BY <2>2, <2>3, <3>1
    <3>3. QED
      BY <2>1, <3>1, <3>2 DEF ParentsExist
  <2>4. QED
    BY <2>3 DEF ParentsExist
<1>5. QED
  BY <1>1, <1>2, <1>3, <1>4 DEF ChangeOf

(* What a change on disk leaves alone.                                     *)
LEMMA ChangeFrame ==
    ASSUME DiskTypeOK, NEW x \in Names \cup Dirs, ChangeOf(x)
    PROVE  /\ \A n \in Names \ {x} : disk'[n] = disk[n]
           /\ \A d \in Dirs \ {x} : d \in dirs' <=> d \in dirs
<1>1. ASSUME NEW c \in Contents, x \in Names, WriteFile(x, c)
      PROVE  dirs' = dirs /\ \A n \in Names \ {x} : disk'[n] = disk[n]
  BY <1>1 DEF WriteFile, DiskTypeOK
<1>2. QED
  BY <1>1 DEF ChangeOf, DeleteFile, MakeDirectory, RemoveDirectory, DiskTypeOK

LEMMA ChangeKeepsCurrent ==
    ASSUME BaseInv, NEW x \in Names \cup Dirs, Environment(x),
           NEW r \in Requests, RequestIsCurrent(r)
    PROVE  RequestIsCurrent(r)'
<1>1. AnalysisTypeOK /\ DiskTypeOK
  BY DEF BaseInv, TypeOK
<1>2. /\ UNCHANGED <<pc, pending, listed, scanned, found, built, diff, skipped>>
      /\ pc[r] \in {"scanning", "building", "diffed"} => touched'[r] = touched[r] \cup {x}
      /\ ChangeOf(x)
  BY <1>1 DEF Environment, scanVars, workVars, AnalysisTypeOK
<1>3. /\ \A n \in Names \ {x} : disk'[n] = disk[n]
      /\ \A d \in Subdirs \ {x} : d \in dirs' <=> d \in dirs
  BY <1>1, <1>2, ChangeFrame DEF Dirs
<1>4. /\ pc[r] \in {"scanning", "building", "diffed"} =>
            Excused(r)' = Excused(r) \cup {x}
      /\ \A y : Ahead(r, y)' = Ahead(r, y)
  BY <1>2 DEF Excused, Ahead
<1>5. CASE pc[r] = "scanning"
  <2>1. ScanIsCurrent(r)
    BY <1>5 DEF RequestIsCurrent
  <2>2. \A n \in Names \ Excused(r)' : FileSeen(r, n)'
    BY <1>2, <1>3, <1>4, <1>5, <2>1 DEF ScanIsCurrent, FileSeen, FileScanned
  <2>3. \A d \in Subdirs \ Excused(r)' : DirectorySeen(r, d)'
    BY <1>2, <1>3, <1>4, <1>5, <2>1 DEF ScanIsCurrent, DirectorySeen
  <2>4. ScanIsCurrent(r)'
    BY <2>2, <2>3 DEF ScanIsCurrent
  <2>5. QED
    BY <1>2, <1>5, <2>4 DEF RequestIsCurrent
<1>6. CASE pc[r] = "building"
  <2>1. BuildIsCurrent(r)'
    BY <1>2, <1>3, <1>4, <1>6 DEF RequestIsCurrent, BuildIsCurrent, FileBuilt
  <2>2. QED
    BY <1>2, <1>6, <2>1 DEF RequestIsCurrent
<1>7. CASE pc[r] = "diffed"
  <2>1. DiffIsCurrent(r)'
    BY <1>2, <1>3, <1>4, <1>7 DEF RequestIsCurrent, DiffIsCurrent
  <2>2. QED
    BY <1>2, <1>7, <2>1 DEF RequestIsCurrent
<1>8. CASE pc[r] \notin {"scanning", "building", "diffed"}
  BY <1>2, <1>8 DEF RequestIsCurrent
<1>9. QED
  BY <1>5, <1>6, <1>7, <1>8

-----------------------------------------------------------------------------
(* The steps of the traversal.                                             *)
LEMMA StartScanIsCurrent ==
    ASSUME BaseInv, NEW r \in Requests, RequestIsCurrent(r), StartScan(r)
    PROVE  RequestIsCurrent(r)'
<1>1. AnalysisTypeOK
  BY DEF BaseInv, TypeOK
<1>2. /\ pc[r] = "loaded" /\ pc'[r] = "scanning"
      /\ pending'[r] = {Root}
      /\ UNCHANGED <<diskVars, listed, scanned, found, built>>
  BY <1>1 DEF StartScan, GoTo, AnalysisTypeOK, workVars
<1>3. scanned'[r] = NothingScanned /\ found'[r] = {} /\ built'[r] = NoFiles
  BY <1>2 DEF RequestIsCurrent
<1>4. \A x \in Names \cup Subdirs : Ahead(r, x)'
  BY <1>2, WatchedDirectoryAssumption DEF Ahead
<1>5. \A n \in Names : FileSeen(r, n)'
  BY <1>3, <1>4 DEF FileSeen, FileScanned, NothingScanned
<1>6. \A d \in Subdirs : DirectorySeen(r, d)'
  BY <1>3, <1>4 DEF DirectorySeen
<1>7. QED
  BY <1>2, <1>3, <1>5, <1>6 DEF RequestIsCurrent, ScanIsCurrent

LEMMA ListDirectoryIsCurrent ==
    ASSUME BaseInv, ParentsExist, NEW r \in Requests, RequestIsCurrent(r),
           NEW d \in Dirs, ListDirectory(r, d)
    PROVE  RequestIsCurrent(r)'
<1>1. AnalysisTypeOK /\ DiskTypeOK
  BY DEF BaseInv, TypeOK
<1>2. /\ pc[r] = "scanning" /\ pc'[r] = "scanning"
      /\ listed[r] = {}
      /\ pending'[r] = (pending[r] \ {d}) \cup DirsIn(d)
      /\ found'[r] = found[r] \cup DirsIn(d)
      /\ UNCHANGED <<diskVars, scanned, built, touched>>
  BY <1>1 DEF ListDirectory, Visiting, AnalysisTypeOK, workVars
<1>3. \/ listed'[r] = FilesIn(d) /\ skipped'[r] = skipped[r]
      \/ listed'[r] = {} /\ skipped'[r] = skipped[r] \cup (Inside(d) \cap Names)
  BY <1>1, <1>2 DEF ListDirectory, AnalysisTypeOK
<1>4. Excused(r) \subseteq Excused(r)'
  BY <1>2, <1>3 DEF Excused
<1>5. ScanIsCurrent(r)
  BY <1>2 DEF RequestIsCurrent
<1>6. UNCHANGED <<disk, dirs>>
  BY <1>2 DEF diskVars
(* What exists beneath d is inside d, or beneath a directory inside d.     *)
<1>7. ASSUME NEW x \in Beneath[d], Exists(x), x \notin Inside(d)
      PROVE  Ahead(r, x)'
  <2>1. PICK e \in Inside(d) \cap Subdirs : x \in Beneath[e]
    BY <1>7, WatchedDirectoryAssumption DEF IsTree
  <2>2. e \in DirsIn(d)
    BY <1>7, <2>1 DEF ParentsExist, Dirs, DirsIn
  <2>3. QED
    BY <1>2, <2>1, <2>2 DEF Ahead
<1>8. ASSUME NEW x, Ahead(r, x), Exists(x), x \notin Inside(d)
      PROVE  Ahead(r, x)'
  <2>1. PICK e \in pending[r] : x \in Beneath[e]
    BY <1>8 DEF Ahead
  <2>2. CASE e = d
    BY <1>7, <1>8, <2>1, <2>2
  <2>3. CASE e # d
    BY <1>2, <2>1, <2>3 DEF Ahead
  <2>4. QED
    BY <2>2, <2>3
<1>9. ASSUME NEW n \in Names \ Excused(r)'
      PROVE  FileSeen(r, n)'
  <2>1. FileSeen(r, n)
    BY <1>4, <1>5, <1>9 DEF ScanIsCurrent
  <2>2. CASE FileScanned(r, n)
    BY <1>2, <1>6, <2>2 DEF FileSeen, FileScanned
  <2>3. CASE disk[n] # Missing /\ scanned[r][n] = Missing /\ Ahead(r, n)
    <3>1. Exists(n)
      BY <2>3 DEF Exists
    <3>2. CASE n \in Inside(d)
      <4>1. n \in listed'[r]
        BY <1>3, <1>9, <3>1, <3>2 DEF Excused, FilesIn
      <4>2. QED
        BY <1>2, <1>6, <2>3, <4>1 DEF FileSeen
    <3>3. CASE n \notin Inside(d)
      BY <1>2, <1>6, <1>8, <2>3, <3>1, <3>3 DEF FileSeen
    <3>4. QED
      BY <3>2, <3>3
  <2>4. QED
    BY <1>2, <2>1, <2>2, <2>3 DEF FileSeen
<1>10. ASSUME NEW e \in Subdirs \ Excused(r)'
       PROVE  DirectorySeen(r, e)'
  <2>1. DirectorySeen(r, e)
    BY <1>4, <1>5, <1>10 DEF ScanIsCurrent
  <2>2. e \notin Names
    BY WatchedDirectoryAssumption DEF Dirs
  <2>3. CASE e \notin dirs
    BY <1>2, <1>6, <2>1, <2>3 DEF DirectorySeen, DirsIn
  <2>4. CASE e \in dirs /\ e \in found[r]
    BY <1>2, <1>6, <2>4 DEF DirectorySeen
  <2>5. CASE e \in dirs /\ Ahead(r, e)
    <3>1. Exists(e)
      BY <2>2, <2>5 DEF Exists
    <3>2. CASE e \in Inside(d)
      BY <1>2, <1>6, <2>5, <3>2 DEF DirectorySeen, DirsIn
    <3>3. CASE e \notin Inside(d)
      BY <1>6, <1>8, <2>5, <3>1, <3>3 DEF DirectorySeen
    <3>4. QED
      BY <3>2, <3>3
  <2>6. QED
    BY <2>1, <2>3, <2>4, <2>5 DEF DirectorySeen
<1>11. ScanIsCurrent(r)'
  BY <1>9, <1>10 DEF ScanIsCurrent
<1>12. QED
  BY <1>2, <1>11 DEF RequestIsCurrent

LEMMA SkipDirectoryIsCurrent ==
    ASSUME BaseInv, NEW r \in Requests, RequestIsCurrent(r),
           NEW d \in Dirs, SkipDirectory(r, d)
    PROVE  RequestIsCurrent(r)'
<1>1. AnalysisTypeOK
  BY DEF BaseInv, TypeOK
<1>2. /\ pc[r] = "scanning" /\ pc'[r] = "scanning"
      /\ pending'[r] = pending[r] \ {d}
      /\ skipped'[r] = skipped[r] \cup Beneath[d]
      /\ UNCHANGED <<diskVars, listed, scanned, found, built, touched>>
  BY <1>1 DEF SkipDirectory, Visiting, AnalysisTypeOK, workVars
<1>3. UNCHANGED <<disk, dirs>>
  BY <1>2 DEF diskVars
<1>4. Excused(r)' = Excused(r) \cup Beneath[d]
  BY <1>2 DEF Excused
<1>5. \A x : Ahead(r, x) /\ x \notin Beneath[d] => Ahead(r, x)'
  BY <1>2 DEF Ahead
<1>6. ScanIsCurrent(r)
  BY <1>2 DEF RequestIsCurrent
<1>7. \A n \in Names \ Excused(r)' : FileSeen(r, n)'
  BY <1>2, <1>3, <1>4, <1>5, <1>6 DEF ScanIsCurrent, FileSeen, FileScanned
<1>8. \A e \in Subdirs \ Excused(r)' : DirectorySeen(r, e)'
  BY <1>2, <1>3, <1>4, <1>5, <1>6 DEF ScanIsCurrent, DirectorySeen
<1>9. ScanIsCurrent(r)'
  BY <1>7, <1>8 DEF ScanIsCurrent
<1>10. QED
  BY <1>2, <1>9 DEF RequestIsCurrent

LEMMA ListedFileIsCurrent ==
    ASSUME BaseInv, NEW r \in Requests, RequestIsCurrent(r),
           NEW n \in Names, ReadMetadata(r, n) \/ SkipFile(r, n)
    PROVE  RequestIsCurrent(r)'
<1>1. AnalysisTypeOK
  BY DEF BaseInv, TypeOK
<1>2. /\ pc[r] = "scanning" /\ pc'[r] = "scanning"
      /\ listed'[r] = listed[r] \ {n}
      /\ UNCHANGED <<diskVars, pending, found, built, touched>>
  BY <1>1 DEF ReadMetadata, SkipFile, AnalysisTypeOK, workVars, historyVars
<1>3. \/ /\ Exists(n)
         /\ \A k \in Names : scanned'[r][k] = IF k = n THEN InfoOf(disk[n]) ELSE scanned[r][k]
         /\ skipped'[r] = skipped[r]
      \/ scanned' = scanned /\ skipped'[r] = skipped[r] \cup {n}
  BY <1>1 DEF ReadMetadata, SkipFile, AnalysisTypeOK, historyVars
<1>4. UNCHANGED <<disk, dirs>>
  BY <1>2 DEF diskVars
<1>5. Excused(r) \subseteq Excused(r)' /\ \A x : Ahead(r, x)' = Ahead(r, x)
  BY <1>2, <1>3 DEF Excused, Ahead
<1>6. ScanIsCurrent(r)
  BY <1>2 DEF RequestIsCurrent
<1>7. ASSUME NEW k \in Names \ Excused(r)'
      PROVE  FileSeen(r, k)'
  <2>1. FileSeen(r, k)
    BY <1>5, <1>6, <1>7 DEF ScanIsCurrent
  <2>2. CASE k = n
    <3>1. disk[n] # Missing /\ scanned'[r][n] = InfoOf(disk[n])
      BY <1>3, <1>7, <2>2 DEF Excused, Exists
    <3>2. QED
      BY <1>4, <2>2, <3>1 DEF FileSeen, FileScanned
  <2>3. CASE k # n
    <3>1. scanned'[r][k] = scanned[r][k]
      BY <1>3, <2>3
    <3>2. QED
      BY <1>2, <1>4, <1>5, <2>1, <2>3, <3>1 DEF FileSeen, FileScanned
  <2>4. QED
    BY <2>2, <2>3
<1>8. \A d \in Subdirs \ Excused(r)' : DirectorySeen(r, d)'
  BY <1>2, <1>4, <1>5, <1>6 DEF ScanIsCurrent, DirectorySeen
<1>9. ScanIsCurrent(r)'
  BY <1>7, <1>8 DEF ScanIsCurrent
<1>10. QED
  BY <1>2, <1>9 DEF RequestIsCurrent

LEMMA AcceptScanIsCurrent ==
    ASSUME BaseInv, NEW r \in Requests, RequestIsCurrent(r), AcceptScan(r)
    PROVE  RequestIsCurrent(r)'
<1>1. AnalysisTypeOK
  BY DEF BaseInv, TypeOK
<1>2. /\ pc[r] = "scanning" /\ pc'[r] = "building"
      /\ pending[r] = {} /\ listed[r] = {}
      /\ UNCHANGED <<diskVars, scanned, found, built, touched, skipped>>
  BY <1>1
  DEF AcceptScan, ScanComplete, GoTo, AnalysisTypeOK, scanVars, workVars, historyVars
<1>3. UNCHANGED <<disk, dirs>> /\ Excused(r)' = Excused(r)
  BY <1>2 DEF diskVars, Excused
<1>4. ScanIsCurrent(r) /\ built[r] = NoFiles
  BY <1>2 DEF RequestIsCurrent
<1>5. \A x : ~Ahead(r, x)
  BY <1>2 DEF Ahead
<1>6. ASSUME NEW n \in Names \ Excused(r)
      PROVE  FileBuilt(r, n)'
  <2>1. FileScanned(r, n)
    BY <1>2, <1>4, <1>5, <1>6 DEF ScanIsCurrent, FileSeen
  <2>2. built[r][Fold[n]] = Missing
    BY <1>4, AnalyzeDirectoryAssumption DEF NoFiles
  <2>3. CASE disk[n] = Missing
    BY <1>2, <1>3, <2>1, <2>2, <2>3 DEF FileBuilt, FileScanned, Right
  <2>4. CASE disk[n] # Missing
    <3>1. disk[n] \in FileState
      BY <2>4 DEF BaseInv, TypeOK, DiskTypeOK
    <3>2. InfoOf(disk[n]) # Missing
      BY <3>1, InfoType, AnalyzeDirectoryAssumption
    <3>3. QED
      BY <1>2, <1>3, <2>1, <2>4, <3>2 DEF FileBuilt, FileScanned
  <2>5. QED
    BY <2>3, <2>4
<1>7. \A d \in Subdirs \ Excused(r) : d \in found[r] <=> d \in dirs
  BY <1>4, <1>5 DEF ScanIsCurrent, DirectorySeen
<1>8. BuildIsCurrent(r)'
  BY <1>2, <1>3, <1>6, <1>7 DEF BuildIsCurrent
<1>9. QED
  BY <1>2, <1>8 DEF RequestIsCurrent

-----------------------------------------------------------------------------
(* The steps of the builder.                                               *)

(* An entry with the size and time of the scan and the hash of the content *)
(* by now: if n is still what it was, it is right about n.                 *)
LEMMA BuildIsCurrentStep ==
    ASSUME IsInjective(Fold), BaseInv, NEW r \in Requests, RequestIsCurrent(r),
           pc[r] = "building",
           NEW n \in Scanned(r), NEW entry, Build(r, n, entry),
           skipped[r] \subseteq skipped'[r],
           n \notin Excused(r)' => entry # Missing /\ Right(entry, disk[n])
    PROVE  RequestIsCurrent(r)'
<1>1. AnalysisTypeOK
  BY DEF BaseInv, TypeOK
<1>2. /\ pc'[r] = "building"
      /\ UNCHANGED <<diskVars, found, touched>>
  BY DEF Build
<1>3. UNCHANGED <<disk, dirs>> /\ Excused(r) \subseteq Excused(r)'
  BY <1>2 DEF diskVars, Excused
<1>4. n \in Names /\ built[r] \in FileTable
  BY <1>1 DEF Scanned, AnalysisTypeOK
<1>5. \A k \in Names : Fold[k] \in Paths /\ (Fold[k] = Fold[n] => k = n)
  BY <1>4, AnalyzeDirectoryAssumption DEF IsInjective
<1>6. \A k \in Names : scanned'[r][k] = IF k = n THEN Missing ELSE scanned[r][k]
  BY <1>1, <1>4 DEF Build, AnalysisTypeOK
<1>7. \A p \in Paths :
         built'[r][p] = IF p = Fold[n] /\ entry # Missing THEN entry ELSE built[r][p]
  BY <1>1, <1>4 DEF Build, AnalysisTypeOK, FileTable
<1>8. BuildIsCurrent(r)
  BY DEF RequestIsCurrent
<1>9. ASSUME NEW k \in Names \ Excused(r)'
      PROVE  FileBuilt(r, k)'
  <2>1. CASE k = n
    <3>1. scanned'[r][n] = Missing /\ built'[r][Fold[n]] = entry
      BY <1>4, <1>5, <1>6, <1>7, <1>9, <2>1
    <3>2. QED
      BY <1>3, <1>9, <2>1, <3>1 DEF FileBuilt
  <2>2. CASE k # n
    <3>1. scanned'[r][k] = scanned[r][k] /\ built'[r][Fold[k]] = built[r][Fold[k]]
      BY <1>5, <1>6, <1>7, <2>2
    <3>2. FileBuilt(r, k)
      BY <1>3, <1>8, <1>9 DEF BuildIsCurrent
    <3>3. QED
      BY <1>3, <3>1, <3>2 DEF FileBuilt
  <2>3. QED
    BY <2>1, <2>2
<1>10. BuildIsCurrent(r)'
  BY <1>2, <1>3, <1>8, <1>9 DEF BuildIsCurrent
<1>11. QED
  BY <1>2, <1>10 DEF RequestIsCurrent

LEMMA BuilderIsCurrent ==
    ASSUME IsInjective(Fold), BaseInv, MetadataInv,
           NEW r \in Requests, RequestIsCurrent(r), NEW n \in Names,
           ReuseHash(r, n) \/ HashFile(r, n) \/ KeepPrevious(r, n)
    PROVE  RequestIsCurrent(r)'
<1> DEFINE previous == PreviousEntry(r, n)
           info == scanned[r][n]
<1>1. AnalysisTypeOK
  BY DEF BaseInv, TypeOK
<1>2. pc[r] = "building" /\ n \in Scanned(r)
  BY DEF ReuseHash, HashFile, KeepPrevious
<1>3. n \notin Excused(r) => disk[n] # Missing /\ info = InfoOf(disk[n])
  BY <1>2 DEF RequestIsCurrent, BuildIsCurrent, FileBuilt, Scanned
<1>4. SoundFor(previous, disk[n])
  <2>1. Good(PreviousFiles(loaded[r]), disk, clock)
    BY PreviousIsGood DEF MetadataInv
  <2>2. QED
    BY <2>1 DEF Good, PreviousEntry
<1>5. \A hash : LET entry == EntryOf(info, hash, previous)
                IN  /\ entry.size = info.size
                    /\ entry.mtime = info.mtime
                    /\ entry.hash = hash
  BY DEF EntryOf
<1>6. info \in FileInfo
  BY <1>1, <1>2 DEF Scanned, AnalysisTypeOK
<1>7. previous # Missing => previous \in Entry
  BY <1>1, PreviousEntryType
<1>8. CASE KeepPrevious(r, n)
  <2>1. /\ Build(r, n, previous)
        /\ skipped'[r] = skipped[r] \cup {n}
    BY <1>1, <1>8 DEF KeepPrevious, AnalysisTypeOK
  <2>2. n \in Excused(r)'
    BY <2>1 DEF Excused
  <2>3. QED
    BY <1>2, <2>1, <2>2, BuildIsCurrentStep
<1>9. ASSUME NEW hash \in Hashes, Build(r, n, EntryOf(info, hash, previous)),
             UNCHANGED skipped,
             n \notin Excused(r) => hash = HashOf[disk[n].content]
      PROVE  RequestIsCurrent(r)'
  <2> DEFINE entry == EntryOf(info, hash, previous)
  <2>1. entry \in Entry
    BY <1>1, <1>6, PreviousEntryType, EntryType
  <2>2. /\ [size |-> entry.size, mtime |-> entry.mtime] = info
        /\ entry.hash = hash
    BY <1>5, <1>6 DEF FileInfo
  <2>3. Build(r, n, entry) /\ entry # Missing
    BY <1>9, <2>1, ManifestDiffAssumption
  <2> HIDE DEF entry
  <2>4. Excused(r)' = Excused(r)
    BY <1>9 DEF Excused, Build
  <2>5. n \notin Excused(r) => Right(entry, disk[n])
    BY <1>3, <1>9, <2>2, <2>3 DEF Right
  <2>6. QED
    BY <1>2, <1>9, <2>3, <2>4, <2>5, BuildIsCurrentStep
<1>10. CASE ReuseHash(r, n)
  <2>1. /\ Build(r, n, EntryOf(info, previous.hash, previous))
        /\ UNCHANGED skipped
        /\ previous # Missing
        /\ previous.size = info.size /\ previous.mtime = info.mtime
    BY <1>10 DEF ReuseHash, CanReuseHash
  <2>2. previous.hash \in Hashes
    BY <1>7, <2>1 DEF Entry
  <2>3. info = [size |-> previous.size, mtime |-> previous.mtime]
    BY <1>6, <2>1 DEF FileInfo
  <2>4. n \notin Excused(r) => previous.hash = HashOf[disk[n].content]
    BY <1>3, <1>4, <2>1, <2>3 DEF SoundFor
  <2>5. QED
    BY <1>9, <2>1, <2>2, <2>4
<1>11. CASE HashFile(r, n)
  <2>1. /\ Build(r, n, EntryOf(info, HashOf[disk[n].content], previous))
        /\ UNCHANGED skipped
        /\ disk[n] # Missing
    BY <1>11 DEF HashFile, Exists
  <2>2. HashOf[disk[n].content] \in Hashes
    BY <2>1, WatchedDirectoryAssumption DEF BaseInv, TypeOK, DiskTypeOK, FileState
  <2>3. QED
    BY <1>9, <2>1, <2>2
<1>12. QED
  BY <1>8, <1>10, <1>11

LEMMA ComputeDiffIsCurrent ==
    ASSUME BaseInv, NEW r \in Requests, RequestIsCurrent(r), ComputeDiff(r)
    PROVE  RequestIsCurrent(r)'
<1>1. AnalysisTypeOK
  BY DEF BaseInv, TypeOK
<1>2. /\ pc[r] = "building" /\ pc'[r] = "diffed"
      /\ Scanned(r) = {}
      /\ ~DiffThrows(loaded[r], built[r])
      /\ diff'[r] = Diff(loaded[r], built[r], found[r])
      /\ UNCHANGED <<diskVars, touched, skipped>>
      /\ loaded[r] \in Snapshot \cup {Absent}
      /\ built[r] \in FileTable
  BY <1>1 DEF ComputeDiff, GoTo, AnalysisTypeOK, historyVars
<1>3. UNCHANGED <<disk, dirs>> /\ Excused(r)' = Excused(r)
  BY <1>2 DEF diskVars, Excused
<1>4. /\ diff'[r].next.files = NextFiles(loaded[r], built[r])
      /\ diff'[r].next.dirs = found[r]
  BY <1>2 DEF Diff
<1>5. BuildIsCurrent(r)
  BY <1>2 DEF RequestIsCurrent
<1> DEFINE new == NextFiles(loaded[r], built[r])
<1>6. \A p \in Paths : /\ built[r][p] = Missing <=> new[p] = Missing
                       /\ built[r][p] # Missing =>
                             /\ new[p].size = built[r][p].size
                             /\ new[p].mtime = built[r][p].mtime
                             /\ new[p].hash = built[r][p].hash
  BY <1>2, NextFilesProperties
<1> HIDE DEF new
<1>7. ASSUME NEW n \in Names \ Excused(r)
      PROVE  Right(new[Fold[n]], disk[n])
  <2>1. Right(built[r][Fold[n]], disk[n])
    BY <1>2, <1>5, <1>7 DEF BuildIsCurrent, FileBuilt, Scanned
  <2>2. Fold[n] \in Paths
    BY AnalyzeDirectoryAssumption
  <2>3. QED
    BY <1>6, <2>1, <2>2 DEF Right
<1>8. DiffIsCurrent(r)'
  BY <1>3, <1>4, <1>5, <1>7 DEF DiffIsCurrent, BuildIsCurrent, new
<1>9. QED
  BY <1>2, <1>8 DEF RequestIsCurrent

-----------------------------------------------------------------------------
(* What a step of request r leaves alone.                                  *)
LEMMA WorkingScans ==
    ASSUME BaseInv, NEW r \in Requests, Working(r)
    PROVE  \A s \in Requests \ {r} :
              /\ pending'[s] = pending[s] /\ listed'[s] = listed[s]
              /\ found'[s] = found[s]
              /\ touched'[s] = touched[s] /\ skipped'[s] = skipped[s]
<1> USE DEF BaseInv, TypeOK, AnalysisTypeOK, scanVars, workVars, historyVars
<1>1. CASE \/ OpenManifest(r) \/ ReadManifest(r) \/ StartScan(r) \/ AcceptScan(r)
           \/ ComputeDiff(r) \/ BeginSave(r) \/ FinishSave(r)
  BY <1>1 DEF OpenManifest, ReadManifest, StartScan, AcceptScan, ComputeDiff,
              BeginSave, FinishSave
<1>2. CASE \/ \E d \in Dirs : ListDirectory(r, d) \/ SkipDirectory(r, d)
           \/ \E n \in Names : ReadMetadata(r, n) \/ SkipFile(r, n)
  BY <1>2 DEF ListDirectory, SkipDirectory, ReadMetadata, SkipFile
<1>3. CASE \E n \in Names : ReuseHash(r, n) \/ HashFile(r, n) \/ KeepPrevious(r, n)
  BY <1>3 DEF ReuseHash, HashFile, KeepPrevious, Build
<1>4. QED
  BY <1>1, <1>2, <1>3 DEF Working

LEMMA FrameIsCurrent ==
    ASSUME NEW r \in Requests, RequestIsCurrent(r), UNCHANGED <<disk, dirs>>,
           pc'[r] = pc[r], pending'[r] = pending[r], listed'[r] = listed[r],
           scanned'[r] = scanned[r], found'[r] = found[r], built'[r] = built[r],
           diff'[r] = diff[r], touched'[r] = touched[r], skipped'[r] = skipped[r]
    PROVE  RequestIsCurrent(r)'
<1>1. Excused(r)' = Excused(r) /\ \A x : Ahead(r, x)' = Ahead(r, x)
  BY DEF Excused, Ahead
<1>2. ScanIsCurrent(r) => ScanIsCurrent(r)'
  BY <1>1 DEF ScanIsCurrent, FileSeen, FileScanned, DirectorySeen
<1>3. BuildIsCurrent(r) => BuildIsCurrent(r)'
  BY <1>1 DEF BuildIsCurrent, FileBuilt
<1>4. DiffIsCurrent(r) => DiffIsCurrent(r)'
  BY <1>1 DEF DiffIsCurrent
<1>5. QED
  BY <1>2, <1>3, <1>4 DEF RequestIsCurrent

LEMMA WorkingKeepsCurrentInv ==
    ASSUME IsInjective(Fold), BaseInv, MetadataInv, CurrentInv,
           NEW r \in Requests, Working(r)
    PROVE  CurrentInv'
<1>1. AnalysisTypeOK
  BY DEF BaseInv, TypeOK
<1>2. UNCHANGED <<disk, dirs>>
  BY WorkingFacts DEF diskVars
<1>3. ParentsExist'
  BY <1>2 DEF CurrentInv, ParentsExist, Exists
<1>4. \A s \in Requests \ {r} : RequestIsCurrent(s)'
  BY <1>2, WorkingFrame, WorkingTables, WorkingScans, FrameIsCurrent DEF CurrentInv
<1>5. RequestIsCurrent(r)'
  <2>1. RequestIsCurrent(r)
    BY DEF CurrentInv
  <2>2. CASE OpenManifest(r) \/ ReadManifest(r)
    <3>1. /\ pc[r] \in {"admitted", "reading"} /\ pc'[r] \in {"reading", "loaded"}
          /\ UNCHANGED <<scanned, found, built>>
      BY <1>1, <2>2
      DEF OpenManifest, ReadManifest, GoTo, AnalysisTypeOK, scanVars, workVars
    <3>2. QED
      BY <2>1, <3>1 DEF RequestIsCurrent
  <2>3. CASE BeginSave(r) \/ FinishSave(r)
    <3>1. pc'[r] \in {"writing", "saved"}
      BY <1>1, <2>3 DEF BeginSave, FinishSave, GoTo, AnalysisTypeOK
    <3>2. QED
      BY <3>1 DEF RequestIsCurrent
  <2>4. CASE \/ StartScan(r) \/ AcceptScan(r) \/ ComputeDiff(r)
             \/ \E d \in Dirs : ListDirectory(r, d) \/ SkipDirectory(r, d)
             \/ \E n \in Names : ReadMetadata(r, n) \/ SkipFile(r, n)
    BY <2>1, <2>4, StartScanIsCurrent, AcceptScanIsCurrent, ComputeDiffIsCurrent,
       ListDirectoryIsCurrent, SkipDirectoryIsCurrent, ListedFileIsCurrent
    DEF CurrentInv
  <2>5. CASE \E n \in Names : ReuseHash(r, n) \/ HashFile(r, n) \/ KeepPrevious(r, n)
    BY <2>1, <2>5, BuilderIsCurrent
  <2>6. QED
    BY <2>2, <2>3, <2>4, <2>5 DEF Working
<1>6. QED
  BY <1>3, <1>4, <1>5 DEF CurrentInv

LEMMA CurrentInvStep ==
    ASSUME IsInjective(Fold), BaseInv, MetadataInv, CurrentInv, [Next]_vars
    PROVE  CurrentInv'
<1>1. AnalysisTypeOK /\ DiskTypeOK
  BY DEF BaseInv, TypeOK
<1>2. ASSUME UNCHANGED <<disk, dirs>>
      PROVE  ParentsExist'
  BY <1>2 DEF CurrentInv, ParentsExist, Exists
<1>3. ASSUME NEW r \in Requests, Submit(r) \/ CancelQueued(r)
      PROVE  CurrentInv'
  <2>1. /\ UNCHANGED <<diskVars, scanVars, workVars, historyVars>>
        /\ pc[r] \in {"idle", "admitted"} /\ pc'[r] \in {"idle", "admitted"}
        /\ \A s \in Requests \ {r} : pc'[s] = pc[s]
    BY <1>1, <1>3 DEF Submit, CancelQueued, GoTo, AnalysisTypeOK
  <2>2. UNCHANGED <<disk, dirs, pending, listed, scanned, found, built, diff,
                    touched, skipped>>
    BY <2>1 DEF diskVars, scanVars, workVars, historyVars
  <2>3. RequestIsCurrent(r)'
    BY <2>1, <2>2 DEF CurrentInv, RequestIsCurrent
  <2>4. \A s \in Requests \ {r} : RequestIsCurrent(s)'
    BY <2>1, <2>2, FrameIsCurrent DEF CurrentInv
  <2>5. QED
    BY <1>2, <2>2, <2>3, <2>4 DEF CurrentInv
<1>4. ASSUME NEW R, Forget(R), UNCHANGED <<disk, dirs>>,
             \A s \in Requests : pc'[s] = IF s \in R THEN "idle" ELSE pc[s]
      PROVE  CurrentInv'
  <2>1. ASSUME NEW s \in Requests
        PROVE  RequestIsCurrent(s)'
    <3>1. CASE s \in R
      <4>1. /\ pc'[s] = "idle" /\ scanned'[s] = NothingScanned
            /\ found'[s] = {} /\ built'[s] = NoFiles
        BY <1>4, <3>1 DEF Forget
      <4>2. QED
        BY <4>1 DEF RequestIsCurrent
    <3>2. CASE s \notin R
      <4>1. /\ pc'[s] = pc[s] /\ pending'[s] = pending[s] /\ listed'[s] = listed[s]
            /\ scanned'[s] = scanned[s] /\ found'[s] = found[s]
            /\ built'[s] = built[s] /\ diff'[s] = diff[s]
            /\ touched'[s] = touched[s] /\ skipped'[s] = skipped[s]
        BY <1>4, <3>2 DEF Forget
      <4>2. QED
        BY <1>4, <4>1, FrameIsCurrent DEF CurrentInv
    <3>3. QED
      BY <3>1, <3>2
  <2>2. QED
    BY <1>2, <1>4, <2>1 DEF CurrentInv
<1>5. ASSUME NEW r \in Requests, Leaving(r)
      PROVE  CurrentInv'
  <2>1. /\ Forget({r}) /\ UNCHANGED <<disk, dirs>>
        /\ \A s \in Requests : pc'[s] = IF s \in {r} THEN "idle" ELSE pc[s]
    BY <1>1, <1>5, LeavingFacts DEF Leave, GoTo, AnalysisTypeOK, diskVars
  <2>2. QED
    BY <1>4, <2>1
<1>6. ASSUME NEW h \in Hosts, Crash(h)
      PROVE  CurrentInv'
  <2> DEFINE R == {r \in Requests : HostOf[r] = h}
  <2>1. /\ Forget(R) /\ UNCHANGED <<disk, dirs>>
        /\ \A s \in Requests : pc'[s] = IF s \in R THEN "idle" ELSE pc[s]
    BY <1>6 DEF Crash, diskVars
  <2>2. QED
    BY <1>4, <2>1
<1>7. ASSUME NEW r \in Requests, Working(r)
      PROVE  CurrentInv'
  BY <1>7, WorkingKeepsCurrentInv
<1>8. ASSUME NEW x \in Names \cup Dirs, Environment(x)
      PROVE  CurrentInv'
  <2>1. ChangeOf(x)
    BY <1>8 DEF Environment
  <2>2. QED
    BY <1>1, <1>8, <2>1, ChangeKeepsParents, ChangeKeepsCurrent DEF CurrentInv
<1>9. CASE UNCHANGED vars
  <2>1. UNCHANGED <<disk, dirs, pc, pending, listed, scanned, found, built, diff,
                    touched, skipped>>
    BY <1>9 DEF vars, diskVars, scanVars, workVars, historyVars
  <2>2. QED
    BY <1>2, <2>1, FrameIsCurrent DEF CurrentInv
<1>10. QED
  BY <1>3, <1>5, <1>6, <1>7, <1>8, <1>9, NextCases

(* Every snapshot is as current as it can be, whatever locks and hosts     *)
(* there are and whatever happens to the directory during the analysis.    *)
THEOREM SnapshotsAreCurrent ==
    ASSUME FreshStamps, IsInjective(Fold)
    PROVE  Spec => []SnapshotIsCurrent
<1>1. Init => CurrentInv
  <2> SUFFICES ASSUME Init
               PROVE  CurrentInv
    OBVIOUS
  <2>1. ParentsExist
    BY WatchedDirectoryAssumption DEF Init, DiskInit, ParentsExist, Exists, Dirs
  <2>2. QED
    BY <2>1 DEF Init, CurrentInv, RequestIsCurrent
<1>2. BaseInv /\ MetadataInv /\ CurrentInv /\ [Next]_vars => CurrentInv'
  BY CurrentInvStep
<1>3. QED
  BY <1>1, <1>2, BaseInvCorrect, MetadataInvCorrect, CurrentInvSuffices, PTL DEF Spec
==============================================================================
