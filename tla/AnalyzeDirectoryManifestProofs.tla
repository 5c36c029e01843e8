-------------------- MODULE AnalyzeDirectoryManifestProofs --------------------
(***************************************************************************)
(* What the analyses report and what the manifests that they leave         *)
(* promise: complete reports, proper histories, nothing over the limits.   *)
(***************************************************************************)
EXTENDS AnalyzeDirectoryProofs, FiniteSetTheorems

-----------------------------------------------------------------------------
(***************************************************************************)
(* The reports of the analyses are complete, and the manifests that they   *)
(* leave implement ChangeLedger.                                           *)
(***************************************************************************)

(* Until it is stored, a result belongs to the manifest that was loaded.   *)
DiffInv ==
    \A r \in Requests : pc[r] \in {"diffed", "writing"} =>
        /\ Succeeds(loaded[r], diff[r].next)
        /\ ReportExplains(loaded[r], diff[r])

LEMMA DiffInvStep ==
    ASSUME BaseInv, DiffInv, [Next]_vars
    PROVE  DiffInv'
<1> USE DEF DiffInv
<1>1. AnalysisTypeOK
  BY DEF BaseInv, TypeOK
<1>2. ASSUME NEW r \in Requests,
             \A s \in Requests \ {r} :
                pc'[s] = pc[s] /\ loaded'[s] = loaded[s] /\ diff'[s] = diff[s],
             pc'[r] \notin {"diffed", "writing"}
      PROVE  DiffInv'
  BY <1>2
<1>3. ASSUME NEW r \in Requests, Submit(r) \/ CancelQueued(r)
      PROVE  DiffInv'
  <2>1. /\ UNCHANGED <<loaded, diff>>
        /\ pc'[r] \in {"idle", "admitted"}
        /\ \A s \in Requests \ {r} : pc'[s] = pc[s]
    BY <1>1, <1>3 DEF Submit, CancelQueued, GoTo, workVars, AnalysisTypeOK
  <2>2. QED
    BY <1>2, <2>1
<1>4. ASSUME NEW r \in Requests, Leaving(r)
      PROVE  DiffInv'
  <2>1. Leave(r)
    BY <1>4, LeavingFacts
  <2>2. /\ pc'[r] = "idle"
        /\ \A s \in Requests \ {r} :
              pc'[s] = pc[s] /\ loaded'[s] = loaded[s] /\ diff'[s] = diff[s]
    BY <1>1, <2>1 DEF Leave, GoTo, Forget, AnalysisTypeOK
  <2>3. QED
    BY <1>2, <2>2
<1>5. ASSUME NEW r \in Requests, Working(r)
      PROVE  DiffInv'
  <2>1. \A s \in Requests \ {r} :
           pc'[s] = pc[s] /\ loaded'[s] = loaded[s] /\ diff'[s] = diff[s]
    BY <1>5, WorkingFrame
  <2>2. CASE OpenManifest(r) \/ ReadManifest(r) \/ StartScan(r) \/ AcceptScan(r)
             \/ FinishSave(r)
    <3>1. pc'[r] \notin {"diffed", "writing"}
      BY <1>1, <2>2 DEF OpenManifest, ReadManifest, StartScan, AcceptScan,
                        FinishSave, GoTo, AnalysisTypeOK
    <3>2. QED
      BY <1>2, <2>1, <3>1
  <2>3. ASSUME NEW d \in Dirs, ListDirectory(r, d) \/ SkipDirectory(r, d)
        PROVE  DiffInv'
    BY <2>3 DEF ListDirectory, SkipDirectory, workVars
  <2>4. ASSUME NEW n \in Names, ReadMetadata(r, n) \/ SkipFile(r, n)
        PROVE  DiffInv'
    BY <2>4 DEF ReadMetadata, SkipFile, workVars
  <2>5. ASSUME NEW n \in Names,
               ReuseHash(r, n) \/ HashFile(r, n) \/ KeepPrevious(r, n)
        PROVE  DiffInv'
    BY <2>5 DEF ReuseHash, HashFile, KeepPrevious, Build
  <2>6. CASE ComputeDiff(r)
    <3>1. /\ loaded'[r] = loaded[r]
          /\ diff'[r] = Diff(loaded[r], built[r], found[r])
          /\ ~DiffThrows(loaded[r], built[r])
          /\ loaded[r] \in Snapshot \cup {Absent}
          /\ built[r] \in FileTable
          /\ found[r] \in SUBSET Subdirs
      BY <1>1, <2>6 DEF ComputeDiff, AnalysisTypeOK
    <3>2. Succeeds(loaded'[r], diff'[r].next) /\ ReportExplains(loaded'[r], diff'[r])
      BY <3>1, DiffIsRight
    <3>3. QED
      BY <2>1, <3>2
  <2>7. CASE BeginSave(r)
    <3>1. UNCHANGED <<loaded, diff>> /\ pc[r] = "diffed"
      BY <2>7 DEF BeginSave, workVars
    <3>2. QED
      BY <2>1, <3>1
  <2>8. QED
    BY <1>5, <2>2, <2>3, <2>4, <2>5, <2>6, <2>7 DEF Working
<1>6. ASSUME NEW h \in Hosts, Crash(h)
      PROVE  DiffInv'
  <2>1. \A s \in Requests :
           \/ pc'[s] = "idle"
           \/ pc'[s] = pc[s] /\ loaded'[s] = loaded[s] /\ diff'[s] = diff[s]
    BY <1>1, <1>6 DEF Crash, Forget, AnalysisTypeOK
  <2>2. QED
    BY <2>1
<1>7. CASE (\E x \in Names \cup Dirs : Environment(x)) \/ UNCHANGED vars
  <2>1. UNCHANGED <<pc, loaded, diff>>
    BY <1>7 DEF Environment, vars, workVars
  <2>2. QED
    BY <2>1
<1>8. QED
  BY <1>3, <1>4, <1>5, <1>6, <1>7, NextCases

LEMMA DiffInvCorrect == Spec => []DiffInv
<1>1. Init => DiffInv
  BY DEF Init, DiffInv
<1>2. BaseInv /\ DiffInv /\ [Next]_vars => DiffInv'
  BY DiffInvStep
<1>3. QED
  BY <1>1, <1>2, BaseInvCorrect, PTL DEF Spec

(* Every report accounts exactly for the step from the manifest that was   *)
(* loaded to the one about to be stored, whatever the locks do.            *)
THEOREM ReportsAreComplete == Spec => []ReportIsComplete
<1>1. DiffInv => ReportIsComplete
  BY DEF DiffInv, ReportIsComplete
<1>2. QED
  BY <1>1, DiffInvCorrect, PTL

-----------------------------------------------------------------------------
(* What Ledger is, without CHOOSE.                                         *)
LedgerIs ==
    /\ Ledger = [m \in Manifests |-> Ledger[m]]
    /\ \A r \in Requests : pc[r] = "writing" => Ledger[ManifestOf[r]] = loaded[r]
    /\ \A m \in Manifests : WritersOf(m) = {} => Ledger[m] = manifest[m]

LEMMA LedgerCorrect ==
    ASSUME LockCoversManifest, BaseInv
    PROVE  LedgerIs
<1>1. Ledger = [m \in Manifests |-> Ledger[m]]
  BY DEF Ledger
<1>2. \A m \in Manifests : WritersOf(m) = {} => Ledger[m] = manifest[m]
  BY DEF Ledger
<1>3. ASSUME NEW r \in Requests, pc[r] = "writing"
      PROVE  Ledger[ManifestOf[r]] = loaded[r]
  <2> DEFINE m == ManifestOf[r]
  <2>1. m \in Manifests
    BY AnalyzeDirectoryAssumption
  <2>2. ASSUME NEW s \in Requests, ManifestOf[s] = m, pc[s] = "writing"
        PROVE  s = r
    <3>1. Analyzing(r) /\ Analyzing(s)
      BY <1>3, <2>2 DEF BaseInv, StageMatchesHandle, Analyzing
    <3>2. QED
      BY <2>2, <3>1, OneAnalysis DEF OneAnalysisPerManifest
  <2>3. WritersOf(m) = {r}
    BY <1>3, <2>2 DEF WritersOf
  <2>4. (CHOOSE s \in WritersOf(m) : TRUE) = r
    BY <2>3
  <2>5. Ledger[m] = loaded[CHOOSE s \in WritersOf(m) : TRUE]
    BY <2>1, <2>3 DEF Ledger
  <2>6. QED
    BY <2>4, <2>5
<1>4. QED
  BY <1>1, <1>2, <1>3 DEF LedgerIs

(* The definitions of ChangeLedger are those of ManifestDiff.              *)
LEMMA SameSnapshots == History!Snapshot = Snapshot
BY DEF History!Snapshot, History!FileTable, History!Entry, Snapshot, FileTable, Entry

LEMMA SameSucceeds ==
    ASSUME NEW prev, NEW next, Succeeds(prev, next)
    PROVE  History!Succeeds(prev, next)
BY DEF History!Succeeds, History!Known, History!PreviousFiles, History!NoFiles,
       Succeeds, Known, PreviousFiles, NoFiles

(* Steps that leave the manifests and their writers alone.                 *)
LEMMA LedgerStutters ==
    ASSUME LedgerIs, LedgerIs', manifest' = manifest,
           \A r \in Requests : pc'[r] = "writing" <=> pc[r] = "writing",
           \A r \in Requests : pc[r] = "writing" => loaded'[r] = loaded[r]
    PROVE  Ledger' = Ledger
<1>1. ASSUME NEW m \in Manifests
      PROVE  Ledger'[m] = Ledger[m]
  <2>1. WritersOf(m)' = WritersOf(m)
    BY DEF WritersOf
  <2>2. CASE WritersOf(m) = {}
    BY <2>1, <2>2 DEF LedgerIs
  <2>3. CASE WritersOf(m) # {}
    BY <2>3 DEF LedgerIs, WritersOf
  <2>4. QED
    BY <2>2, <2>3
<1>2. QED
  BY <1>1 DEF LedgerIs

(* Steps that end the writers in R.                                        *)
LEMMA LedgerLoses ==
    ASSUME LockCoversManifest, BaseInv, UpdateInv, LedgerIs, LedgerIs',
           manifest' = manifest, NEW R \in SUBSET Requests,
           \A r \in R : pc'[r] = "idle",
           \A r \in Requests \ R : pc'[r] = pc[r] /\ loaded'[r] = loaded[r]
    PROVE  History!LedgerNext
<1> DEFINE M == {ManifestOf[r] : r \in {s \in R : pc[s] = "writing"}}
<1>1. M \in SUBSET Manifests
  BY AnalyzeDirectoryAssumption
<1>2. ASSUME NEW m \in Manifests
      PROVE  Ledger'[m] = IF m \in M THEN Torn ELSE Ledger[m]
  <2>1. CASE m \in M
    <3>1. PICK r \in R : pc[r] = "writing" /\ ManifestOf[r] = m
      BY <2>1
    <3>2. ASSUME NEW s \in Requests, ManifestOf[s] = m, pc[s] = "writing"
          PROVE  s = r
      <4>1. Analyzing(r) /\ Analyzing(s)
        BY <3>1, <3>2 DEF BaseInv, StageMatchesHandle, Analyzing
      <4>2. QED
        BY <3>1, <3>2, <4>1, OneAnalysis DEF OneAnalysisPerManifest
    <3>3. WritersOf(m)' = {}
      BY <3>1, <3>2 DEF WritersOf
    <3>4. manifest[m] = Torn
      BY <3>1 DEF UpdateInv
    <3>5. QED
      BY <2>1, <3>3, <3>4 DEF LedgerIs
  <2>2. CASE m \notin M
    <3>1. \A s \in Requests : ManifestOf[s] = m =>
             /\ pc'[s] = "writing" <=> pc[s] = "writing"
             /\ pc[s] = "writing" => loaded'[s] = loaded[s]
      BY <2>2
    <3>2. WritersOf(m)' = WritersOf(m)
      BY <3>1 DEF WritersOf
    <3>3. CASE WritersOf(m) = {}
      BY <2>2, <3>2, <3>3 DEF LedgerIs
    <3>4. CASE WritersOf(m) # {}
      <4>1. PICK s \in Requests : ManifestOf[s] = m /\ pc[s] = "writing"
        BY <3>4 DEF WritersOf
      <4>2. Ledger'[m] = loaded'[s] /\ Ledger[m] = loaded[s]
        BY <3>1, <4>1 DEF LedgerIs
      <4>3. QED
        BY <2>2, <3>1, <4>1, <4>2
    <3>5. QED
      BY <3>3, <3>4
  <2>3. QED
    BY <2>1, <2>2
<1>3. Ledger' = [m \in Manifests |-> IF m \in M THEN Torn ELSE Ledger[m]]
  BY <1>2 DEF LedgerIs
<1> HIDE DEF M
<1>4. History!Lose(M)
  BY <1>3 DEF History!Lose
<1>5. QED
  BY <1>1, <1>4 DEF History!LedgerNext

LEMMA LedgerStep ==
    ASSUME LockCoversManifest, BaseInv, UpdateInv, DiffInv,
           LedgerIs, LedgerIs', [Next]_vars
    PROVE  [History!LedgerNext]_Ledger
<1>1. AnalysisTypeOK
  BY DEF BaseInv, TypeOK
<1>2. ASSUME NEW r \in Requests, Submit(r) \/ CancelQueued(r)
      PROVE  Ledger' = Ledger
  <2>1. /\ UNCHANGED <<manifest, loaded>>
        /\ pc[r] # "writing" /\ pc'[r] # "writing"
        /\ \A s \in Requests \ {r} : pc'[s] = pc[s]
    BY <1>1, <1>2 DEF Submit, CancelQueued, GoTo, workVars, AnalysisTypeOK
  <2>2. QED
    BY <2>1, LedgerStutters
<1>3. ASSUME NEW r \in Requests, Leaving(r)
      PROVE  History!LedgerNext
  <2>1. Leave(r)
    BY <1>3, LeavingFacts
  <2>2. /\ manifest' = manifest
        /\ pc'[r] = "idle"
        /\ \A s \in Requests \ {r} : pc'[s] = pc[s] /\ loaded'[s] = loaded[s]
    BY <1>1, <2>1 DEF Leave, GoTo, Forget, AnalysisTypeOK
  <2>3. {r} \in SUBSET Requests
    OBVIOUS
  <2>4. QED
    BY <2>2, <2>3, LedgerLoses
<1>4. ASSUME NEW r \in Requests, Working(r), manifest' = manifest, ~BeginSave(r), ~FinishSave(r)
      PROVE  Ledger' = Ledger
  <2>1. \A s \in Requests \ {r} : pc'[s] = pc[s] /\ loaded'[s] = loaded[s]
    BY <1>4, WorkingFrame
  <2>2. pc[r] # "writing" /\ pc'[r] # "writing"
    <3> USE DEF AnalysisTypeOK, GoTo
    <3>1. CASE OpenManifest(r) \/ ReadManifest(r) \/ StartScan(r) \/ AcceptScan(r)
               \/ ComputeDiff(r)
      BY <1>1, <3>1 DEF OpenManifest, ReadManifest, StartScan, AcceptScan,
                        ScanComplete, ComputeDiff
    <3>2. ASSUME NEW d \in Dirs, ListDirectory(r, d) \/ SkipDirectory(r, d)
          PROVE  pc[r] # "writing" /\ pc' = pc
      BY <3>2 DEF ListDirectory, SkipDirectory, Visiting
    <3>3. ASSUME NEW n \in Names, ReadMetadata(r, n) \/ SkipFile(r, n)
          PROVE  pc[r] # "writing" /\ pc' = pc
      BY <3>3 DEF ReadMetadata, SkipFile
    <3>4. ASSUME NEW n \in Names,
                 ReuseHash(r, n) \/ HashFile(r, n) \/ KeepPrevious(r, n)
          PROVE  pc[r] # "writing" /\ pc' = pc
      BY <3>4 DEF ReuseHash, HashFile, KeepPrevious, Build
    <3>5. QED
      BY <1>4, <3>1, <3>2, <3>3, <3>4 DEF Working
  <2>3. QED
    BY <1>4, <2>1, <2>2, LedgerStutters
<1>5. ASSUME NEW r \in Requests, BeginSave(r)
      PROVE  Ledger' = Ledger
  <2> DEFINE m == ManifestOf[r]
  <2>1. /\ m \in Manifests
        /\ manifest' = [manifest EXCEPT ![m] = Torn]
        /\ WritersOf(m) = {}
        /\ pc[r] = "diffed" /\ pc'[r] = "writing"
        /\ \A s \in Requests \ {r} : pc'[s] = pc[s]
        /\ loaded' = loaded
    BY <1>1, <1>5, AnalyzeDirectoryAssumption DEF BeginSave, GoTo, workVars, AnalysisTypeOK
  <2>2. Ledger'[m] = loaded[r] /\ Ledger[m] = loaded[r]
    BY <2>1 DEF LedgerIs, UpdateInv, NoLostUpdate
  <2>3. ASSUME NEW k \in Manifests \ {m}
        PROVE  Ledger'[k] = Ledger[k]
    <3>1. WritersOf(k)' = WritersOf(k)
      BY <2>1 DEF WritersOf
    <3>2. CASE WritersOf(k) = {}
      BY <1>1, <2>1, <3>1, <3>2 DEF LedgerIs, AnalysisTypeOK
    <3>3. CASE WritersOf(k) # {}
      <4>1. PICK s \in Requests \ {r} : ManifestOf[s] = k /\ pc[s] = "writing"
        BY <2>1, <3>3 DEF WritersOf
      <4>2. QED
        BY <2>1, <4>1 DEF LedgerIs
    <3>4. QED
      BY <3>2, <3>3
  <2>4. QED
    BY <2>2, <2>3 DEF LedgerIs
<1>6. ASSUME NEW r \in Requests, FinishSave(r)
      PROVE  History!LedgerNext
  <2> DEFINE m == ManifestOf[r]
  <2>1. /\ m \in Manifests
        /\ manifest' = [manifest EXCEPT ![m] = diff[r].next]
        /\ pc[r] = "writing" /\ pc'[r] = "saved"
        /\ \A s \in Requests \ {r} : pc'[s] = pc[s]
        /\ loaded' = loaded
        /\ diff[r].next \in Snapshot
        /\ loaded[r] \in Snapshot \cup {Absent}
    BY <1>1, <1>6, AnalyzeDirectoryAssumption
    DEF FinishSave, GoTo, workVars, AnalysisTypeOK, DiffResult
  <2>2. ASSUME NEW s \in Requests \ {r}, ManifestOf[s] = m
        PROVE  pc'[s] # "writing"
    <3>1. SUFFICES ASSUME pc[s] = "writing"
                   PROVE  FALSE
      BY <2>1
    <3>2. Analyzing(r) /\ Analyzing(s)
      BY <2>1, <3>1 DEF BaseInv, StageMatchesHandle, Analyzing
    <3>3. QED
      BY <2>2, <3>2, OneAnalysis DEF OneAnalysisPerManifest
  <2>3. WritersOf(m)' = {}
    BY <2>1, <2>2 DEF WritersOf
  <2>4. Ledger[m] = loaded[r] /\ Ledger'[m] = diff[r].next
    BY <1>1, <2>1, <2>3 DEF LedgerIs, AnalysisTypeOK
  <2>5. ASSUME NEW k \in Manifests \ {m}
        PROVE  Ledger'[k] = Ledger[k]
    <3>1. WritersOf(k)' = WritersOf(k)
      BY <2>1 DEF WritersOf
    <3>2. CASE WritersOf(k) = {}
      BY <1>1, <2>1, <3>1, <3>2 DEF LedgerIs, AnalysisTypeOK
    <3>3. CASE WritersOf(k) # {}
      <4>1. PICK s \in Requests \ {r} : ManifestOf[s] = k /\ pc[s] = "writing"
        BY <2>1, <3>3 DEF WritersOf
      <4>2. QED
        BY <2>1, <4>1 DEF LedgerIs
    <3>4. QED
      BY <3>2, <3>3
  <2>6. Ledger' = [Ledger EXCEPT ![m] = Ledger'[m]]
    BY <2>5 DEF LedgerIs
  <2>7. History!Succeeds(Ledger[m], Ledger'[m])
    BY <2>1, <2>4, SameSucceeds DEF DiffInv
  <2>8. Ledger[m] # Torn /\ Ledger'[m] \in History!Snapshot
    BY <2>1, <2>4, SameSnapshots, AnalyzeDirectoryAssumption
  <2>9. History!Record(m)
    BY <2>6, <2>7, <2>8 DEF History!Record
  <2>10. QED
    BY <2>1, <2>9 DEF History!LedgerNext
<1>7. ASSUME NEW h \in Hosts, Crash(h)
      PROVE  History!LedgerNext
  <2> DEFINE R == {r \in Requests : HostOf[r] = h}
  <2>1. /\ manifest' = manifest
        /\ \A r \in R : pc'[r] = "idle"
        /\ \A r \in Requests \ R : pc'[r] = pc[r] /\ loaded'[r] = loaded[r]
    BY <1>1, <1>7 DEF Crash, Forget, AnalysisTypeOK
  <2>2. R \in SUBSET Requests
    OBVIOUS
  <2> HIDE DEF R
  <2>3. QED
    BY <2>1, <2>2, LedgerLoses
<1>8. CASE (\E x \in Names \cup Dirs : Environment(x)) \/ UNCHANGED vars
  <2>1. UNCHANGED <<manifest, pc, loaded>>
    BY <1>8 DEF Environment, vars, workVars
  <2>2. QED
    BY <2>1, LedgerStutters
<1>9. QED
  BY <1>2, <1>3, <1>4, <1>5, <1>6, <1>7, <1>8, NextCases, WorkingFrame

(* If the lock of a request covers its manifest, then each manifest goes   *)
(* through a history in which a file's version starts at 1 and moves on by *)
(* 1 with every change of its content, until it is lost while being        *)
(* rewritten.                                                              *)
THEOREM HistoryIsRecorded ==
    ASSUME LockCoversManifest
    PROVE  Spec => RecordsHistory
<1>1. Init => History!LedgerInit
  BY DEF Init, Ledger, WritersOf, History!LedgerInit
<1>2. BaseInv => LedgerIs
  BY LedgerCorrect
<1>3. BaseInv /\ UpdateInv /\ DiffInv /\ LedgerIs /\ LedgerIs' /\ [Next]_vars
         => [History!LedgerNext]_Ledger
  BY LedgerStep
<1>4. QED
  BY <1>1, <1>2, <1>3, BaseInvCorrect, UpdateInvCorrect, DiffInvCorrect, PTL
  DEF Spec, RecordsHistory, History!LedgerSpec

-----------------------------------------------------------------------------
(***************************************************************************)
(* Nothing over the limits is ever stored, for any limits, hosts, locks    *)
(* and files, although the limits are checked on the scan only and what is *)
(* stored may be an older entry.  The argument: the paths that the builder *)
(* has entered or has still to look at only become fewer, and each entry   *)
(* has a size that a scan within the limits has found, this one or an      *)
(* earlier one.                                                            *)
(***************************************************************************)

SizesBounded(files) == \A p \in Known(files) : files[p].size <= MaxFileSize

Bounded(files) == Cardinality(Known(files)) <= MaxFileCount /\ SizesBounded(files)

(* The paths that the builder has entered or may still enter.              *)
Claimed(r) == {Fold[n] : n \in Scanned(r)} \cup Known(built[r])

BuilderBounded(r) ==
    IF pc[r] = "building"
    THEN /\ IsFiniteSet(Claimed(r))
         /\ Cardinality(Claimed(r)) <= MaxFileCount
         /\ \A n \in Scanned(r) : scanned[r][n].size <= MaxFileSize
         /\ SizesBounded(built[r])
    ELSE built[r] = NoFiles

LimitsInv ==
    /\ \A m \in Manifests :
          manifest[m] \notin {Absent, Torn} => Bounded(manifest[m].files)
    /\ \A r \in Requests :
          /\ loaded[r] # Absent => Bounded(loaded[r].files)
          /\ Bounded(diff[r].next.files)
          /\ BuilderBounded(r)

-----------------------------------------------------------------------------
LEMMA EmptyIsBounded == Bounded(NoFiles) /\ Known(NoFiles) = {}
<1>1. Known(NoFiles) = {}
  BY DEF Known, NoFiles
<1>2. QED
  BY <1>1, FS_EmptySet, AnalyzeDirectoryAssumption DEF Bounded, SizesBounded

(* Folding names does not make them more.                                  *)
LEMMA FoldedNames ==
    ASSUME NEW S \in SUBSET Names, IsFiniteSet(S)
    PROVE  /\ IsFiniteSet({Fold[n] : n \in S})
           /\ Cardinality({Fold[n] : n \in S}) <= Cardinality(S)
<1> DEFINE T == {Fold[n] : n \in S}
           f == [n \in S |-> Fold[n]]
<1>1. f \in Surjection(S, T)
  BY DEF Surjection
<1> HIDE DEF f, T
<1>2. IsFiniteSet(T) /\ Cardinality(T) <= Cardinality(S)
  BY <1>1, FS_Surjection
<1>3. QED
  BY <1>2 DEF T

(* The diff changes nothing but versions.                                  *)
LEMMA DiffKeepsBounds ==
    ASSUME NEW prev \in Snapshot \cup {Absent}, NEW files \in FileTable,
           ~DiffThrows(prev, files), Bounded(files)
    PROVE  Bounded(NextFiles(prev, files))
<1> DEFINE new == NextFiles(prev, files)
<1>1. \A p \in Paths : /\ files[p] = Missing <=> new[p] = Missing
                       /\ files[p] # Missing => new[p].size = files[p].size
  BY NextFilesProperties
<1> HIDE DEF new
<1>2. Known(new) = Known(files)
  BY <1>1 DEF Known
<1>3. QED
  BY <1>1, <1>2 DEF Bounded, SizesBounded, Known, new

-----------------------------------------------------------------------------
(* An accepted scan is where the bounds come from.                         *)
LEMMA AcceptScanKeepsBounds ==
    ASSUME IsFiniteSet(Names), BaseInv, LimitsInv, NEW r \in Requests, AcceptScan(r)
    PROVE  BuilderBounded(r)'
<1>1. AnalysisTypeOK
  BY DEF BaseInv, TypeOK
<1>2. /\ pc[r] = "scanning"
      /\ WithinLimits(r)
      /\ UNCHANGED <<scanned, built>>
  BY DEF AcceptScan, ScanComplete, scanVars, workVars
<1>3. built[r] = NoFiles
  BY <1>2 DEF LimitsInv, BuilderBounded
<1>4. Scanned(r)' = Scanned(r) /\ Claimed(r)' = {Fold[n] : n \in Scanned(r)}
  BY <1>2, <1>3, EmptyIsBounded DEF Scanned, Claimed
<1>5. Scanned(r) \in SUBSET Names
  BY DEF Scanned
<1>6. IsFiniteSet(Scanned(r)) /\ Cardinality(Scanned(r)) \in Nat
  BY <1>5, FS_Subset, FS_CardinalityType
<1>7. /\ IsFiniteSet(Claimed(r)')
      /\ Cardinality(Claimed(r)') <= Cardinality(Scanned(r))
  BY <1>4, <1>5, <1>6, FoldedNames
<1>8. Cardinality(Claimed(r)') <= MaxFileCount
  BY <1>2, <1>6, <1>7, FS_CardinalityType, AnalyzeDirectoryAssumption DEF WithinLimits
<1>9. /\ \A n \in Scanned(r)' : scanned'[r][n].size <= MaxFileSize
      /\ SizesBounded(built[r])'
  BY <1>2, <1>3, <1>4, EmptyIsBounded DEF WithinLimits, Bounded, SizesBounded
<1>10. pc'[r] = "building"
  BY <1>1 DEF AcceptScan, GoTo, AnalysisTypeOK
<1>11. QED
  BY <1>7, <1>8, <1>9, <1>10, Zenon DEF BuilderBounded

(* Whatever the builder enters, or leaves out, for a scanned file.         *)
LEMMA BuildKeepsBounds ==
    ASSUME BaseInv, LimitsInv, NEW r \in Requests, pc[r] = "building",
           NEW n \in Scanned(r), NEW entry, Build(r, n, entry),
           entry # Missing => entry.size <= MaxFileSize
    PROVE  BuilderBounded(r)'
<1>1. AnalysisTypeOK
  BY DEF BaseInv, TypeOK
<1>2. n \in Names /\ Fold[n] \in Claimed(r) /\ built[r] \in FileTable
  BY <1>1 DEF Scanned, Claimed, AnalysisTypeOK
<1>3. /\ IsFiniteSet(Claimed(r))
      /\ Cardinality(Claimed(r)) <= MaxFileCount
      /\ \A k \in Scanned(r) : scanned[r][k].size <= MaxFileSize
      /\ SizesBounded(built[r])
  BY DEF LimitsInv, BuilderBounded
<1>4. \A k \in Names : scanned'[r][k] = IF k = n THEN Missing ELSE scanned[r][k]
  BY <1>1, <1>2 DEF Build, AnalysisTypeOK
<1>5. \A p \in Paths :
         built'[r][p] = IF p = Fold[n] /\ entry # Missing THEN entry ELSE built[r][p]
  BY <1>1, <1>2 DEF Build, AnalysisTypeOK, FileTable
<1>6. /\ Scanned(r)' \subseteq Scanned(r)
      /\ \A k \in Scanned(r)' : scanned'[r][k].size <= MaxFileSize
  BY <1>3, <1>4 DEF Scanned
<1>7. Claimed(r)' \in SUBSET Claimed(r)
  BY <1>2, <1>5, <1>6 DEF Claimed, Known
<1>8. IsFiniteSet(Claimed(r)') /\ Cardinality(Claimed(r)') <= MaxFileCount
  <2>1. /\ IsFiniteSet(Claimed(r)')
        /\ Cardinality(Claimed(r)') <= Cardinality(Claimed(r))
    BY <1>3, <1>7, FS_Subset
  <2>2. QED
    BY <1>3, <2>1, FS_CardinalityType, AnalyzeDirectoryAssumption
<1>9. SizesBounded(built[r])'
  BY <1>3, <1>5 DEF SizesBounded, Known
<1>10. pc'[r] = "building"
  BY DEF Build
<1>11. QED
  BY <1>6, <1>8, <1>9, <1>10, Zenon DEF BuilderBounded

LEMMA BuilderKeepsBounds ==
    ASSUME BaseInv, LimitsInv, NEW r \in Requests, NEW n \in Names,
           ReuseHash(r, n) \/ HashFile(r, n) \/ KeepPrevious(r, n)
    PROVE  BuilderBounded(r)'
<1> DEFINE previous == PreviousEntry(r, n)
           info == scanned[r][n]
<1>1. pc[r] = "building" /\ n \in Scanned(r)
  BY DEF ReuseHash, HashFile, KeepPrevious
<1>2. info.size <= MaxFileSize
  BY <1>1 DEF LimitsInv, BuilderBounded
<1>3. previous # Missing => previous.size <= MaxFileSize
  <2>1. Bounded(PreviousFiles(loaded[r]))
    BY EmptyIsBounded DEF LimitsInv, PreviousFiles
  <2>2. Fold[n] \in Paths
    BY AnalyzeDirectoryAssumption
  <2>3. QED
    BY <2>1, <2>2 DEF Bounded, SizesBounded, Known, PreviousEntry
<1>4. \A hash : EntryOf(info, hash, previous).size = info.size
  BY DEF EntryOf
<1>5. \/ \E hash : Build(r, n, EntryOf(info, hash, previous))
      \/ Build(r, n, previous)
  BY Zenon DEF ReuseHash, HashFile, KeepPrevious
<1> HIDE DEF previous, info
<1>6. PICK entry : Build(r, n, entry) /\ (entry # Missing => entry.size <= MaxFileSize)
  BY <1>2, <1>3, <1>4, <1>5
<1>7. QED
  BY <1>1, <1>6, BuildKeepsBounds

-----------------------------------------------------------------------------
LEMMA WorkingKeepsLimitsInv ==
    ASSUME IsFiniteSet(Names), BaseInv, LimitsInv, NEW r \in Requests, Working(r)
    PROVE  LimitsInv'
<1>1. AnalysisTypeOK
  BY DEF BaseInv, TypeOK
<1> DEFINE Enough ==
         /\ \A m \in Manifests :
               manifest'[m] \notin {Absent, Torn} => Bounded(manifest'[m].files)
         /\ loaded'[r] # Absent => Bounded(loaded'[r].files)
         /\ Bounded(diff'[r].next.files)
         /\ BuilderBounded(r)'
<1>2. SUFFICES Enough
  <2>1. ASSUME NEW s \in Requests \ {r}
        PROVE  /\ loaded'[s] = loaded[s] /\ diff'[s] = diff[s]
               /\ BuilderBounded(s)'
    <3>1. /\ loaded'[s] = loaded[s] /\ diff'[s] = diff[s] /\ pc'[s] = pc[s]
          /\ built'[s] = built[s] /\ scanned'[s] = scanned[s]
      BY WorkingFrame, WorkingTables
    <3>2. QED
      BY <3>1 DEF LimitsInv, BuilderBounded, Claimed, Scanned
  <2>2. QED
    BY <2>1 DEF LimitsInv
<1>3. ASSUME UNCHANGED built, pc[r] # "building", pc'[r] # "building"
      PROVE  BuilderBounded(r)'
  BY <1>3 DEF LimitsInv, BuilderBounded
<1>4. CASE \/ OpenManifest(r) \/ StartScan(r)
           \/ \E d \in Dirs : ListDirectory(r, d) \/ SkipDirectory(r, d)
           \/ \E n \in Names : ReadMetadata(r, n) \/ SkipFile(r, n)
  <2>1. /\ UNCHANGED <<manifest, loaded, built, diff>>
        /\ pc[r] # "building" /\ pc'[r] # "building"
    BY <1>1, <1>4
    DEF OpenManifest, StartScan, ListDirectory, SkipDirectory, ReadMetadata,
        SkipFile, Visiting, GoTo, AnalysisTypeOK, workVars
  <2>2. QED
    BY <1>3, <2>1 DEF LimitsInv
<1>5. CASE ReadManifest(r)
  <2>1. /\ UNCHANGED <<manifest, built, diff>>
        /\ pc[r] # "building" /\ pc'[r] # "building"
        /\ loaded'[r] = manifest[ManifestOf[r]]
        /\ manifest[ManifestOf[r]] # Torn
        /\ ManifestOf[r] \in Manifests
    BY <1>1, <1>5, AnalyzeDirectoryAssumption
    DEF ReadManifest, GoTo, AnalysisTypeOK, scanVars
  <2>2. QED
    BY <1>3, <2>1 DEF LimitsInv
<1>6. CASE AcceptScan(r)
  <2>1. UNCHANGED <<manifest, loaded, diff>>
    BY <1>6 DEF AcceptScan, workVars
  <2>2. QED
    BY <1>6, <2>1, AcceptScanKeepsBounds DEF LimitsInv
<1>7. ASSUME NEW n \in Names, ReuseHash(r, n) \/ HashFile(r, n) \/ KeepPrevious(r, n)
      PROVE  Enough
  <2>1. ASSUME NEW entry, Build(r, n, entry)
        PROVE  UNCHANGED <<manifest, loaded, diff>>
    BY <2>1 DEF Build
  <2>2. UNCHANGED <<manifest, loaded, diff>>
    BY <1>7, <2>1 DEF ReuseHash, HashFile, KeepPrevious
  <2>3. QED
    BY <1>7, <2>2, BuilderKeepsBounds DEF LimitsInv
<1>8. CASE ComputeDiff(r)
  <2>1. /\ UNCHANGED <<manifest, loaded>>
        /\ pc[r] = "building" /\ pc'[r] = "diffed"
        /\ Scanned(r) = {}
        /\ built'[r] = NoFiles
        /\ diff'[r] = Diff(loaded[r], built[r], found[r])
        /\ ~DiffThrows(loaded[r], built[r])
        /\ loaded[r] \in Snapshot \cup {Absent}
        /\ built[r] \in FileTable
    BY <1>1, <1>8 DEF ComputeDiff, GoTo, AnalysisTypeOK
  <2>2. Claimed(r) = Known(built[r])
    BY <2>1 DEF Claimed
  <2>3. Bounded(built[r])
    BY <2>1, <2>2 DEF LimitsInv, BuilderBounded, Bounded
  <2>4. diff'[r].next.files = NextFiles(loaded[r], built[r])
    BY <2>1 DEF Diff
  <2>5. Bounded(diff'[r].next.files)
    BY <2>1, <2>3, <2>4, DiffKeepsBounds
  <2>6. BuilderBounded(r)'
    BY <2>1 DEF BuilderBounded
  <2>7. QED
    BY <2>1, <2>5, <2>6 DEF LimitsInv
<1>9. CASE BeginSave(r) \/ FinishSave(r)
  <2>1. /\ UNCHANGED <<loaded, built, diff>>
        /\ pc[r] # "building" /\ pc'[r] # "building"
        /\ \A m \in Manifests :
              manifest'[m] \in {manifest[m], Torn, diff[r].next}
    BY <1>1, <1>9 DEF BeginSave, FinishSave, GoTo, AnalysisTypeOK, scanVars, workVars
  <2>2. QED
    BY <1>3, <2>1 DEF LimitsInv
<1>10. QED
  BY <1>4, <1>5, <1>6, <1>7, <1>8, <1>9 DEF Working

LEMMA LimitsInvStep ==
    ASSUME IsFiniteSet(Names), BaseInv, LimitsInv, [Next]_vars
    PROVE  LimitsInv'
<1>1. AnalysisTypeOK
  BY DEF BaseInv, TypeOK
<1>2. ASSUME UNCHANGED <<manifest, loaded, built, diff, scanned>>,
             \A r \in Requests : pc'[r] = "building" <=> pc[r] = "building"
      PROVE  LimitsInv'
  <2>1. ASSUME NEW r \in Requests
        PROVE  BuilderBounded(r)'
    BY <1>2 DEF LimitsInv, BuilderBounded, Claimed, Scanned
  <2>2. QED
    BY <1>2, <2>1 DEF LimitsInv
<1>3. ASSUME NEW r \in Requests, Submit(r) \/ CancelQueued(r)
      PROVE  LimitsInv'
  <2>1. /\ UNCHANGED <<manifest, loaded, built, diff, scanned>>
        /\ \A s \in Requests : pc'[s] = "building" <=> pc[s] = "building"
    BY <1>1, <1>3 DEF Submit, CancelQueued, GoTo, AnalysisTypeOK, scanVars, workVars
  <2>2. QED
    BY <1>2, <2>1
<1>4. ASSUME NEW R, Forget(R), UNCHANGED manifest,
             \A s \in Requests : pc'[s] = IF s \in R THEN "idle" ELSE pc[s]
      PROVE  LimitsInv'
  <2>1. ASSUME NEW s \in Requests
        PROVE  /\ loaded'[s] # Absent => Bounded(loaded'[s].files)
               /\ Bounded(diff'[s].next.files)
               /\ BuilderBounded(s)'
    <3>1. CASE s \in R
      <4>1. /\ loaded'[s] = Absent /\ built'[s] = NoFiles /\ diff'[s] = NoDiff
            /\ pc'[s] = "idle"
        BY <1>4, <3>1 DEF Forget
      <4>2. NoDiff.next.files = NoFiles
        BY DEF NoDiff
      <4>3. QED
        BY <4>1, <4>2, EmptyIsBounded DEF BuilderBounded
    <3>2. CASE s \notin R
      <4>1. /\ loaded'[s] = loaded[s] /\ built'[s] = built[s] /\ diff'[s] = diff[s]
            /\ scanned'[s] = scanned[s] /\ pc'[s] = pc[s]
        BY <1>4, <3>2 DEF Forget
      <4>2. QED
        BY <4>1 DEF LimitsInv, BuilderBounded, Claimed, Scanned
    <3>3. QED
      BY <3>1, <3>2
  <2>2. QED
    BY <1>4, <2>1 DEF LimitsInv
<1>5. ASSUME NEW r \in Requests, Leaving(r)
      PROVE  LimitsInv'
  <2>1. /\ Forget({r}) /\ UNCHANGED manifest
        /\ \A s \in Requests : pc'[s] = IF s \in {r} THEN "idle" ELSE pc[s]
    BY <1>1, <1>5, LeavingFacts DEF Leave, GoTo, AnalysisTypeOK
  <2>2. QED
    BY <1>4, <2>1
<1>6. ASSUME NEW h \in Hosts, Crash(h)
      PROVE  LimitsInv'
  <2> DEFINE R == {r \in Requests : HostOf[r] = h}
  <2>1. /\ Forget(R) /\ UNCHANGED manifest
        /\ \A s \in Requests : pc'[s] = IF s \in R THEN "idle" ELSE pc[s]
    BY <1>6 DEF Crash
  <2>2. QED
    BY <1>4, <2>1
<1>7. ASSUME NEW r \in Requests, Working(r)
      PROVE  LimitsInv'
  BY <1>7, WorkingKeepsLimitsInv
<1>8. ASSUME NEW x \in Names \cup Dirs, Environment(x)
      PROVE  LimitsInv'
  BY <1>2, <1>8 DEF Environment, scanVars, workVars
<1>9. CASE UNCHANGED vars
  BY <1>2, <1>9 DEF vars, scanVars, workVars
<1>10. QED
  BY <1>3, <1>5, <1>6, <1>7, <1>8, <1>9, NextCases

(* No stored manifest is over the limits, whatever the limits are.         *)
THEOREM LimitsAreKept ==
    ASSUME IsFiniteSet(Names)
    PROVE  Spec => []ManifestWithinLimits
<1>1. Init => LimitsInv
  <2> SUFFICES ASSUME Init
               PROVE  LimitsInv
    OBVIOUS
  <2>1. NoDiff.next.files = NoFiles
    BY DEF NoDiff
  <2>2. QED
    BY <2>1, EmptyIsBounded DEF Init, LimitsInv, BuilderBounded
<1>2. BaseInv /\ LimitsInv /\ [Next]_vars => LimitsInv'
  BY LimitsInvStep
<1>3. LimitsInv => ManifestWithinLimits
  BY DEF LimitsInv, ManifestWithinLimits, Bounded, SizesBounded
<1>4. QED
  BY <1>1, <1>2, <1>3, BaseInvCorrect, PTL DEF Spec
==============================================================================
