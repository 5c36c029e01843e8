------------------------------ MODULE HostsProofs ------------------------------
(***************************************************************************)
(* What the Api and the Web host add to the analysis changes nothing of    *)
(* what it promises; and a client that reads every answer knows the        *)
(* version of every file.                                                  *)
(***************************************************************************)
EXTENDS Hosts, AnalyzeDirectoryManifestProofs

(* What a client should know of a snapshot, or of none.                    *)
VersionsOf(prev) ==
    [p \in Paths |-> LET entry == PreviousFiles(prev)[p]
                     IN  IF entry = Missing THEN 0 ELSE entry.version]

(* The manifest was begun to be written and nothing is answered yet.       *)
Unanswered(r) == pc[r] \in {"writing", "saved"}

(* From the diff to the answer, the report is about the manifest that was  *)
(* loaded, and only directories are deleted with version 0.                *)
ReportFor(r) ==
    /\ Succeeds(loaded[r], diff[r].next)
    /\ ReportExplains(loaded[r], diff[r])
    /\ \A c \in diff[r].changes :
          c.kind = "Directory" => c.type = "Deleted" /\ c.version = 0

ReportInv == \A r \in Requests : pc[r] \in {"diffed", "writing", "saved"} => ReportFor(r)

(* ClientsCanFollow becomes inductive with what has been told while an     *)
(* answer is due: the versions of the manifest that is being replaced.     *)
ToldInv ==
    /\ told = [m \in Manifests |-> told[m]]
    /\ \A m \in Manifests \ lost :
          /\ (\A r \in Requests : ManifestOf[r] = m => ~Unanswered(r))
                => manifest[m] # Torn /\ told[m] = VersionsOf(manifest[m])
          /\ \A r \in Requests :
                ManifestOf[r] = m /\ Unanswered(r) => told[m] = VersionsOf(loaded[r])

-----------------------------------------------------------------------------
(* The hosts do to the analysis what its specification allows.             *)
LEMMA HostSteps ==
    ASSUME BaseInv, HostNext
    PROVE  \/ \E r \in Requests :
                 \/ Refuse(r) \/ Call(r) \/ Fail(r) \/ Succeed(r) \/ Interrupt(r)
                 \/ Working(r) /\ UNCHANGED <<answer, told, lost>>
           \/ \E h \in Hosts : Die(h)
           \/ (\E x \in Names \cup Dirs : Environment(x)) /\ UNCHANGED <<answer, told, lost>>
<1>1. ASSUME NEW r \in Requests, Work(r)
      PROVE  Working(r) /\ UNCHANGED <<answer, told, lost>>
  <2>1. ASSUME Leaving(r)
        PROVE  pc'[r] = "idle"
    BY <2>1, LeavingFacts DEF Leave, GoTo, BaseInv, TypeOK, AnalysisTypeOK
  <2>2. Proceed(r) => Working(r) \/ Leaving(r)
    BY DEF Proceed, Working, Leaving
  <2>3. QED
    BY <1>1, <2>1, <2>2 DEF Work
<1>2. QED
  BY <1>1 DEF HostNext

LEMMA HostNextIsNext == [HostNext]_hostVars => [Next]_vars
<1> SUFFICES ASSUME [HostNext]_hostVars
             PROVE  [Next]_vars
  OBVIOUS
<1>1. ASSUME NEW r \in Requests, Refuse(r)
      PROVE  UNCHANGED vars
  BY <1>1 DEF Refuse
<1>2. ASSUME NEW r \in Requests,
             Call(r) \/ Work(r) \/ Fail(r) \/ Succeed(r) \/ Interrupt(r)
      PROVE  Submit(r) \/ CancelQueued(r) \/ Proceed(r) \/ Abort(r)
  BY <1>2, Zenon DEF Call, Work, Fail, Succeed, Interrupt, Proceed
<1>3. ASSUME NEW h \in Hosts, Die(h)
      PROVE  Crash(h)
  BY <1>3 DEF Die
<1>4. CASE UNCHANGED hostVars
  BY <1>4 DEF hostVars
<1>5. CASE HostNext
  BY <1>1, <1>2, <1>3, <1>5, Zenon DEF HostNext, Next
<1>6. QED
  BY <1>4, <1>5

(* Whatever is proved of the analysis holds in the hosts: they only decide *)
(* when it is called and what becomes of its outcome.                      *)
THEOREM HostsOnlyAnswer == HostSpec => Spec
<1>1. HostInit => Init
  BY DEF HostInit
<1>2. QED
  BY <1>1, HostNextIsNext, PTL DEF HostSpec, Spec

-----------------------------------------------------------------------------
(* The lists of the answer, read against the versions known before.        *)

(* The versions that the list of one type tells about path p.              *)
VersionsAt(r, type, p) ==
    {i.version : i \in {j \in MapByType(r, type) : j.path = p}}

LEMMA ItemsOfType ==
    ASSUME NEW r, NEW type, NEW p, NEW v
    PROVE  v \in VersionsAt(r, type, p) <=>
              \E c \in diff[r].changes : c.type = type /\ c.path = p /\ c.version = v
<1>1. \A c : Item(c).path = c.path /\ Item(c).version = c.version
  BY DEF Item
<1>2. \A i : i \in MapByType(r, type) <=>
                \E c \in diff[r].changes : c.type = type /\ i = Item(c)
  BY Zenon DEF MapByType
<1>3. v \in VersionsAt(r, type, p) <=>
         \E i \in MapByType(r, type) : i.path = p /\ i.version = v
  BY DEF VersionsAt
<1>4. QED
  BY <1>1, <1>2, <1>3

LEMMA ChangesOfPath ==
    ASSUME AnalysisTypeOK, NEW r \in Requests, ReportFor(r), NEW p \in Paths,
           NEW c \in diff[r].changes, c.path = p, ~(c.type = "Deleted" /\ c.version = 0)
    PROVE  LET old == PreviousFiles(loaded[r])[p]
               new == diff[r].next.files[p]
           IN  IF c.type = "Deleted"
               THEN old # Missing /\ new = Missing
               ELSE /\ new # Missing
                    /\ c.version = new.version
<1> DEFINE old == PreviousFiles(loaded[r])[p]
           new == diff[r].next.files[p]
           About == {x \in diff[r].changes : x.kind = "File" /\ x.path = p}
<1>1. c.kind = "File"
  BY DEF ReportFor, AnalysisTypeOK, DiffResult, ChangeRecord
<1>2. c \in About
  BY <1>1
<1>3. /\ old = Missing /\ new = Missing => About = {}
      /\ old = Missing /\ new # Missing => About = {Change(p, "File", "New", new.version)}
      /\ old # Missing /\ new = Missing => About = {Change(p, "File", "Deleted", old.version)}
      /\ old # Missing /\ new # Missing =>
            About = IF old.hash = new.hash THEN {}
                    ELSE {Change(p, "File", "Changed", new.version)}
  BY DEF ReportFor, ReportExplains
<1> HIDE DEF old, new, About
<1>4. QED
  BY <1>2, <1>3 DEF Change, old, new

(* The versions known before and the answer give the versions known after. *)
LEMMA AfterIsRight ==
    ASSUME AnalysisTypeOK, NEW r \in Requests, ReportFor(r)
    PROVE  After(VersionsOf(loaded[r]), Response(r)) = VersionsOf(diff[r].next)
<1> DEFINE table == VersionsOf(loaded[r])
           Old(p) == PreviousFiles(loaded[r])[p]
           New(p) == diff[r].next.files[p]
           About(p) == {x \in diff[r].changes : x.kind = "File" /\ x.path = p}
           Stays(p) == VersionsAt(r, "New", p) \cup VersionsAt(r, "Changed", p)
           Gone(p) == VersionsAt(r, "Deleted", p) \ {0}
<1>1. After(table, Response(r)) =
        [p \in Paths |-> IF Stays(p) # {} THEN CHOOSE v \in Stays(p) : TRUE
                         ELSE IF Gone(p) # {} THEN 0
                         ELSE table[p]]
  <2> DEFINE Versions(items, p) == {i.version : i \in {j \in items : j.path = p}}
  <2>1. \A p : Stays(p) = Versions(Response(r).new \cup Response(r).changed, p)
    BY DEF VersionsAt, Response
  <2>2. \A p : Gone(p) = Versions(Response(r).deleted, p) \ {0}
    BY DEF VersionsAt, Response
  <2> HIDE DEF Stays, Gone
  <2>3. QED
    BY <2>1, <2>2 DEF After
<1>2. diff[r].next \in Snapshot /\ loaded[r] \in Snapshot \cup {Absent}
  BY DEF AnalysisTypeOK, DiffResult
<1>3. PreviousFiles(diff[r].next) = diff[r].next.files
  BY <1>2, ManifestDiffAssumption DEF PreviousFiles
<1>4. ASSUME NEW p \in Paths
      PROVE  /\ Old(p) \in Entry \cup {Missing}
             /\ New(p) \in Entry \cup {Missing}
  BY <1>2, PreviousType DEF Snapshot, FileTable
<1>5. ASSUME NEW p \in Paths
      PROVE  /\ Old(p) = Missing /\ New(p) # Missing =>
                   About(p) = {Change(p, "File", "New", New(p).version)}
             /\ Old(p) # Missing /\ New(p) = Missing =>
                   About(p) = {Change(p, "File", "Deleted", Old(p).version)}
             /\ Old(p) # Missing /\ New(p) # Missing =>
                   About(p) = IF Old(p).hash = New(p).hash THEN {}
                              ELSE {Change(p, "File", "Changed", New(p).version)}
  BY DEF ReportFor, ReportExplains
<1>6. \A p \in Paths : \A v : v \in Stays(p) <=>
         \E c \in diff[r].changes :
            c.type \in {"New", "Changed"} /\ c.path = p /\ c.version = v
  BY ItemsOfType
<1>7. \A p \in Paths : \A v : v \in Gone(p) <=>
         \E c \in diff[r].changes :
            c.type = "Deleted" /\ c.path = p /\ c.version = v /\ v # 0
  BY ItemsOfType
<1>8. ASSUME NEW p \in Paths
      PROVE  \A c \in diff[r].changes :
                c.path = p /\ ~(c.type = "Deleted" /\ c.version = 0) =>
                   IF c.type = "Deleted" THEN Old(p) # Missing /\ New(p) = Missing
                   ELSE New(p) # Missing /\ c.version = New(p).version
  BY ChangesOfPath
<1>9. \A c \in diff[r].changes : c.type \in {"New", "Changed", "Deleted"}
  BY DEF AnalysisTypeOK, DiffResult, ChangeRecord
<1>10. ASSUME NEW p \in Paths
       PROVE  table[p] = IF Old(p) = Missing THEN 0 ELSE Old(p).version
  BY DEF VersionsOf
<1>11. ASSUME NEW p \in Paths
       PROVE  VersionsOf(diff[r].next)[p] = IF New(p) = Missing THEN 0 ELSE New(p).version
  BY <1>3 DEF VersionsOf
<1>12. ASSUME NEW p \in Paths, New(p) # Missing, Old(p) # Missing, Old(p).hash = New(p).hash
       PROVE  New(p).version = Old(p).version
  BY <1>12 DEF ReportFor, Succeeds, Known
<1> HIDE DEF Old, New, About, Gone, Stays, table
<1>13. ASSUME NEW p \in Paths
       PROVE  After(table, Response(r))[p] = VersionsOf(diff[r].next)[p]
  <2>1. CASE Stays(p) # {}
    <3>1. \A v \in Stays(p) : New(p) # Missing /\ v = New(p).version
      BY <1>6, <1>8
    <3>2. (CHOOSE v \in Stays(p) : TRUE) = New(p).version /\ New(p) # Missing
      BY <2>1, <3>1
    <3>3. QED
      BY <1>1, <1>11, <2>1, <3>2
  <2>2. CASE Stays(p) = {} /\ Gone(p) # {}
    <3>1. New(p) = Missing
      BY <1>7, <1>8, <2>2
    <3>2. QED
      BY <1>1, <1>11, <2>2, <3>1
  <2>3. CASE Stays(p) = {} /\ Gone(p) = {}
    <3>1. \A c \in About(p) : c.type = "Deleted" /\ c.version = 0
      <4>1. \A c \in About(p) : c \in diff[r].changes /\ c.path = p
        BY DEF About
      <4>2. \A c \in About(p) : c.type = "Deleted"
        BY <1>6, <1>9, <2>3, <4>1
      <4>3. QED
        BY <1>7, <2>3, <4>1, <4>2
    <3>2. CASE New(p) = Missing
      <4>1. Old(p) = Missing
        <5>1. SUFFICES ASSUME Old(p) # Missing
                       PROVE  FALSE
          OBVIOUS
        <5>2. Change(p, "File", "Deleted", Old(p).version) \in About(p)
          BY <1>5, <3>2, <5>1
        <5>3. Old(p).version = 0
          BY <3>1, <5>2 DEF Change
        <5>4. QED
          BY <1>4, <5>1, <5>3 DEF Entry
      <4>2. QED
        BY <1>1, <1>10, <1>11, <2>3, <3>2, <4>1
    <3>3. CASE New(p) # Missing
      <4>1. Old(p) # Missing /\ Old(p).hash = New(p).hash
        <5>1. Change(p, "File", "New", New(p).version) \notin About(p)
          BY <3>1 DEF Change
        <5>2. Change(p, "File", "Changed", New(p).version) \notin About(p)
          BY <3>1 DEF Change
        <5>3. QED
          BY <1>5, <3>3, <5>1, <5>2
      <4>2. QED
        BY <1>1, <1>10, <1>11, <1>12, <2>3, <3>3, <4>1
    <3>4. QED
      BY <3>2, <3>3
  <2>4. QED
    BY <2>1, <2>2, <2>3
<1>14. After(table, Response(r)) = [p \in Paths |-> After(table, Response(r))[p]]
  BY <1>1
<1>15. VersionsOf(diff[r].next) = [p \in Paths |-> VersionsOf(diff[r].next)[p]]
  BY DEF VersionsOf
<1>16. QED
  BY <1>13, <1>14, <1>15 DEF table

-----------------------------------------------------------------------------
(* A diff deletes directories with version 0, and reports nothing else of  *)
(* them.                                                                   *)
LEMMA DirectoryChanges ==
    ASSUME NEW prev \in Snapshot \cup {Absent}, NEW files \in FileTable,
           NEW subdirs \in SUBSET Subdirs, NEW c \in Changes(prev, files, subdirs),
           c.kind = "Directory"
    PROVE  c.type = "Deleted" /\ c.version = 0
<1>1. \A p, type, version : Change(p, "File", type, version).kind = "File"
  BY DEF Change
<1>2. \A d : /\ Change(d, "Directory", "Deleted", 0).type = "Deleted"
             /\ Change(d, "Directory", "Deleted", 0).version = 0
  BY DEF Change
<1>3. \/ \E p \in Paths : \E version :
            \/ c = Change(p, "File", "New", version)
            \/ c = Change(p, "File", "Changed", version)
            \/ c = Change(p, "File", "Deleted", version)
      \/ \E d \in PreviousDirectories(prev) \ subdirs : c = Change(d, "Directory", "Deleted", 0)
  BY ChangesMembers
<1>4. QED
  BY <1>1, <1>2, <1>3

LEMMA ReportInvStep ==
    ASSUME BaseInv, ReportInv, [Next]_vars
    PROVE  ReportInv'
<1>1. AnalysisTypeOK
  BY DEF BaseInv, TypeOK
<1>2. ASSUME NEW s \in Requests,
             pc'[s] \in {"diffed", "writing", "saved"} =>
                 pc[s] \in {"diffed", "writing", "saved"},
             pc'[s] \in {"diffed", "writing", "saved"} =>
                 loaded'[s] = loaded[s] /\ diff'[s] = diff[s],
             pc'[s] \in {"diffed", "writing", "saved"}
      PROVE  ReportFor(s)'
  BY <1>2 DEF ReportInv, ReportFor
<1>3. ASSUME NEW r \in Requests, Submit(r) \/ CancelQueued(r)
      PROVE  ReportInv'
  <2>1. /\ UNCHANGED <<loaded, diff>>
        /\ pc'[r] \in {"idle", "admitted"}
        /\ \A s \in Requests \ {r} : pc'[s] = pc[s]
    BY <1>1, <1>3 DEF Submit, CancelQueued, GoTo, workVars, AnalysisTypeOK
  <2>2. QED
    BY <1>2, <2>1 DEF ReportInv
<1>4. ASSUME NEW r \in Requests, Leaving(r)
      PROVE  ReportInv'
  <2>1. Leave(r)
    BY <1>4, LeavingFacts
  <2>2. /\ pc'[r] = "idle"
        /\ \A s \in Requests \ {r} :
              pc'[s] = pc[s] /\ loaded'[s] = loaded[s] /\ diff'[s] = diff[s]
    BY <1>1, <2>1 DEF Leave, GoTo, Forget, AnalysisTypeOK
  <2>3. QED
    BY <1>2, <2>2 DEF ReportInv
<1>5. ASSUME NEW r \in Requests, Working(r)
      PROVE  ReportInv'
  <2>1. \A s \in Requests \ {r} :
           pc'[s] = pc[s] /\ loaded'[s] = loaded[s] /\ diff'[s] = diff[s]
    BY <1>5, WorkingFrame
  <2>2. SUFFICES ASSUME pc'[r] \in {"diffed", "writing", "saved"}
                 PROVE  ReportFor(r)'
    BY <1>2, <2>1 DEF ReportInv
  <2>3. CASE OpenManifest(r) \/ ReadManifest(r) \/ StartScan(r) \/ AcceptScan(r)
    BY <1>1, <2>2, <2>3
    DEF OpenManifest, ReadManifest, StartScan, AcceptScan, GoTo, AnalysisTypeOK
  <2>4. ASSUME NEW d \in Dirs, ListDirectory(r, d) \/ SkipDirectory(r, d)
        PROVE  UNCHANGED <<pc, loaded, diff>>
    BY <2>4 DEF ListDirectory, SkipDirectory, workVars
  <2>5. ASSUME NEW n \in Names, ReadMetadata(r, n) \/ SkipFile(r, n)
        PROVE  UNCHANGED <<pc, loaded, diff>>
    BY <2>5 DEF ReadMetadata, SkipFile, workVars
  <2>6. ASSUME NEW n \in Names,
               ReuseHash(r, n) \/ HashFile(r, n) \/ KeepPrevious(r, n)
        PROVE  UNCHANGED <<pc, loaded, diff>>
    BY <2>6 DEF ReuseHash, HashFile, KeepPrevious, Build
  <2>7. CASE ComputeDiff(r)
    <3>1. /\ loaded'[r] = loaded[r]
          /\ diff'[r] = Diff(loaded[r], built[r], found[r])
          /\ ~DiffThrows(loaded[r], built[r])
          /\ loaded[r] \in Snapshot \cup {Absent}
          /\ built[r] \in FileTable
          /\ found[r] \in SUBSET Subdirs
      BY <1>1, <2>7 DEF ComputeDiff, AnalysisTypeOK
    <3>2. Succeeds(loaded'[r], diff'[r].next) /\ ReportExplains(loaded'[r], diff'[r])
      BY <3>1, DiffIsRight
    <3>3. diff'[r].changes = Changes(loaded[r], built[r], found[r])
      BY <3>1 DEF Diff
    <3>4. QED
      BY <3>1, <3>2, <3>3, DirectoryChanges DEF ReportFor
  <2>8. CASE BeginSave(r) \/ FinishSave(r)
    <3>1. UNCHANGED <<loaded, diff>> /\ pc[r] \in {"diffed", "writing"}
      BY <2>8 DEF BeginSave, FinishSave, workVars
    <3>2. QED
      BY <1>2, <2>2, <3>1
  <2>9. QED
    BY <1>2, <1>5, <2>2, <2>3, <2>4, <2>5, <2>6, <2>7, <2>8 DEF Working
<1>6. ASSUME NEW h \in Hosts, Crash(h)
      PROVE  ReportInv'
  <2>1. \A s \in Requests :
           \/ pc'[s] = "idle"
           \/ pc'[s] = pc[s] /\ loaded'[s] = loaded[s] /\ diff'[s] = diff[s]
    BY <1>1, <1>6 DEF Crash, Forget, AnalysisTypeOK
  <2>2. QED
    BY <1>2, <2>1 DEF ReportInv
<1>7. CASE (\E x \in Names \cup Dirs : Environment(x)) \/ UNCHANGED vars
  <2>1. UNCHANGED <<pc, loaded, diff>>
    BY <1>7 DEF Environment, vars, workVars
  <2>2. QED
    BY <1>2, <2>1 DEF ReportInv
<1>8. QED
  BY <1>3, <1>4, <1>5, <1>6, <1>7, NextCases

LEMMA ReportInvCorrect == Spec => []ReportInv
<1>1. Init => ReportInv
  BY DEF Init, ReportInv
<1>2. BaseInv /\ ReportInv /\ [Next]_vars => ReportInv'
  BY ReportInvStep
<1>3. QED
  BY <1>1, <1>2, BaseInvCorrect, PTL DEF Spec

-----------------------------------------------------------------------------
(* Steps in which no manifest that counts is begun, finished or answered.  *)
LEMMA ToldStays ==
    ASSUME ToldInv, UNCHANGED <<manifest, told>>, lost \subseteq lost',
           \A r \in Requests : ManifestOf[r] \notin lost' =>
               /\ Unanswered(r)' <=> Unanswered(r)
               /\ Unanswered(r) => loaded'[r] = loaded[r]
    PROVE  ToldInv'
<1>1. ASSUME NEW m \in Manifests \ lost', \A r \in Requests : ManifestOf[r] = m => ~Unanswered(r)'
      PROVE  (manifest[m] # Torn /\ told[m] = VersionsOf(manifest[m]))'
  BY <1>1 DEF ToldInv, VersionsOf
<1>2. ASSUME NEW r \in Requests, ManifestOf[r] \in Manifests \ lost', Unanswered(r)'
      PROVE  (told[ManifestOf[r]] = VersionsOf(loaded[r]))'
  BY <1>2 DEF ToldInv, VersionsOf
<1>3. QED
  BY <1>1, <1>2 DEF ToldInv

(* Of the requests for one manifest only one is inside the lock.           *)
LEMMA OneUnanswered ==
    ASSUME LockCoversManifest, BaseInv, NEW r \in Requests, NEW s \in Requests,
           ManifestOf[r] = ManifestOf[s], Unanswered(s),
           pc[r] \notin {"idle", "admitted"}
    PROVE  s = r
<1>1. Analyzing(r) /\ Analyzing(s)
  BY DEF BaseInv, StageMatchesHandle, Analyzing, Unanswered
<1>2. QED
  BY <1>1, OneAnalysis DEF OneAnalysisPerManifest

(* What the steps of an analysis do to the manifests.                      *)
LEMMA WorkingKeepsTold ==
    ASSUME LockCoversManifest, BaseInv, UpdateInv, ToldInv,
           NEW r \in Requests, Working(r), UNCHANGED <<told, lost>>
    PROVE  ToldInv'
<1> DEFINE m == ManifestOf[r]
<1>1. AnalysisTypeOK /\ m \in Manifests
  BY AnalyzeDirectoryAssumption DEF BaseInv, TypeOK
<1>2. \A s \in Requests \ {r} : pc'[s] = pc[s] /\ loaded'[s] = loaded[s]
  BY WorkingFrame
<1>3. CASE BeginSave(r) \/ FinishSave(r)
  <2>1. /\ loaded' = loaded
        /\ pc[r] \in {"diffed", "writing"} /\ pc'[r] \in {"writing", "saved"}
        /\ pc[r] = "diffed" \/ Unanswered(r)
        /\ \A k \in Manifests \ {m} : manifest'[k] = manifest[k]
    BY <1>1, <1>3 DEF BeginSave, FinishSave, GoTo, workVars, AnalysisTypeOK, Unanswered
  <2>2. \A s \in Requests \ {r} : ManifestOf[s] = m => ~Unanswered(s)
    BY <2>1, OneUnanswered
  <2>3. m \notin lost => told[m] = VersionsOf(loaded[r])
    <3>1. CASE Unanswered(r)
      BY <1>1, <3>1 DEF ToldInv
    <3>2. CASE pc[r] = "diffed"
      <4>1. manifest[m] = loaded[r] /\ ~Unanswered(r)
        BY <3>2 DEF UpdateInv, NoLostUpdate, Unanswered
      <4>2. m \notin lost => told[m] = VersionsOf(manifest[m])
        BY <1>1, <2>2, <4>1 DEF ToldInv
      <4>3. QED
        BY <4>1, <4>2
    <3>3. QED
      BY <2>1, <3>1, <3>2
  <2>4. Unanswered(r)'
    BY <2>1 DEF Unanswered
  <2>5. \A s \in Requests \ {r} : Unanswered(s)' <=> Unanswered(s)
    BY <1>2 DEF Unanswered
  <2>6. \A s \in Requests : VersionsOf(loaded[s])' = VersionsOf(loaded[s])
    BY <2>1 DEF VersionsOf
  <2>7. ASSUME NEW k \in Manifests \ lost, k # m,
               \A s \in Requests : ManifestOf[s] = k => ~Unanswered(s)'
        PROVE  (manifest[k] # Torn /\ told[k] = VersionsOf(manifest[k]))'
    <3>1. manifest[k] # Torn /\ told[k] = VersionsOf(manifest[k])
      BY <2>5, <2>7 DEF ToldInv
    <3>2. manifest'[k] = manifest[k]
      BY <2>1, <2>7
    <3>3. QED
      BY <3>1, <3>2 DEF VersionsOf
  <2>8. ASSUME NEW s \in Requests, ManifestOf[s] \in Manifests \ lost, Unanswered(s)'
        PROVE  (told[ManifestOf[s]] = VersionsOf(loaded[s]))'
    <3>1. CASE s = r
      BY <2>3, <2>6, <2>8, <3>1
    <3>2. CASE s # r
      <4>1. told[ManifestOf[s]] = VersionsOf(loaded[s])
        BY <2>5, <2>8, <3>2 DEF ToldInv
      <4>2. QED
        BY <2>6, <4>1
    <3>3. QED
      BY <3>1, <3>2
  <2>9. QED
    BY <2>4, <2>7, <2>8 DEF ToldInv
<1>4. CASE ~BeginSave(r) /\ ~FinishSave(r)
  <2>1. manifest' = manifest
    BY <1>4, WorkingFrame
  <2>2. ~Unanswered(r) /\ ~Unanswered(r)'
    <3> USE DEF Unanswered, AnalysisTypeOK, GoTo
    <3>1. CASE OpenManifest(r) \/ ReadManifest(r) \/ StartScan(r) \/ AcceptScan(r)
               \/ ComputeDiff(r)
      BY <1>1, <3>1 DEF OpenManifest, ReadManifest, StartScan, AcceptScan,
                        ScanComplete, ComputeDiff
    <3>2. ASSUME NEW d \in Dirs, ListDirectory(r, d) \/ SkipDirectory(r, d)
          PROVE  pc[r] = "scanning" /\ pc' = pc
      BY <3>2 DEF ListDirectory, SkipDirectory, Visiting
    <3>3. ASSUME NEW n \in Names, ReadMetadata(r, n) \/ SkipFile(r, n)
          PROVE  pc[r] = "scanning" /\ pc' = pc
      BY <3>3 DEF ReadMetadata, SkipFile
    <3>4. ASSUME NEW n \in Names,
                 ReuseHash(r, n) \/ HashFile(r, n) \/ KeepPrevious(r, n)
          PROVE  pc[r] = "building" /\ pc' = pc
      BY <3>4 DEF ReuseHash, HashFile, KeepPrevious, Build
    <3>5. QED
      BY <1>4, <3>1, <3>2, <3>3, <3>4 DEF Working
  <2>3. \A s \in Requests : /\ Unanswered(s)' <=> Unanswered(s)
                            /\ Unanswered(s) => loaded'[s] = loaded[s]
    BY <1>2, <2>2 DEF Unanswered
  <2>4. QED
    BY <2>1, <2>3, ToldStays
<1>5. QED
  BY <1>3, <1>4

(* An answer tells all of the step from the old manifest to the new one.   *)
LEMMA SucceedKeepsTold ==
    ASSUME LockCoversManifest, BaseInv, UpdateInv, ReportInv, ToldInv,
           NEW r \in Requests, Succeed(r)
    PROVE  ToldInv'
<1> DEFINE m == ManifestOf[r]
<1>1. AnalysisTypeOK /\ m \in Manifests
  BY AnalyzeDirectoryAssumption DEF BaseInv, TypeOK
<1>2. /\ manifest' = manifest /\ lost' = lost
      /\ told' = [told EXCEPT ![m] = After(told[m], Response(r))]
      /\ pc[r] = "saved" /\ pc'[r] = "idle"
      /\ \A s \in Requests \ {r} : pc'[s] = pc[s] /\ loaded'[s] = loaded[s]
  BY <1>1 DEF Succeed, Return, Leave, GoTo, Forget, AnalysisTypeOK
<1>3. \A s \in Requests \ {r} : ManifestOf[s] = m => ~Unanswered(s)
  BY <1>2, OneUnanswered
<1>4. Unanswered(r) /\ ReportFor(r)
  BY <1>2 DEF ReportInv, Unanswered
<1>5. manifest[m] = diff[r].next /\ diff[r].next \in Snapshot
  BY <1>1, <1>2 DEF UpdateInv, NoLostUpdate, AnalysisTypeOK, DiffResult
<1>6. m \notin lost => told'[m] = VersionsOf(manifest[m])
  <2>1. SUFFICES ASSUME m \notin lost
                 PROVE  told'[m] = VersionsOf(manifest[m])
    OBVIOUS
  <2>2. told[m] = VersionsOf(loaded[r])
    BY <1>1, <1>4, <2>1 DEF ToldInv
  <2>3. told'[m] = After(told[m], Response(r))
    BY <1>1, <1>2 DEF ToldInv
  <2>4. QED
    BY <1>1, <1>4, <1>5, <2>2, <2>3, AfterIsRight
<1>7. \A k \in Manifests \ {m} : told'[k] = told[k]
  BY <1>2 DEF ToldInv
<1>8. told' = [k \in Manifests |-> told'[k]]
  BY <1>2 DEF ToldInv
<1>9. manifest[m] # Torn
  BY <1>5, AnalyzeDirectoryAssumption
<1>10. \A k : VersionsOf(manifest[k])' = VersionsOf(manifest[k])
  BY <1>2 DEF VersionsOf
<1>11. \A s \in Requests \ {r} :
          /\ Unanswered(s)' <=> Unanswered(s)
          /\ VersionsOf(loaded[s])' = VersionsOf(loaded[s])
  BY <1>2 DEF Unanswered, VersionsOf
<1>12. ~Unanswered(r)'
  BY <1>2 DEF Unanswered
<1>13. ASSUME NEW k \in Manifests \ lost,
              \A s \in Requests : ManifestOf[s] = k => ~Unanswered(s)'
       PROVE  (manifest[k] # Torn /\ told[k] = VersionsOf(manifest[k]))'
  <2>1. CASE k = m
    BY <1>2, <1>6, <1>9, <1>10, <1>13, <2>1
  <2>2. CASE k # m
    <3>1. \A s \in Requests : ManifestOf[s] = k => ~Unanswered(s)
      BY <1>11, <1>13, <2>2
    <3>2. manifest[k] # Torn /\ told[k] = VersionsOf(manifest[k])
      BY <1>13, <3>1 DEF ToldInv
    <3>3. QED
      BY <1>2, <1>7, <1>10, <1>13, <2>2, <3>2
  <2>3. QED
    BY <2>1, <2>2
<1>14. ASSUME NEW s \in Requests, ManifestOf[s] \in Manifests \ lost, Unanswered(s)'
       PROVE  (told[ManifestOf[s]] = VersionsOf(loaded[s]))'
  <2>1. s # r /\ Unanswered(s)
    BY <1>11, <1>12, <1>14
  <2>2. ManifestOf[s] # m
    BY <1>3, <2>1
  <2>3. told[ManifestOf[s]] = VersionsOf(loaded[s])
    BY <1>14, <2>1 DEF ToldInv
  <2>4. QED
    BY <1>7, <1>11, <1>14, <2>1, <2>2, <2>3
<1>15. QED
  BY <1>2, <1>8, <1>13, <1>14 DEF ToldInv

LEMMA ToldInvStep ==
    ASSUME LockCoversManifest, BaseInv, UpdateInv, ReportInv, ToldInv,
           [HostNext]_hostVars
    PROVE  ToldInv'
<1>1. AnalysisTypeOK
  BY DEF BaseInv, TypeOK
<1>2. ASSUME NEW r \in Requests, Refuse(r)
      PROVE  ToldInv'
  <2>1. UNCHANGED <<manifest, pc, loaded, told, lost>>
    BY <1>2 DEF Refuse, vars, workVars
  <2>2. QED
    BY <2>1, ToldStays DEF Unanswered
<1>3. ASSUME NEW r \in Requests, Call(r)
      PROVE  ToldInv'
  <2>1. /\ UNCHANGED <<manifest, loaded, told, lost>>
        /\ pc[r] = "idle" /\ pc'[r] = "admitted"
        /\ \A s \in Requests \ {r} : pc'[s] = pc[s]
    BY <1>1, <1>3 DEF Call, Submit, GoTo, workVars, AnalysisTypeOK
  <2>2. QED
    BY <2>1, ToldStays DEF Unanswered
<1>4. ASSUME NEW r \in Requests, Fail(r)
      PROVE  ToldInv'
  <2>1. Leaving(r) /\ UNCHANGED <<told, lost>> /\ ~Unanswered(r)
    BY <1>4 DEF Fail, Leaving, RootVanished, Visiting, RejectScan, ScanComplete,
                ReadTornManifest, SharingViolation, VersionOverflow, Unanswered
  <2>2. /\ manifest' = manifest
        /\ pc'[r] = "idle"
        /\ \A s \in Requests \ {r} : pc'[s] = pc[s] /\ loaded'[s] = loaded[s]
    BY <1>1, <2>1, LeavingFacts DEF Leave, GoTo, Forget, AnalysisTypeOK
  <2>3. QED
    BY <2>1, <2>2, ToldStays DEF Unanswered
<1>5. ASSUME NEW r \in Requests, Interrupt(r)
      PROVE  ToldInv'
  <2>1. /\ UNCHANGED <<manifest, told>>
        /\ lost' = lost \cup Unreported({r})
        /\ pc'[r] = "idle"
        /\ \A s \in Requests \ {r} : pc'[s] = pc[s] /\ loaded'[s] = loaded[s]
    BY <1>1, <1>5
    DEF Interrupt, CancelQueued, Abort, Leave, GoTo, Forget, workVars, AnalysisTypeOK
  <2>2. Unanswered(r) => ManifestOf[r] \in lost'
    BY <2>1 DEF Unreported, Unanswered
  <2>3. ~Unanswered(r)'
    BY <2>1 DEF Unanswered
  <2>4. \A s \in Requests \ {r} : Unanswered(s)' <=> Unanswered(s)
    BY <2>1 DEF Unanswered
  <2>5. QED
    BY <2>1, <2>2, <2>3, <2>4, ToldStays
<1>6. ASSUME NEW h \in Hosts, Die(h)
      PROVE  ToldInv'
  <2> DEFINE R == {r \in Requests : HostOf[r] = h}
  <2>1. /\ UNCHANGED <<manifest, told>>
        /\ lost' = lost \cup Unreported(R)
        /\ \A s \in R : pc'[s] = "idle"
        /\ \A s \in Requests \ R : pc'[s] = pc[s] /\ loaded'[s] = loaded[s]
    BY <1>1, <1>6 DEF Die, Crash, Forget, AnalysisTypeOK
  <2>2. \A s \in R : /\ Unanswered(s) => ManifestOf[s] \in lost'
                     /\ ~Unanswered(s)'
    BY <2>1 DEF Unreported, Unanswered
  <2>3. \A s \in Requests \ R : Unanswered(s)' <=> Unanswered(s)
    BY <2>1 DEF Unanswered
  <2> HIDE DEF R
  <2>4. QED
    BY <2>1, <2>2, <2>3, ToldStays
<1>7. CASE \/ (\E x \in Names \cup Dirs : Environment(x)) /\ UNCHANGED <<answer, told, lost>>
           \/ UNCHANGED hostVars
  <2>1. UNCHANGED <<manifest, pc, loaded, told, lost>>
    BY <1>7 DEF Environment, hostVars, vars, workVars
  <2>2. QED
    BY <2>1, ToldStays DEF Unanswered
<1>8. QED
  BY <1>2, <1>3, <1>4, <1>5, <1>6, <1>7, HostSteps, WorkingKeepsTold, SucceedKeepsTold

(* If the lock of a request covers its manifest, then a client that reads  *)
(* every answer knows the version of every file, for any number of files,  *)
(* directories, requests and hosts, whatever the limits are, whatever      *)
(* fails, and although a file and a directory may have the same path: only *)
(* a manifest of which an answer was cut off is an exception.              *)
THEOREM AnswersAreEnough ==
    ASSUME LockCoversManifest
    PROVE  HostSpec => []ClientsCanFollow
<1>1. HostInit => ToldInv
  <2> SUFFICES ASSUME HostInit
               PROVE  ToldInv
    OBVIOUS
  <2>1. \A m \in Manifests : manifest[m] = Absent /\ manifest[m] # Torn
    BY AnalyzeDirectoryAssumption DEF HostInit, Init
  <2>2. VersionsOf(Absent) = [p \in Paths |-> 0]
    BY DEF VersionsOf, PreviousFiles, NoFiles
  <2>3. \A r \in Requests : ~Unanswered(r)
    BY DEF HostInit, Init, Unanswered
  <2>4. QED
    BY <2>1, <2>2, <2>3 DEF HostInit, ToldInv
<1>2. BaseInv /\ UpdateInv /\ ReportInv /\ ToldInv /\ [HostNext]_hostVars => ToldInv'
  BY ToldInvStep
<1>3. ToldInv => ClientsCanFollow
  BY DEF ToldInv, ClientsCanFollow, Unanswered, VersionsOf
<1>4. QED
  BY <1>1, <1>2, <1>3, HostsOnlyAnswer, BaseInvCorrect, UpdateInvCorrect,
     ReportInvCorrect, PTL DEF HostSpec
=============================================================================
