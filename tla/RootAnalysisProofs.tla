------------------------- MODULE RootAnalysisProofs -------------------------
(***************************************************************************)
(* Proofs about analyses of several roots.                                 *)
(*                                                                         *)
(* The lock here is an instance of KeyedAnalysisLock, and so are its       *)
(* lemmas: every step of RootNext is a step of the lock, a stutter, or the *)
(* end of a process, which starts all of its locks anew.  What is proved   *)
(* of the histories rests on the resolver's giving no two full paths one   *)
(* manifest path, which is a theorem of its own.                           *)
(***************************************************************************)
EXTENDS RootAnalysis, FileTreeProofs

LP == INSTANCE KeyedAnalysisLockProofs WITH Locks <- Keys, LockOf <- KeyOf

-----------------------------------------------------------------------------
LEMMA KeyOfType == KeyOf \in [Requests -> Keys]
BY DEF KeyOf, Keys

LEMMA AcquireKeeps ==
    ASSUME LP!LockInv, NEW r \in Requests, Lock!Acquire(r)
    PROVE  LP!LockInv'
<1>1. LP!Acquire(r)
  BY DEF Lock!Acquire, LP!Acquire, Lock!Wait, LP!Wait
<1>2. QED
  BY <1>1, KeyOfType, LP!AcquireKeepsLockInv

LEMMA CancelWaitKeeps ==
    ASSUME LP!LockInv, NEW r \in Requests, Lock!CancelWait(r)
    PROVE  LP!LockInv'
<1>1. LP!CancelWait(r)
  BY DEF Lock!CancelWait, LP!CancelWait, Lock!RemoveAt, LP!RemoveAt
<1>2. QED
  BY <1>1, KeyOfType, LP!CancelWaitKeepsLockInv

LEMMA LeaveKeeps ==
    ASSUME LP!LockInv, NEW r \in Requests, Leave(r)
    PROVE  LP!LockInv'
<1>1. LP!Dispose(r)
  BY DEF Leave, Lock!Dispose, LP!Dispose, Lock!Release, LP!Release, Lock!lockVars, LP!lockVars
<1>2. QED
  BY <1>1, KeyOfType, LP!DisposeKeepsLockInv

LEMMA StutterKeeps ==
    ASSUME LP!LockInv, UNCHANGED lockVars
    PROVE  LP!LockInv'
BY KeyOfType, LP!StutterKeepsLockInv DEF lockVars, LP!lockVars

LEMMA RestartKeeps ==
    ASSUME LP!LockInv, NEW h \in Hosts, NEW s, Restart(h, s)
    PROVE  LP!LockInv'
<1> DEFINE L == {k \in Keys : k[1] = h}
<1>1. \A r \in Requests : KeyOf[r] \in L <=> HostOf[r] = h
  BY DEF KeyOf, Keys
<1>2. /\ permits' = [k \in Keys |-> IF k \in L THEN 1 ELSE permits[k]]
      /\ queue' = [k \in Keys |-> IF k \in L THEN << >> ELSE queue[k]]
      /\ handle' = [r \in Requests |-> IF KeyOf[r] \in L THEN "none" ELSE handle[r]]
  BY <1>1 DEF Restart
<1> HIDE DEF L
<1>3. QED
  BY <1>2, KeyOfType, LP!ResetKeepsLockInv

LEMMA RootLockInvariant ==
    ASSUME LP!LockInv, [RootNext]_rootVars
    PROVE  LP!LockInv'
<1>1. ASSUME NEW r \in Requests, Submit(r)
      PROVE  LP!LockInv'
  BY <1>1, AcquireKeeps DEF Submit
<1>2. ASSUME NEW r \in Requests, Load(r) \/ Scan(r)
      PROVE  LP!LockInv'
  BY <1>2, StutterKeeps DEF Load, Scan
<1>3. ASSUME NEW r \in Requests, RootNotFound(r) \/ Save(r)
      PROVE  LP!LockInv'
  BY <1>3, LeaveKeeps DEF RootNotFound, Save
<1>4. ASSUME NEW r \in Requests, Abort(r)
      PROVE  LP!LockInv'
  BY <1>4, CancelWaitKeeps, LeaveKeeps DEF Abort
<1>5. ASSUME NEW h \in Hosts, NEW s, Restart(h, s)
      PROVE  LP!LockInv'
  BY <1>5, RestartKeeps
<1>6. CASE UserChanges
  BY <1>6, StutterKeeps DEF UserChanges
<1>7. CASE UNCHANGED rootVars
  BY <1>7, StutterKeeps DEF rootVars
<1>8. QED
  BY <1>1, <1>2, <1>3, <1>4, <1>5, <1>6, <1>7 DEF RootNext, Proceed

(* In one process no two analyses of one directory overlap, for any number *)
(* of requests and roots and with whatever aborts and restarts, provided   *)
(* that the paths which lead to one directory differ in case at most: the  *)
(* lock is keyed by the text of the full path.                             *)
THEOREM AnalysesDoNotOverlap ==
    ASSUME \A r, s \in Requests :
              RootPlace(r) = RootPlace(s) => LockKey(RootOf[r]) = LockKey(RootOf[s])
    PROVE  RootSpec => []OneAnalysisPerDirectory
<1>1. RootInit => LP!LockInv
  <2>1. RootInit => LP!LockInit
    BY DEF RootInit, Lock!LockInit, LP!LockInit
  <2>2. QED
    BY <2>1, KeyOfType, LP!LockInitInv
<1>2. LP!LockInv /\ [RootNext]_rootVars => LP!LockInv'
  BY RootLockInvariant
<1>3. LP!LockInv => OneAnalysisPerDirectory
  <2> SUFFICES ASSUME LP!LockInv,
                      NEW r \in Requests, NEW s \in Requests,
                      HostOf[r] = HostOf[s],
                      RootPlace(r) = RootPlace(s),
                      handle[r] = "live",
                      handle[s] = "live"
               PROVE  r = s
    BY DEF OneAnalysisPerDirectory
  <2>1. KeyOf[r] = KeyOf[s]
    BY DEF KeyOf
  <2>2. QED
    BY <2>1 DEF LP!LockInv, LP!MutualExclusion
<1>4. QED
  BY <1>1, <1>2, <1>3, PTL DEF RootSpec

-----------------------------------------------------------------------------
(* Two paths that are the same up to case are so up to their last names,   *)
(* and in these.                                                           *)
LEMMA SameUpToCase ==
    ASSUME NEW S, NEW p \in Seq(S), NEW q \in Seq(S), NEW m \in S, NEW n \in S,
           FoldPath(Append(p, m)) = FoldPath(Append(q, n))
    PROVE  FoldPath(p) = FoldPath(q) /\ FoldName(m) = FoldName(n)
<1> DEFINE pm == Append(p, m)
           qn == Append(q, n)
<1>1. /\ Len(p) \in Nat /\ Len(q) \in Nat
      /\ DOMAIN p = 1..Len(p)
      /\ DOMAIN q = 1..Len(q)
  BY LenProperties
<1>2. /\ pm \in Seq(S) /\ Len(pm) = Len(p) + 1 /\ DOMAIN pm = 1..(Len(p) + 1)
      /\ \A i \in 1..Len(p) : pm[i] = p[i]
      /\ pm[Len(p) + 1] = m
  BY AppendProperties, LenProperties
<1>3. /\ qn \in Seq(S) /\ Len(qn) = Len(q) + 1 /\ DOMAIN qn = 1..(Len(q) + 1)
      /\ \A i \in 1..Len(q) : qn[i] = q[i]
      /\ qn[Len(q) + 1] = n
  BY AppendProperties, LenProperties
<1> HIDE DEF pm, qn
<1>4. [i \in DOMAIN pm |-> FoldName(pm[i])] = [i \in DOMAIN qn |-> FoldName(qn[i])]
  BY DEF FoldPath, pm, qn
<1>5. DOMAIN pm = DOMAIN qn /\ \A i \in DOMAIN pm : FoldName(pm[i]) = FoldName(qn[i])
  BY <1>4
<1>6. Len(p) = Len(q)
  <2>1. Len(p) + 1 \in 1..(Len(q) + 1) /\ Len(q) + 1 \in 1..(Len(p) + 1)
    BY <1>1, <1>2, <1>3, <1>5
  <2>2. \A j, k \in Nat : j + 1 \in 1..(k + 1) /\ k + 1 \in 1..(j + 1) => j = k
    OBVIOUS
  <2>3. QED
    BY <1>1, <2>1, <2>2
<1>7. FoldName(m) = FoldName(n)
  BY <1>1, <1>2, <1>3, <1>5, <1>6
<1>8. \A i \in DOMAIN p : FoldName(p[i]) = FoldName(q[i])
  BY <1>1, <1>2, <1>3, <1>5, <1>6
<1>9. FoldPath(p) = FoldPath(q)
  BY <1>1, <1>6, <1>8 DEF FoldPath
<1>10. QED
  BY <1>7, <1>9

(* What the paths and the names in them are.                               *)
NamesAreTyped(Names, Texts) ==
    /\ Separator \in Names
    /\ FullPaths \subseteq Seq(Names)
    /\ AppData \in Seq(Names)
    /\ \A p \in FullPaths : Fingerprint(p) \in Names
    /\ \A s \in Texts : BasePath(s) # Blank => BasePath(s).names \in Seq(Names)
    /\ DefaultBasePath.names \in Seq(Names)

(* The names that the resolver makes up have no other spelling, and the    *)
(* name that it gives to every manifest of AppData mode is none of those   *)
(* of PerRoot mode.                                                        *)
MadeUpNames(Texts) ==
    /\ \A p \in FullPaths :
          /\ Fingerprint(p) \notin DOMAIN Folded
          /\ Fingerprint(p) # ManifestStem
          /\ \A s \in Texts : ManifestName(s, p) \notin DOMAIN Folded

LEMMA CombineType ==
    ASSUME NEW S, NEW p \in Seq(S), NEW base, base.names \in Seq(S)
    PROVE  Combine(p, base) \in Seq(S)
BY TrimType, ConcatProperties DEF Combine

LEMMA AppDataBaseType ==
    ASSUME NEW Names, NEW Texts, NamesAreTyped(Names, Texts), NEW s \in Texts
    PROVE  LET base == IF BasePath(s) = Blank THEN DefaultBasePath ELSE BasePath(s)
           IN  Combine(AppData, base) \in Seq(Names)
<1>1. CASE BasePath(s) = Blank
  BY <1>1, CombineType DEF NamesAreTyped
<1>2. CASE BasePath(s) # Blank
  BY <1>2, CombineType DEF NamesAreTyped
<1>3. QED
  BY <1>1, <1>2

LEMMA StorageDirectoryType ==
    ASSUME NEW Names, NEW Texts, NamesAreTyped(Names, Texts),
           NEW s \in Texts, NEW p \in FullPaths
    PROVE  StorageDirectory(s, p) \in Seq(Names)
<1>1. p \in Seq(Names) /\ Fingerprint(p) \in Names
  BY DEF NamesAreTyped
<1>2. PerRootDirectory(s, p) \in Seq(Names)
  <2>1. CASE BasePath(s) = Blank
    BY <1>1, <2>1, TrimType DEF PerRootDirectory
  <2>2. CASE BasePath(s) # Blank
    BY <1>1, <2>2, CombineType DEF PerRootDirectory, NamesAreTyped
  <2>3. QED
    BY <2>1, <2>2
<1>3. AppDataDirectory(s, p) \in Seq(Names)
  BY <1>1, AppDataBaseType, AppendProperties DEF AppDataDirectory
<1>4. QED
  BY <1>2, <1>3 DEF StorageDirectory

LEMMA ManifestPathParts ==
    ASSUME NEW Names, NEW Texts, NamesAreTyped(Names, Texts),
           NEW s \in Texts, NEW t \in Texts, NEW p \in FullPaths, NEW q \in FullPaths,
           FoldPath(ResolveManifestPath(s, p)) = FoldPath(ResolveManifestPath(t, q))
    PROVE  /\ FoldPath(StorageDirectory(s, p)) = FoldPath(StorageDirectory(t, q))
           /\ FoldName(ManifestName(s, p)) = FoldName(ManifestName(t, q))
<1> DEFINE More == Names \cup {ManifestName(s, p), ManifestName(t, q)}
<1>1. StorageDirectory(s, p) \in Seq(More) /\ StorageDirectory(t, q) \in Seq(More)
  <2>1. StorageDirectory(s, p) \in Seq(Names) /\ StorageDirectory(t, q) \in Seq(Names)
    BY StorageDirectoryType
  <2>2. Names \subseteq More
    OBVIOUS
  <2> HIDE DEF More
  <2>3. QED
    BY <2>1, <2>2
<1>2. ManifestName(s, p) \in More /\ ManifestName(t, q) \in More
  OBVIOUS
<1> HIDE DEF More
<1>3. QED
  BY <1>1, <1>2, SameUpToCase DEF ResolveManifestPath

(* The resolver never gives two full paths one manifest path, not even one *)
(* up to case, whatever the settings of the hosts that ask, although the   *)
(* paths may share the directory, the safe name, or both: the digest tells *)
(* them apart, in the file's name or in its directory's.                   *)
THEOREM ManifestPathTellsRoot ==
    ASSUME NEW Names, NEW Texts, NamesAreTyped(Names, Texts), MadeUpNames(Texts),
           NEW s \in Texts, NEW t \in Texts, NEW p \in FullPaths, NEW q \in FullPaths,
           FoldPath(ResolveManifestPath(s, p)) = FoldPath(ResolveManifestPath(t, q))
    PROVE  p = q
<1>1. /\ FoldPath(StorageDirectory(s, p)) = FoldPath(StorageDirectory(t, q))
      /\ FoldName(ManifestName(s, p)) = FoldName(ManifestName(t, q))
  BY ManifestPathParts
<1>2. ManifestName(s, p).stem = ManifestName(t, q).stem
  BY <1>1 DEF FoldName, MadeUpNames
<1>3. Fingerprint(p) = Fingerprint(q) => p = q
  BY ManifestPathAssumption DEF Fingerprint
<1>4. CASE Mode(s) = PerRootMode \/ Mode(t) = PerRootMode
  BY <1>2, <1>3, <1>4 DEF ManifestName, MadeUpNames
<1>5. CASE Mode(s) # PerRootMode /\ Mode(t) # PerRootMode
  <2>1. FoldPath(AppDataDirectory(s, p)) = FoldPath(AppDataDirectory(t, q))
    BY <1>1, <1>5 DEF StorageDirectory
  <2>2. Fingerprint(p) \in Names /\ Fingerprint(q) \in Names
    BY DEF NamesAreTyped
  <2>3. FoldName(Fingerprint(p)) = FoldName(Fingerprint(q))
    BY <2>1, <2>2, AppDataBaseType, SameUpToCase DEF AppDataDirectory
  <2>4. QED
    BY <1>3, <2>3 DEF FoldName, MadeUpNames
<1>6. QED
  BY <1>4, <1>5

(* Nor do two hosts whose settings name different formats: the extension   *)
(* keeps the files apart, since it follows from the format as the choice   *)
(* of the repository does, with numbers that name no format included.      *)
THEOREM ManifestPathTellsFormat ==
    ASSUME NEW Names, NEW Texts, NamesAreTyped(Names, Texts), MadeUpNames(Texts),
           NEW s \in Texts, NEW t \in Texts, NEW p \in FullPaths, NEW q \in FullPaths,
           FoldPath(ResolveManifestPath(s, p)) = FoldPath(ResolveManifestPath(t, q))
    PROVE  RepositoryFormat(s) = RepositoryFormat(t)
<1>1. FoldName(ManifestName(s, p)) = FoldName(ManifestName(t, q))
  BY ManifestPathParts
<1>2. ManifestName(s, p).extension = ManifestName(t, q).extension
  BY <1>1 DEF FoldName, MadeUpNames
<1>3. QED
  BY <1>2 DEF ManifestName, Extension, RepositoryFormat

-----------------------------------------------------------------------------
ManifestOf(s, r) == Place(ResolveManifestPath(s, RootOf[r]))

(* Paths of manifests that lead to one place differ in case at most: no    *)
(* links join two stores.  And no other program writes in a manifest.      *)
StoresAreApart ==
    \A r \in Requests, s \in AllSettings :
        /\ ManifestOf(s, r) \notin UserFiles
        /\ \A q \in Requests, t \in AllSettings :
              ManifestOf(s, r) = ManifestOf(t, q) =>
                  FoldPath(ResolveManifestPath(s, RootOf[r])) =
                      FoldPath(ResolveManifestPath(t, RootOf[q]))

(* Inductive: what a request has loaded is its root's because whatever is  *)
(* stored where its manifest is, under any settings, is; and that is in    *)
(* the format which those settings name.                                   *)
HistoryInv ==
    /\ settings = [h \in Hosts |-> settings[h]]
    /\ \A h \in Hosts : settings[h] \in AllSettings
    /\ loaded = [r \in Requests |-> loaded[r]]
    /\ \A r \in Requests, s \in AllSettings :
          ManifestOf(s, r) \in DOMAIN content =>
              /\ content[ManifestOf(s, r)].root = RootOf[r]
              /\ content[ManifestOf(s, r)].format = RepositoryFormat(s)
    /\ HistoriesDoNotMix

LEMMA LeaveKeepsHistories ==
    ASSUME HistoryInv, NEW r \in Requests, Leave(r)
    PROVE  loaded' = [q \in Requests |-> loaded'[q]] /\ HistoriesDoNotMix'
BY DEF Leave, HistoryInv, HistoriesDoNotMix

LEMMA LoadKeepsHistories ==
    ASSUME HistoryInv, NEW r \in Requests, Load(r)
    PROVE  HistoryInv'
<1>1. SettingsOf(r) \in AllSettings /\ ManifestPlace(r) = ManifestOf(SettingsOf(r), r)
  BY RootAnalysisAssumption DEF HistoryInv, SettingsOf, ManifestPlace, ManifestOf
<1>2. ManifestPlace(r) \in DOMAIN content => content[ManifestPlace(r)].root = RootOf[r]
  BY <1>1 DEF HistoryInv
<1>3. loaded' = [loaded EXCEPT ![r] = IF ManifestPlace(r) \in DOMAIN content
                                      THEN content[ManifestPlace(r)] ELSE NoSnapshot]
  BY DEF Load
<1>4. loaded' = [q \in Requests |-> loaded'[q]]
  BY <1>3 DEF HistoryInv
<1>5. HistoriesDoNotMix'
  BY <1>2, <1>3 DEF HistoryInv, HistoriesDoNotMix
<1>6. QED
  BY <1>4, <1>5 DEF Load, HistoryInv

LEMMA SaveKeepsHistories ==
    ASSUME NEW Names, NamesAreTyped(Names, AllSettings), MadeUpNames(AllSettings),
           StoresAreApart, HistoryInv, NEW r \in Requests, Save(r)
    PROVE  HistoryInv'
<1>1. SettingsOf(r) \in AllSettings /\ ManifestPlace(r) = ManifestOf(SettingsOf(r), r)
  BY RootAnalysisAssumption DEF HistoryInv, SettingsOf, ManifestPlace, ManifestOf
<1>2. ASSUME NEW q \in Requests, NEW t \in AllSettings,
             ManifestOf(t, q) \in DOMAIN content'
      PROVE  /\ content'[ManifestOf(t, q)].root = RootOf[q]
             /\ content'[ManifestOf(t, q)].format = RepositoryFormat(t)
  <2>1. CASE ManifestOf(t, q) = ManifestPlace(r)
    <3>1. /\ RootOf[q] = RootOf[r]
          /\ RepositoryFormat(t) = RepositoryFormat(SettingsOf(r))
      <4>1. RootOf[q] \in FullPaths /\ RootOf[r] \in FullPaths
        BY RootAnalysisAssumption
      <4>2. FoldPath(ResolveManifestPath(t, RootOf[q])) =
                FoldPath(ResolveManifestPath(SettingsOf(r), RootOf[r]))
        BY <1>1, <2>1 DEF StoresAreApart
      <4>3. QED
        BY <1>1, <4>1, <4>2, ManifestPathTellsRoot, ManifestPathTellsFormat
    <3>2. /\ content'[ManifestPlace(r)].root = RootOf[r]
          /\ content'[ManifestPlace(r)].format = RepositoryFormat(SettingsOf(r))
      BY DEF Save
    <3>3. QED
      BY <2>1, <3>1, <3>2
  <2>2. CASE ManifestOf(t, q) # ManifestPlace(r)
    BY <1>2, <2>2 DEF Save, HistoryInv
  <2>3. QED
    BY <2>1, <2>2
<1>3. settings' = settings /\ Leave(r)
  BY DEF Save
<1>4. QED
  BY <1>2, <1>3, LeaveKeepsHistories DEF HistoryInv

LEMMA RestartKeepsHistories ==
    ASSUME HistoryInv, NEW h \in Hosts, NEW s \in AllSettings, Restart(h, s)
    PROVE  HistoryInv'
<1>1. /\ settings' = [settings EXCEPT ![h] = s]
      /\ content' = content
      /\ loaded' = [q \in Requests |-> IF q \in {x \in Requests : HostOf[x] = h}
                                       THEN NoSnapshot ELSE loaded[q]]
  BY DEF Restart, treeVars
<1>2. QED
  BY <1>1 DEF HistoryInv, HistoriesDoNotMix

LEMMA UserKeepsHistories ==
    ASSUME StoresAreApart, HistoryInv, UserChanges
    PROVE  HistoryInv'
<1>1. settings' = settings /\ loaded' = loaded
  BY DEF UserChanges, localVars
<1>2. \A r \in Requests, s \in AllSettings :
         ManifestOf(s, r) \in DOMAIN content' =>
             /\ ManifestOf(s, r) \in DOMAIN content
             /\ content'[ManifestOf(s, r)] = content[ManifestOf(s, r)]
  <2>1. ASSUME NEW p \in UserFiles, NEW c, UserWrites(p, c)
        PROVE  \A q \in DOMAIN content' \ UserFiles :
                  q \in DOMAIN content /\ content'[q] = content[q]
    BY <2>1 DEF UserWrites
  <2>2. ASSUME NEW p, UserMakes(p) \/ UserRemoves(p)
        PROVE  \A q \in DOMAIN content' \ UserFiles :
                  q \in DOMAIN content /\ content'[q] = content[q]
    BY <2>2 DEF UserMakes, UserRemoves
  <2>3. \A q \in DOMAIN content' \ UserFiles :
           q \in DOMAIN content /\ content'[q] = content[q]
    BY <2>1, <2>2 DEF UserChanges
  <2>4. QED
    BY <2>3 DEF StoresAreApart
<1>3. QED
  BY <1>1, <1>2 DEF HistoryInv, HistoriesDoNotMix

LEMMA HistoryInvCorrect ==
    ASSUME NEW Names, NamesAreTyped(Names, AllSettings), MadeUpNames(AllSettings),
           StoresAreApart
    PROVE  RootSpec => []HistoryInv
<1>1. RootInit => HistoryInv
  BY DEF RootInit, HistoryInv, HistoriesDoNotMix
<1>2. HistoryInv /\ [RootNext]_rootVars => HistoryInv'
  <2> SUFFICES ASSUME HistoryInv, [RootNext]_rootVars
               PROVE  HistoryInv'
    OBVIOUS
  <2>1. ASSUME NEW r \in Requests, Submit(r) \/ Scan(r)
        PROVE  HistoryInv'
    BY <2>1 DEF Submit, Scan, treeVars, HistoryInv, HistoriesDoNotMix
  <2>2. ASSUME NEW r \in Requests, RootNotFound(r) \/ Abort(r)
        PROVE  HistoryInv'
    <3>1. settings' = settings /\ content' = content
      BY <2>2 DEF RootNotFound, Abort, treeVars
    <3>2. Leave(r) \/ loaded' = loaded
      BY <2>2 DEF RootNotFound, Abort
    <3>3. loaded' = [q \in Requests |-> loaded'[q]] /\ HistoriesDoNotMix'
      BY <3>2, LeaveKeepsHistories DEF HistoryInv, HistoriesDoNotMix
    <3>4. QED
      BY <3>1, <3>3 DEF HistoryInv
  <2>3. CASE UNCHANGED rootVars
    BY <2>3 DEF rootVars, treeVars, localVars, HistoryInv, HistoriesDoNotMix
  <2>4. QED
    BY <2>1, <2>2, <2>3, LoadKeepsHistories, SaveKeepsHistories,
       RestartKeepsHistories, UserKeepsHistories
    DEF RootNext, Proceed
<1>3. QED
  BY <1>1, <1>2, PTL DEF RootSpec

(* No request is ever given the history of another full path, for any      *)
(* roots and settings and whatever crashes, restarts with other settings,  *)
(* aborts and changes there are, as long as links do not join the stores.  *)
THEOREM HistoriesStayApart ==
    ASSUME NEW Names, NamesAreTyped(Names, AllSettings), MadeUpNames(AllSettings),
           StoresAreApart
    PROVE  RootSpec => []HistoriesDoNotMix
<1>1. HistoryInv => HistoriesDoNotMix
  BY DEF HistoryInv
<1>2. QED
  BY <1>1, HistoryInvCorrect, PTL

(* With whatever settings a host comes back, it never opens a manifest in  *)
(* a format that it was not written in, under the same assumptions.        *)
THEOREM ManifestsStayReadable ==
    ASSUME NEW Names, NamesAreTyped(Names, AllSettings), MadeUpNames(AllSettings),
           StoresAreApart
    PROVE  RootSpec => []ManifestsAreReadable
<1>1. HistoryInv => ManifestsAreReadable
  BY DEF HistoryInv, ManifestsAreReadable, ManifestOf
<1>2. QED
  BY <1>1, HistoryInvCorrect, PTL

-----------------------------------------------------------------------------
(* Each request has its own place in the variables, and each host settings.*)
ShapeInv ==
    /\ settings = [h \in Hosts |-> settings[h]]
    /\ \A h \in Hosts : settings[h] \in AllSettings
    /\ pc = [r \in Requests |-> pc[r]]
    /\ loaded = [r \in Requests |-> loaded[r]]
    /\ current = [r \in Requests |-> current[r]]
    /\ latest = [p \in Roots |-> latest[p]]

LEMMA ShapeInvCorrect == RootSpec => []ShapeInv
<1>1. RootInit => ShapeInv
  BY DEF RootInit, ShapeInv
<1>2. ShapeInv /\ [RootNext]_rootVars => ShapeInv'
  <2> SUFFICES ASSUME ShapeInv, [RootNext]_rootVars
               PROVE  ShapeInv'
    OBVIOUS
  <2>1. ASSUME NEW r \in Requests, Leave(r)
        PROVE  /\ pc' = [q \in Requests |-> pc'[q]]
               /\ loaded' = [q \in Requests |-> loaded'[q]]
               /\ current' = [q \in Requests |-> current'[q]]
    BY <2>1 DEF Leave, GoTo, ShapeInv
  <2>2. ASSUME NEW r \in Requests, Submit(r) \/ Load(r) \/ Scan(r)
        PROVE  ShapeInv'
    BY <2>2 DEF Submit, Load, Scan, GoTo, ShapeInv
  <2>3. ASSUME NEW r \in Requests, RootNotFound(r)
        PROVE  ShapeInv'
    BY <2>1, <2>3 DEF RootNotFound, ShapeInv
  <2>4. ASSUME NEW r \in Requests, Save(r)
        PROVE  ShapeInv'
    BY <2>1, <2>4 DEF Save, ShapeInv
  <2>5. ASSUME NEW r \in Requests, Abort(r)
        PROVE  ShapeInv'
    <3>1. settings' = settings /\ latest' = latest
      BY <2>5 DEF Abort
    <3>2. Leave(r) \/ (GoTo(r, "idle") /\ loaded' = loaded /\ current' = current)
      BY <2>5 DEF Abort
    <3>3. QED
      BY <2>1, <3>1, <3>2 DEF GoTo, ShapeInv
  <2>6. ASSUME NEW h \in Hosts, NEW s \in AllSettings, Restart(h, s)
        PROVE  ShapeInv'
    BY <2>6 DEF Restart, ShapeInv
  <2>7. CASE UserChanges
    BY <2>7 DEF UserChanges, localVars, ShapeInv
  <2>8. CASE UNCHANGED rootVars
    BY <2>8 DEF rootVars, localVars, ShapeInv
  <2>9. QED
    BY <2>2, <2>3, <2>4, <2>5, <2>6, <2>7, <2>8 DEF RootNext, Proceed
<1>3. QED
  BY <1>1, <1>2, PTL DEF RootSpec

(* What a request does to its own pc, or a restart to those of a host.     *)
LEMMA WhoseStep ==
    ASSUME ShapeInv, RootNext, NEW r \in Requests, pc'[r] # pc[r]
    PROVE  \/ Submit(r) /\ pc'[r] = "admitted"
           \/ Load(r) /\ pc'[r] = "loaded"
           \/ Scan(r) /\ pc'[r] = "scanned"
           \/ (RootNotFound(r) \/ Save(r) \/ Abort(r)) /\ pc'[r] = "idle"
           \/ \E h \in Hosts, s \in AllSettings : Restart(h, s) /\ pc'[r] = "idle"
<1>1. ASSUME NEW q \in Requests, Submit(q) \/ Proceed(q) \/ Abort(q)
      PROVE  \E stage : GoTo(q, stage)
  BY <1>1 DEF Submit, Proceed, Load, Scan, RootNotFound, Save, Abort, Leave
<1>2. ASSUME NEW q \in Requests, NEW stage, GoTo(q, stage)
      PROVE  q = r /\ pc'[r] = stage
  BY <1>2 DEF GoTo, ShapeInv
<1>3. ASSUME NEW q \in Requests, Submit(q) \/ Proceed(q) \/ Abort(q)
      PROVE  q = r
  BY <1>1, <1>2, <1>3
<1>4. /\ Submit(r) => pc'[r] = "admitted"
      /\ Load(r) => pc'[r] = "loaded"
      /\ Scan(r) => pc'[r] = "scanned"
      /\ RootNotFound(r) \/ Save(r) \/ Abort(r) => pc'[r] = "idle"
  BY <1>2 DEF Submit, Load, Scan, RootNotFound, Save, Abort, Leave
<1>5. ASSUME NEW h \in Hosts, NEW s \in AllSettings, Restart(h, s)
      PROVE  pc'[r] = "idle"
  BY <1>5 DEF Restart
<1>6. ~UserChanges
  BY DEF UserChanges, localVars
<1>7. QED
  BY <1>3, <1>4, <1>5, <1>6 DEF RootNext, Proceed

-----------------------------------------------------------------------------
(* What paths are made of, and the stores, where there are no links.       *)
PathsAreTyped(Names) ==
    /\ NamesAreTyped(Names, AllSettings)
    /\ \A s \in AllSettings, p \in FullPaths : ManifestName(s, p) \in Names
    /\ \A p \in FullPaths : Trimmed(Trim(p))
    /\ LooksUp(Names)
    /\ DOMAIN Links = {}
    /\ UserFiles \subseteq Seq(Names)

(* No two names differ in case only, or the system does not mind.          *)
CaseTellsNothing(Names) ==
    /\ \A m, n \in Names : FoldName(m) = FoldName(n) => Stored(m) = Stored(n)
    /\ \A p \in UserFiles : \A i \in 1..Len(p) : Stored(p[i]) = p[i]

RootsAreNoFiles == \A r \in Requests : RootPlace(r) \notin UserFiles

LEMMA RootPlaceParts ==
    ASSUME NEW Names, PathsAreTyped(Names), NEW r \in Requests
    PROVE  /\ RootOf[r] \in FullPaths
           /\ Trim(RootOf[r]) \in Seq(Names)
           /\ RootPlace(r) \in Seq(Names)
           /\ Len(RootPlace(r)) = Len(Trim(RootOf[r]))
           /\ Len(RootPlace(r)) \in Nat
           /\ \A i \in 1..Len(RootPlace(r)) : RootPlace(r)[i] = Stored(Trim(RootOf[r])[i])
<1>1. RootOf[r] \in FullPaths /\ RootOf[r] \in Seq(Names)
  BY RootAnalysisAssumption DEF PathsAreTyped, NamesAreTyped
<1>2. QED
  BY <1>1, TrimParts, PlaceWithoutLinks DEF PathsAreTyped, RootPlace

LEMMA IgnoredIsStore ==
    ASSUME NEW s, NEW root, NEW path, Ignored(s, root, path)
    PROVE  /\ Mode(s) = PerRootMode /\ BasePath(s) # Blank
           /\ IsSameOrSubPath(path, StorageDirectory(s, root))
BY DEF Ignored, IgnoredDirectory, StorageDirectory, PerRootDirectory

(* The path of what is at a place beneath a root, as far as its i-th name. *)
PathAt(r, place, i) == Trim(RootOf[r]) \o SubSeq(place, Len(RootPlace(r)) + 1, i)

LEMMA PathAtParts ==
    ASSUME NEW Names, PathsAreTyped(Names), NEW r \in Requests, NEW p \in Seq(Names),
           IsPrefix(RootPlace(r), p), NEW n \in Len(RootPlace(r))..Len(p)
    PROVE  /\ PathAt(r, p, n) \in Seq(Names)
           /\ Len(PathAt(r, p, n)) = n
           /\ n \in Nat
           /\ \A i \in 1..n : IF i <= Len(RootPlace(r))
                              THEN /\ PathAt(r, p, n)[i] = Trim(RootOf[r])[i]
                                   /\ p[i] = Stored(PathAt(r, p, n)[i])
                              ELSE PathAt(r, p, n)[i] = p[i]
<1> DEFINE rest == SubSeq(p, Len(RootPlace(r)) + 1, n)
           k == Len(RootPlace(r))
           t == Trim(RootOf[r])
<1>1. /\ t \in Seq(Names) /\ RootPlace(r) \in Seq(Names) /\ Len(t) = k /\ k \in Nat
      /\ \A i \in 1..k : RootPlace(r)[i] = Stored(t[i])
  BY RootPlaceParts
<1>2. /\ rest \in Seq(Names) /\ Len(rest) = n - k
      /\ \A i \in 1..(n - k) : rest[i] = p[k + i]
  BY <1>1, PrefixAndRest
<1>3. Len(p) \in Nat /\ k <= Len(p) /\ \A i \in 1..k : RootPlace(r)[i] = p[i]
  BY <1>1, PrefixParts, LenProperties
<1>4. n \in Nat /\ k <= n
  BY <1>1, <1>3
<1> HIDE DEF rest, k, t
<1>5. /\ t \o rest \in Seq(Names)
      /\ Len(t \o rest) = k + (n - k)
      /\ \A i \in 1..(k + (n - k)) : (t \o rest)[i] = IF i <= k THEN t[i] ELSE rest[i - k]
  <2>1. Len(t \o rest) = Len(t) + Len(rest)
    BY <1>1, <1>2, ConcatProperties
  <2>2. /\ t \o rest \in Seq(Names)
        /\ \A i \in 1..(Len(t) + Len(rest)) :
              (t \o rest)[i] = IF i <= Len(t) THEN t[i] ELSE rest[i - Len(t)]
    BY <1>1, <1>2, ConcatProperties
  <2>3. QED
    BY <1>1, <1>2, <2>1, <2>2
<1>6. Len(t \o rest) = n /\ 1..(k + (n - k)) = 1..n
  BY <1>1, <1>4, <1>5
<1>7. ASSUME NEW i \in 1..n, i <= k
      PROVE  (t \o rest)[i] = t[i] /\ p[i] = Stored(t[i])
  BY <1>1, <1>3, <1>5, <1>6, <1>7
<1>8. ASSUME NEW i \in 1..n, ~(i <= k)
      PROVE  (t \o rest)[i] = p[i]
  <2>1. i - k \in 1..(n - k) /\ k + (i - k) = i
    BY <1>1, <1>4, <1>8
  <2>2. QED
    BY <1>2, <1>5, <1>6, <1>8, <2>1
<1>9. QED
  BY <1>4, <1>5, <1>6, <1>7, <1>8 DEF PathAt, rest, k, t

(* What a scan leaves out of a root is in the place of the root's store.   *)
LEMMA OnlyTheStoreIsIgnored ==
    ASSUME NEW Names, PathsAreTyped(Names), CaseTellsNothing(Names),
           NEW r \in Requests, NEW s \in AllSettings,
           NEW p \in UserFiles, IsPrefix(RootPlace(r), p),
           NEW n \in Len(RootPlace(r))..Len(p),
           Ignored(s, RootOf[r], PathAt(r, p, n))
    PROVE  IsPrefix(Place(StorageDirectory(s, RootOf[r])), p)
<1> DEFINE store == StorageDirectory(s, RootOf[r])
           path == PathAt(r, p, n)
<1>1. /\ p \in Seq(Names) /\ path \in Seq(Names) /\ Len(path) = n /\ n \in Nat /\ n <= Len(p)
      /\ Len(p) \in Nat
      /\ \A i \in 1..n : p[i] \in Names /\ path[i] \in Names
      /\ \A i \in 1..n : p[i] = Stored(path[i])
  <2>1. p \in Seq(Names) /\ Len(p) \in Nat
    BY LenProperties DEF PathsAreTyped
  <2>2. /\ path \in Seq(Names) /\ Len(path) = n /\ n \in Nat
        /\ \A i \in 1..n : p[i] = Stored(path[i]) \/ p[i] = path[i]
    BY <2>1, PathAtParts
  <2>3. n <= Len(p)
    BY <2>1, <2>2
  <2>4. \A i \in 1..n : i \in 1..Len(p)
    BY <2>1, <2>2, <2>3
  <2>5. \A i \in 1..n : p[i] \in Names /\ path[i] \in Names /\ Stored(p[i]) = p[i]
    BY <2>1, <2>2, <2>4, ElementOfSeq DEF CaseTellsNothing
  <2>6. \A i \in 1..n : p[i] = Stored(path[i])
    BY <2>2, <2>5
  <2> HIDE DEF path
  <2>7. QED
    BY <2>1, <2>2, <2>3, <2>5, <2>6
<1>2. store \in Seq(Names)
  BY StorageDirectoryType, RootPlaceParts DEF PathsAreTyped
<1>3. IsSameOrSubPath(path, store)
  BY IgnoredIsStore
<1> HIDE DEF store, path
<1>4. /\ Trim(path) \in Seq(Names) /\ Len(Trim(path)) <= n /\ Len(Trim(path)) \in Nat
      /\ \A i \in 1..Len(Trim(path)) : Trim(path)[i] = path[i]
  BY <1>1, TrimParts
<1>5. /\ Len(Trim(store)) <= Len(Trim(path))
      /\ \A i \in 1..Len(Trim(store)) : FoldName(Trim(store)[i]) = FoldName(Trim(path)[i])
  BY <1>1, <1>2, <1>3, SubPathParts
<1>6. /\ Place(store) \in Seq(Names) /\ Len(Place(store)) = Len(Trim(store))
      /\ Len(Trim(store)) \in Nat
      /\ \A i \in 1..Len(Trim(store)) : Place(store)[i] = Stored(Trim(store)[i])
  BY <1>2, PlaceWithoutLinks DEF PathsAreTyped
<1>7. ASSUME NEW i \in 1..Len(Trim(store))
      PROVE  Place(store)[i] = p[i]
  <2>1. i \in 1..n /\ i \in 1..Len(Trim(path))
    BY <1>1, <1>4, <1>5, <1>6
  <2>2. Trim(store)[i] \in Names
    BY <1>2, TrimParts, ElementOfSeq
  <2>3. FoldName(Trim(store)[i]) = FoldName(path[i])
    BY <1>4, <1>5, <2>1
  <2>4. Stored(Trim(store)[i]) = Stored(path[i])
    BY <1>1, <2>1, <2>2, <2>3 DEF CaseTellsNothing
  <2>5. QED
    BY <1>1, <1>6, <2>1, <2>4
<1>8. Len(Place(store)) <= Len(p)
  BY <1>1, <1>4, <1>5, <1>6
<1>9. QED
  BY <1>1, <1>6, <1>7, <1>8, PrefixParts DEF store

(* A scan sees every file that other programs have beneath the root but    *)
(* for what is in the root's own store, for any roots and settings: only   *)
(* there does the traversal ignore anything, and in PerRoot mode only.     *)
THEOREM UserFilesAreSeen ==
    ASSUME NEW Names, PathsAreTyped(Names), CaseTellsNothing(Names), RootsAreNoFiles
    PROVE  RootSpec => EveryUserFileIsSeen
<1>1. ASSUME ShapeInv, RootNext, NEW r \in Requests,
             pc[r] = "loaded", pc'[r] = "scanned",
             NEW p \in UserFiles \cap DOMAIN content,
             IsPrefix(RootPlace(r), p), ~IsPrefix(StoragePlace(r), p)
      PROVE  RelativeToRoot(r, p) \in DOMAIN current'[r].files
  <2>1. Scan(r)
    BY <1>1, WhoseStep
  <2>2. SettingsOf(r) \in AllSettings
    BY <1>1, RootAnalysisAssumption DEF ShapeInv, SettingsOf
  <2>3. \A i \in Len(RootPlace(r))..Len(p) :
           ~Ignored(SettingsOf(r), RootOf[r], PathAt(r, p, i))
    BY <1>1, <2>2, OnlyTheStoreIsIgnored DEF StoragePlace
  <2>4. IsStrictPrefix(RootPlace(r), p)
    BY <1>1 DEF RootsAreNoFiles, IsStrictPrefix
  <2>5. p \in SeenBy(r)
    BY <1>1, <2>3, <2>4 DEF SeenBy, PathAt
  <2>6. current'[r].files =
            [name \in {RelativeToRoot(r, q) : q \in SeenBy(r) \cap DOMAIN content} |->
                HashOf(content[RootPlace(r) \o name])]
    BY <1>1, <2>1 DEF Scan, ShapeInv
  <2>7. QED
    BY <1>1, <2>5, <2>6
<1>2. ShapeInv /\ [RootNext]_rootVars
          => [\A r \in Requests : pc[r] = "loaded" /\ pc'[r] = "scanned" =>
                 \A p \in UserFiles \cap DOMAIN content :
                     IsPrefix(RootPlace(r), p) /\ ~IsPrefix(StoragePlace(r), p) =>
                         RelativeToRoot(r, p) \in DOMAIN current'[r].files]_rootVars
  BY <1>1
<1>3. QED
  BY <1>2, ShapeInvCorrect, PTL DEF RootSpec, EveryUserFileIsSeen

-----------------------------------------------------------------------------
(* What is stored is in lower case or as it was spelled, the names of      *)
(* manifests are not empty, and null is no path.                           *)
StoresAreNamed(Names) ==
    /\ \A n \in Names : FoldName(Stored(n)) = FoldName(n)
    /\ \A s \in AllSettings, p \in FullPaths : ManifestName(s, p) # Separator
    /\ NoDirectory \notin Seq(Names)

(* Settings with which the processes may have run one after the other, or  *)
(* beside each other.                                                      *)
Together(s, t) == \E S \in SettingsSets : {s, t} \subseteq S

SettingsAgree ==
    /\ \A S, T \in SettingsSets : S = T \/ S \cap T = {}
    /\ \A g, h \in Hosts : g = h \/ \A s, t \in AllSettings : Together(s, t)
    /\ \A s, t \in AllSettings :
          Together(s, t) =>
              /\ Mode(s) = PerRootMode => Mode(t) = PerRootMode
              /\ Mode(s) = PerRootMode => BasePath(s) = BasePath(t) /\ BasePath(s) # Blank

(* No root is above the store of AppData mode, or above the store that     *)
(* another root has beneath it; and nobody else writes manifests.          *)
RootsAreApart ==
    \A r, q \in Requests, s \in AllSettings :
        /\ ManifestOf(s, q) \notin UserFiles
        /\ IsPrefix(RootPlace(r), ManifestOf(s, q)) =>
              /\ Mode(s) = PerRootMode
              /\ RootPlace(r) = RootPlace(q) \/ BasePath(s).rooted

LEMMA TogetherFacts ==
    ASSUME SettingsAgree
    PROVE  /\ \A s \in AllSettings : Together(s, s)
           /\ \A s, t \in AllSettings : Together(s, t) => Together(t, s)
           /\ \A s, t, u \in AllSettings : Together(s, t) /\ Together(t, u) => Together(s, u)
<1>1. \A s \in AllSettings : Together(s, s)
  BY DEF AllSettings, Together
<1>2. \A s, t \in AllSettings : Together(s, t) => Together(t, s)
  BY DEF Together
<1>3. ASSUME NEW s \in AllSettings, NEW t \in AllSettings, NEW u \in AllSettings,
             Together(s, t), Together(t, u)
      PROVE  Together(s, u)
  <2>1. PICK S \in SettingsSets : s \in S /\ t \in S
    BY <1>3 DEF Together
  <2>2. PICK T \in SettingsSets : t \in T /\ u \in T
    BY <1>3 DEF Together
  <2>3. S = T
    BY <2>1, <2>2 DEF SettingsAgree
  <2>4. QED
    BY <2>1, <2>2, <2>3 DEF Together
<1>4. QED
  BY <1>1, <1>2, <1>3

(* The stores of a root in two spellings, or of two roots at one base      *)
(* path, are the same with case ignored.                                   *)
LEMMA StoresOfOneRoot ==
    ASSUME NEW Names, PathsAreTyped(Names), StoresAreNamed(Names),
           NEW r \in Requests, NEW q \in Requests,
           NEW base, base.names \in Seq(Names),
           RootPlace(r) = RootPlace(q) \/ base.rooted
    PROVE  /\ Combine(RootOf[r], base) \in Seq(Names)
           /\ Combine(RootOf[q], base) \in Seq(Names)
           /\ Len(Combine(RootOf[r], base)) = Len(Combine(RootOf[q], base))
           /\ \A i \in 1..Len(Combine(RootOf[r], base)) :
                 FoldName(Combine(RootOf[r], base)[i]) = FoldName(Combine(RootOf[q], base)[i])
<1>1. RootOf[r] \in Seq(Names) /\ RootOf[q] \in Seq(Names)
  BY RootPlaceParts DEF PathsAreTyped, NamesAreTyped
<1>2. CASE base.rooted
  BY <1>1, <1>2, CombineType DEF Combine
<1>3. CASE ~base.rooted
  <2> DEFINE b == base.names
             t == Trim(RootOf[r])
             u == Trim(RootOf[q])
  <2>1. Combine(RootOf[r], base) = t \o b /\ Combine(RootOf[q], base) = u \o b
    BY <1>3 DEF Combine
  <2>2. /\ t \in Seq(Names) /\ u \in Seq(Names) /\ b \in Seq(Names)
        /\ Len(t) = Len(u) /\ Len(t) \in Nat /\ Len(b) \in Nat
        /\ \A i \in 1..Len(t) : Stored(t[i]) = Stored(u[i])
    BY <1>3, RootPlaceParts, LenProperties
  <2>3. \A i \in 1..Len(t) : FoldName(t[i]) = FoldName(u[i])
    <3>1. \A i \in 1..Len(t) : t[i] \in Names /\ u[i] \in Names
      BY <2>2, ElementOfSeq
    <3>2. QED
      BY <2>2, <3>1 DEF StoresAreNamed
  <2> HIDE DEF b, t, u
  <2>4. /\ t \o b \in Seq(Names) /\ Len(t \o b) = Len(t) + Len(b)
        /\ \A i \in 1..(Len(t) + Len(b)) :
              (t \o b)[i] = IF i <= Len(t) THEN t[i] ELSE b[i - Len(t)]
    BY <2>2, ConcatProperties
  <2>5. /\ u \o b \in Seq(Names) /\ Len(u \o b) = Len(u) + Len(b)
        /\ \A i \in 1..(Len(u) + Len(b)) :
              (u \o b)[i] = IF i <= Len(u) THEN u[i] ELSE b[i - Len(u)]
    BY <2>2, ConcatProperties
  <2>6. Len(t \o b) = Len(u \o b)
    BY <2>2, <2>4, <2>5
  <2>7. ASSUME NEW i \in 1..Len(t \o b)
        PROVE  FoldName((t \o b)[i]) = FoldName((u \o b)[i])
    <3>1. CASE i <= Len(t)
      <4>1. i \in 1..Len(t) /\ (t \o b)[i] = t[i] /\ (u \o b)[i] = u[i]
        BY <2>2, <2>4, <2>5, <3>1
      <4>2. QED
        BY <2>3, <4>1
    <3>2. CASE ~(i <= Len(t))
      BY <2>2, <2>4, <2>5, <3>2
    <3>3. QED
      BY <3>1, <3>2
  <2>8. QED
    BY <2>1, <2>4, <2>5, <2>6, <2>7
<1>4. QED
  BY <1>2, <1>3

(* So a scan ignores the manifests in them.                                *)
LEMMA OwnStoreIsIgnored ==
    ASSUME NEW Names, PathsAreTyped(Names), StoresAreNamed(Names),
           NEW r \in Requests, NEW q \in Requests,
           NEW s \in AllSettings, NEW t \in AllSettings,
           Mode(s) = PerRootMode, Mode(t) = PerRootMode,
           BasePath(s) = BasePath(t), BasePath(t) # Blank,
           RootPlace(r) = RootPlace(q) \/ BasePath(t).rooted,
           IsPrefix(RootPlace(r), ManifestOf(t, q))
    PROVE  /\ ManifestOf(t, q) \in Seq(Names)
           /\ Ignored(s, RootOf[r], PathAt(r, ManifestOf(t, q), Len(ManifestOf(t, q))))
<1> DEFINE mine == Combine(RootOf[r], BasePath(t))
           theirs == Combine(RootOf[q], BasePath(t))
           name == ManifestName(t, RootOf[q])
           m == ManifestOf(t, q)
           path == PathAt(r, m, Len(m))
<1>1. /\ mine \in Seq(Names) /\ theirs \in Seq(Names) /\ Len(mine) = Len(theirs)
      /\ \A i \in 1..Len(mine) : FoldName(mine[i]) = FoldName(theirs[i])
  <2>1. BasePath(t).names \in Seq(Names)
    BY DEF PathsAreTyped, NamesAreTyped
  <2>2. QED
    BY <2>1, StoresOfOneRoot
<1>2. ResolveManifestPath(t, RootOf[q]) = Append(theirs, name)
  BY DEF ResolveManifestPath, StorageDirectory, PerRootDirectory
<1>3. name \in Names /\ name # Separator
  BY RootPlaceParts DEF PathsAreTyped, StoresAreNamed
<1>4. /\ m \in Seq(Names) /\ Len(m) = Len(theirs) + 1 /\ Len(theirs) \in Nat
      /\ \A i \in 1..Len(theirs) : m[i] = Stored(theirs[i])
  <2> HIDE DEF theirs, name
  <2>1. /\ Append(theirs, name) \in Seq(Names)
        /\ Trim(Append(theirs, name)) = Append(theirs, name)
        /\ Len(Append(theirs, name)) = Len(theirs) + 1 /\ Len(theirs) \in Nat
        /\ \A i \in 1..Len(theirs) : Append(theirs, name)[i] = theirs[i]
    BY <1>1, <1>3, AppendParts, AppendTrimmed DEF Trimmed
  <2>2. m = Place(Append(theirs, name))
    BY <1>2 DEF ManifestOf
  <2> HIDE DEF m
  <2>3. /\ m \in Seq(Names) /\ Len(m) = Len(theirs) + 1
        /\ \A i \in 1..(Len(theirs) + 1) : m[i] = Stored(Append(theirs, name)[i])
    BY <2>1, <2>2, PlaceWithoutLinks DEF PathsAreTyped
  <2>4. QED
    BY <2>1, <2>3
<1> HIDE DEF m
<1>5. Len(RootPlace(r)) \in Nat /\ Len(RootPlace(r)) <= Len(m) /\ Len(m) \in Nat
  BY <1>4, RootPlaceParts, PrefixParts, LenProperties DEF m
<1>6. /\ path \in Seq(Names) /\ Len(path) = Len(m)
      /\ \A i \in 1..Len(m) : m[i] = Stored(path[i]) \/ m[i] = path[i]
  <2>1. Len(m) \in Len(RootPlace(r))..Len(m) /\ IsPrefix(RootPlace(r), m)
    BY <1>5 DEF m
  <2>2. QED
    BY <1>4, <2>1, PathAtParts
<1> HIDE DEF path, mine, theirs
<1>7. \A i \in 1..Len(m) : FoldName(m[i]) = FoldName(path[i])
  <2>1. \A i \in 1..Len(m) : path[i] \in Names
    BY <1>6, ElementOfSeq
  <2>2. QED
    BY <1>6, <2>1 DEF StoresAreNamed
<1>8. /\ Len(Trim(mine)) <= Len(mine) /\ Len(Trim(mine)) \in Nat
      /\ \A i \in 1..Len(Trim(mine)) : Trim(mine)[i] = mine[i]
  BY <1>1, TrimParts
<1>9. /\ Len(theirs) <= Len(Trim(path)) /\ Len(Trim(path)) \in Nat
      /\ \A i \in 1..Len(Trim(path)) : Trim(path)[i] = path[i]
  <2>1. /\ Len(path) <= Len(Trim(path)) + 1 /\ Len(Trim(path)) \in Nat
        /\ \A i \in 1..Len(Trim(path)) : Trim(path)[i] = path[i]
    BY <1>6, TrimParts
  <2>2. QED
    BY <1>4, <1>6, <2>1
<1>10. ASSUME NEW i \in 1..Len(Trim(mine))
       PROVE  FoldName(Trim(mine)[i]) = FoldName(Trim(path)[i])
  <2>1. i \in 1..Len(mine) /\ i \in 1..Len(theirs) /\ i \in 1..Len(m) /\ i \in 1..Len(Trim(path))
    BY <1>1, <1>4, <1>8, <1>9
  <2>2. theirs[i] \in Names
    BY <1>1, <2>1, ElementOfSeq
  <2>3. FoldName(mine[i]) = FoldName(theirs[i]) /\ FoldName(theirs[i]) = FoldName(m[i])
    BY <1>1, <1>4, <2>1, <2>2 DEF StoresAreNamed
  <2>4. QED
    BY <1>7, <1>8, <1>9, <2>1, <2>3
<1>11. Len(Trim(mine)) <= Len(Trim(path))
  BY <1>1, <1>4, <1>8, <1>9
<1>12. IsSameOrSubPath(path, mine)
  BY <1>1, <1>6, <1>10, <1>11, SubPathParts
<1>13. IgnoredDirectory(s, RootOf[r]) = mine /\ mine # NoDirectory
  BY <1>1 DEF IgnoredDirectory, StoresAreNamed, mine
<1>14. Ignored(s, RootOf[r], path)
  BY <1>12, <1>13 DEF Ignored
<1>15. QED
  BY <1>4, <1>14 DEF m, path

Used == {t \in AllSettings : \E h \in Hosts : Together(t, settings[h])}

(* Inductive: manifests are only where settings would have them with which *)
(* the processes that there are may have run.                              *)
OwnInv ==
    /\ \A g, h \in Hosts : Together(settings[g], settings[h])
    /\ DOMAIN content \subseteq UserFiles \cup {ManifestOf(t, q) : t \in Used, q \in Requests}
    /\ ScansNothingOfItsOwn

LEMMA UsedAgree ==
    ASSUME SettingsAgree, ShapeInv, OwnInv, NEW t \in Used, NEW h \in Hosts
    PROVE  settings[h] \in AllSettings /\ Together(settings[h], t)
<1>1. PICK g \in Hosts : Together(t, settings[g])
  BY DEF Used
<1>2. /\ t \in AllSettings /\ settings[g] \in AllSettings /\ settings[h] \in AllSettings
      /\ Together(settings[h], settings[g])
  BY DEF Used, ShapeInv, OwnInv
<1>3. QED
  BY <1>1, <1>2, TogetherFacts

LEMMA LeaveKeepsOwn ==
    ASSUME ShapeInv, ScansNothingOfItsOwn, NEW r \in Requests, Leave(r)
    PROVE  ScansNothingOfItsOwn'
<1>1. \A q \in Requests : current'[q] = IF q = r THEN NothingScanned ELSE current[q]
  BY DEF Leave, ShapeInv
<1>2. DOMAIN NothingScanned.files = {}
  BY DEF NothingScanned
<1>3. QED
  BY <1>1, <1>2 DEF ScansNothingOfItsOwn

LEMMA ScanKeepsOwn ==
    ASSUME NEW Names, PathsAreTyped(Names), StoresAreNamed(Names),
           SettingsAgree, RootsAreApart, ShapeInv, OwnInv, NEW r \in Requests, Scan(r)
    PROVE  ScansNothingOfItsOwn'
<1> DEFINE files == SeenBy(r) \cap DOMAIN content
<1>1. \A q \in Requests : q # r => current'[q] = current[q]
  BY DEF Scan, ShapeInv
<1>2. DOMAIN current'[r].files = {RelativeToRoot(r, p) : p \in files}
  BY DEF Scan, ShapeInv
<1>3. ASSUME NEW p \in files, NEW q \in Requests, NEW s \in AllSettings,
             RootPlace(r) \o RelativeToRoot(r, p) = ManifestOf(s, q)
      PROVE  FALSE
  <2>1. PICK t \in AllSettings, u \in Requests :
            p \notin UserFiles => t \in Used /\ p = ManifestOf(t, u)
    BY <1>3 DEF OwnInv, Used
  <2>2. IsPrefix(RootPlace(r), p)
    BY <1>3 DEF SeenBy, IsStrictPrefix
  <2>3. CASE p \in UserFiles
    <3>1. p \in Seq(Names) /\ RootPlace(r) \in Seq(Names)
      BY <2>3, RootPlaceParts DEF PathsAreTyped
    <3>2. Len(p) \in Len(RootPlace(r))..Len(p)
      BY <2>2, <3>1, PrefixParts, LenProperties
    <3>3. RootPlace(r) \o RelativeToRoot(r, p) = p
      BY <2>2, <3>1, <3>2, PrefixAndRest DEF RelativeToRoot
    <3>4. QED
      BY <1>3, <2>3, <3>3 DEF RootsAreApart
  <2>4. CASE p \notin UserFiles
    <3>1. t \in Used /\ p = ManifestOf(t, u)
      BY <2>1, <2>4
    <3>2. SettingsOf(r) \in AllSettings /\ Together(SettingsOf(r), t)
      BY <3>1, UsedAgree, RootAnalysisAssumption DEF SettingsOf
    <3>3. /\ Mode(t) = PerRootMode
          /\ RootPlace(r) = RootPlace(u) \/ BasePath(t).rooted
      BY <2>2, <3>1 DEF RootsAreApart
    <3>4. /\ Mode(SettingsOf(r)) = PerRootMode
          /\ BasePath(SettingsOf(r)) = BasePath(t) /\ BasePath(t) # Blank
      <4>1. Together(t, SettingsOf(r))
        BY <3>2, TogetherFacts
      <4>2. QED
        BY <3>2, <3>3, <4>1 DEF SettingsAgree
    <3>5. /\ p \in Seq(Names)
          /\ Ignored(SettingsOf(r), RootOf[r], PathAt(r, p, Len(p)))
      BY <2>2, <3>1, <3>2, <3>3, <3>4, OwnStoreIsIgnored
    <3>6. Len(p) \in Len(RootPlace(r))..Len(p)
      <4>1. RootPlace(r) \in Seq(Names)
        BY RootPlaceParts
      <4>2. QED
        BY <2>2, <3>5, <4>1, PrefixParts, LenProperties
    <3>7. QED
      BY <1>3, <3>5, <3>6 DEF SeenBy, PathAt
  <2>5. QED
    BY <2>3, <2>4
<1>4. ASSUME NEW q \in Requests, NEW name \in DOMAIN current'[q].files,
             NEW u \in Requests, NEW s \in AllSettings
      PROVE  RootPlace(q) \o name # Place(ResolveManifestPath(s, RootOf[u]))
  <2>1. CASE q = r
    <3>1. PICK p \in files : name = RelativeToRoot(r, p)
      BY <1>2, <1>4, <2>1
    <3>2. QED
      BY <1>3, <2>1, <3>1 DEF ManifestOf
  <2>2. CASE q # r
    BY <1>1, <1>4, <2>2 DEF OwnInv, ScansNothingOfItsOwn
  <2>3. QED
    BY <2>1, <2>2
<1>5. QED
  BY <1>4 DEF ScansNothingOfItsOwn

LEMMA StepKeepsOwn ==
    ASSUME NEW Names, PathsAreTyped(Names), StoresAreNamed(Names),
           SettingsAgree, RootsAreApart, ShapeInv, OwnInv, [RootNext]_rootVars
    PROVE  OwnInv'
<1>1. ASSUME NEW r \in Requests, Submit(r) \/ Load(r)
      PROVE  OwnInv'
  BY <1>1 DEF Submit, Load, treeVars, OwnInv, Used, ScansNothingOfItsOwn
<1>2. ASSUME NEW r \in Requests, Scan(r)
      PROVE  OwnInv'
  <2>1. content' = content /\ settings' = settings
    BY <1>2 DEF Scan, treeVars
  <2>2. QED
    BY <1>2, <2>1, ScanKeepsOwn DEF OwnInv, Used
<1>3. ASSUME NEW r \in Requests, RootNotFound(r) \/ Abort(r)
      PROVE  OwnInv'
  <2>1. content' = content /\ settings' = settings
    BY <1>3 DEF RootNotFound, Abort, treeVars
  <2>2. Leave(r) \/ current' = current
    BY <1>3 DEF RootNotFound, Abort
  <2>3. ScansNothingOfItsOwn'
    BY <2>2, LeaveKeepsOwn DEF OwnInv, ScansNothingOfItsOwn
  <2>4. QED
    BY <2>1, <2>3 DEF OwnInv, Used
<1>4. ASSUME NEW r \in Requests, Save(r)
      PROVE  OwnInv'
  <2>1. DOMAIN content' = DOMAIN content \cup {ManifestPlace(r)} /\ settings' = settings
    BY <1>4 DEF Save
  <2>2. ScansNothingOfItsOwn'
    BY <1>4, LeaveKeepsOwn DEF Save, OwnInv
  <2>3. SettingsOf(r) \in Used
    BY RootAnalysisAssumption DEF Used, SettingsOf, ShapeInv, OwnInv
  <2>4. ManifestPlace(r) = ManifestOf(SettingsOf(r), r)
    BY DEF ManifestPlace, ManifestOf
  <2>5. DOMAIN content' \subseteq UserFiles \cup {ManifestOf(t, q) : t \in Used, q \in Requests}
    BY <2>1, <2>3, <2>4 DEF OwnInv
  <2>6. QED
    BY <2>1, <2>2, <2>5 DEF OwnInv, Used
<1>5. ASSUME NEW h \in Hosts, NEW s \in AllSettings, Restart(h, s)
      PROVE  OwnInv'
  <2>1. /\ content' = content
        /\ \A g \in Hosts : settings'[g] = IF g = h THEN s ELSE settings[g]
    BY <1>5 DEF Restart, treeVars, ShapeInv
  <2>2. Together(settings[h], s) /\ settings[h] \in AllSettings
    BY <1>5 DEF Restart, Together, ShapeInv
  <2>3. \A g, k \in Hosts : Together(settings'[g], settings'[k])
    <3>1. ASSUME NEW g \in Hosts
          PROVE  Together(settings[g], settings'[g]) /\ settings'[g] \in AllSettings
                 /\ settings[g] \in AllSettings
      BY <2>1, <2>2 DEF OwnInv, ShapeInv
    <3>2. ASSUME NEW g \in Hosts, NEW k \in Hosts
          PROVE  Together(settings'[g], settings'[k])
      <4>1. Together(settings'[g], settings[g])
        BY <3>1, TogetherFacts
      <4>2. Together(settings[g], settings[k])
        BY DEF OwnInv
      <4>3. Together(settings'[g], settings[k])
        BY <3>1, <4>1, <4>2, TogetherFacts
      <4>4. QED
        BY <3>1, <4>3, TogetherFacts
    <3>3. QED
      BY <3>2
  <2>4. Used \subseteq Used'
    <3>1. ASSUME NEW t \in Used
          PROVE  Together(t, settings'[h])
      <4>1. Together(settings[h], t) /\ t \in AllSettings
        BY UsedAgree DEF Used
      <4>2. Together(t, settings[h])
        BY <2>2, <4>1, TogetherFacts
      <4>3. QED
        BY <2>1, <2>2, <4>1, <4>2, TogetherFacts
    <3>2. QED
      BY <3>1 DEF Used
  <2>5. ScansNothingOfItsOwn'
    <3>1. \A q \in Requests : current'[q] = NothingScanned \/ current'[q] = current[q]
      BY <1>5 DEF Restart
    <3>2. DOMAIN NothingScanned.files = {}
      BY DEF NothingScanned
    <3>3. QED
      BY <3>1, <3>2 DEF OwnInv, ScansNothingOfItsOwn
  <2>6. DOMAIN content' \subseteq UserFiles \cup {ManifestOf(t, q) : t \in Used', q \in Requests}
    BY <2>1, <2>4 DEF OwnInv
  <2>7. QED
    BY <2>3, <2>5, <2>6 DEF OwnInv
<1>6. CASE UserChanges
  <2>1. settings' = settings /\ current' = current
    BY <1>6 DEF UserChanges, localVars
  <2>2. DOMAIN content' \subseteq UserFiles \cup DOMAIN content
    BY <1>6 DEF UserChanges, UserWrites, UserMakes, UserRemoves
  <2>3. DOMAIN content' \subseteq UserFiles \cup {ManifestOf(t, q) : t \in Used, q \in Requests}
    BY <2>2 DEF OwnInv
  <2>4. QED
    BY <2>1, <2>3 DEF OwnInv, Used, ScansNothingOfItsOwn
<1>7. CASE UNCHANGED rootVars
  BY <1>7 DEF rootVars, treeVars, localVars, OwnInv, Used, ScansNothingOfItsOwn
<1>8. QED
  BY <1>1, <1>2, <1>3, <1>4, <1>5, <1>6, <1>7 DEF RootNext, Proceed

(* No scan takes in a manifest of any root, for any number of roots and in *)
(* any mode, as long as no root is above a store that is not its own and   *)
(* the processes agree on where the stores are.                            *)
THEOREM ScansLeaveStoresOut ==
    ASSUME NEW Names, PathsAreTyped(Names), StoresAreNamed(Names),
           SettingsAgree, RootsAreApart
    PROVE  RootSpec => []ScansNothingOfItsOwn
<1>1. RootInit => OwnInv
  <2> SUFFICES ASSUME RootInit PROVE OwnInv
    OBVIOUS
  <2>1. \A h \in Hosts : settings[h] \in AllSettings
    BY DEF RootInit
  <2>2. \A g, h \in Hosts : Together(settings[g], settings[h])
    BY <2>1, TogetherFacts DEF SettingsAgree
  <2>3. DOMAIN content = {}
    BY DEF RootInit
  <2>4. \A r \in Requests : DOMAIN current[r].files = {}
    BY DEF RootInit, NothingScanned
  <2>5. QED
    BY <2>2, <2>3, <2>4 DEF OwnInv, ScansNothingOfItsOwn
<1>2. ShapeInv /\ OwnInv /\ [RootNext]_rootVars => OwnInv'
  BY StepKeepsOwn
<1>3. OwnInv => ScansNothingOfItsOwn
  BY DEF OwnInv
<1>4. QED
  BY <1>1, <1>2, <1>3, ShapeInvCorrect, PTL DEF RootSpec

-----------------------------------------------------------------------------
IsSnapshot(x) ==
    x = [root |-> x.root, files |-> x.files, dirs |-> x.dirs,
         format |-> x.format, number |-> x.number]

(* A directory is asked for in one spelling and by one process; a process  *)
(* that comes back looks for its manifest where it was; and what other     *)
(* programs write is no manifest.                                          *)
OneHistoryEach ==
    /\ \A r, q \in Requests :
          RootPlace(r) = RootPlace(q) => RootOf[r] = RootOf[q] /\ HostOf[r] = HostOf[q]
    /\ \A S \in SettingsSets : \A s, t \in S : \A r \in Requests :
          ManifestOf(s, r) = ManifestOf(t, r)
    /\ \A c \in Contents : ~IsSnapshot(c)

(* Inductive: the number of a save is in one manifest.                     *)
NumbersInv ==
    /\ saves \in Nat
    /\ \A x \in DOMAIN content : x \in UserFiles => content[x] \in Contents
    /\ \A x \in DOMAIN content : x \notin UserFiles =>
          /\ IsSnapshot(content[x])
          /\ content[x].number \in 1..saves
    /\ \A x, y \in DOMAIN content : x \notin UserFiles /\ y \notin UserFiles
          /\ content[x].number = content[y].number => x = y

(* Inductive: what the last analysis of a directory has stored is where    *)
(* the next one looks, whatever settings its process has by then; and what *)
(* a request has loaded stays the last that was stored until it saves.     *)
LatestInv ==
    \A r \in Requests :
        latest[RootPlace(r)] = IF ManifestPlace(r) \in DOMAIN content
                               THEN content[ManifestPlace(r)] ELSE NoSnapshot

LoadedInv ==
    \A r \in Requests : pc[r] \in {"loaded", "scanned"} =>
        /\ handle[r] = "live"
        /\ latest[RootPlace(r)] \in {loaded[r], NoSnapshot}

CompareInv == NumbersInv /\ LatestInv /\ LoadedInv

LEMMA ManifestPlaceIsOf ==
    ASSUME ShapeInv, NEW r \in Requests
    PROVE  SettingsOf(r) \in AllSettings /\ ManifestPlace(r) = ManifestOf(SettingsOf(r), r)
BY RootAnalysisAssumption DEF ShapeInv, SettingsOf, ManifestPlace, ManifestOf

(* A request holds its lock until a step of its own, or the end of its     *)
(* process.                                                                *)
LEMMA LiveUntilOwnStep ==
    ASSUME LP!LockInv, ShapeInv, RootNext, NEW r \in Requests, handle[r] = "live",
           pc[r] \in {"loaded", "scanned"}, pc'[r] \in {"loaded", "scanned"}
    PROVE  handle'[r] = "live"
<1>1. handle = [q \in Requests |-> handle[q]]
  BY DEF LP!LockInv, LP!LockTypeOK
<1>2. ASSUME NEW q \in Requests, Leave(q)
      PROVE  q # r /\ handle'[r] = "live"
  <2>1. q # r
    BY <1>2 DEF Leave, GoTo, ShapeInv
  <2>2. QED
    BY <1>1, <1>2, <2>1 DEF Leave, Lock!Dispose, Lock!Release, Lock!lockVars
<1>3. ASSUME NEW q \in Requests, Submit(q)
      PROVE  handle'[r] = "live"
  BY <1>1, <1>3 DEF Submit, Lock!Acquire, Lock!Wait
<1>4. ASSUME NEW q \in Requests, Load(q) \/ Scan(q)
      PROVE  handle'[r] = "live"
  BY <1>4 DEF Load, Scan, lockVars
<1>5. ASSUME NEW q \in Requests, RootNotFound(q) \/ Save(q)
      PROVE  handle'[r] = "live"
  BY <1>2, <1>5 DEF RootNotFound, Save
<1>6. ASSUME NEW q \in Requests, Abort(q)
      PROVE  handle'[r] = "live"
  <2>1. CASE Lock!CancelWait(q)
    BY <1>1, <2>1 DEF Lock!CancelWait
  <2>2. CASE Leave(q)
    BY <1>2, <2>2
  <2>3. QED
    BY <1>6, <2>1, <2>2 DEF Abort
<1>7. ASSUME NEW h \in Hosts, NEW s \in AllSettings, Restart(h, s)
      PROVE  handle'[r] = "live"
  BY <1>7 DEF Restart
<1>8. CASE UserChanges
  BY <1>8 DEF UserChanges, lockVars
<1>9. QED
  BY <1>3, <1>4, <1>5, <1>6, <1>7, <1>8 DEF RootNext, Proceed

LEMMA NoTwoAtOnce ==
    ASSUME OneHistoryEach, LP!LockInv, NEW r \in Requests, NEW q \in Requests,
           RootPlace(r) = RootPlace(q), handle[r] = "live", handle[q] = "live"
    PROVE  r = q
<1>1. KeyOf[r] = KeyOf[q]
  BY DEF OneHistoryEach, KeyOf
<1>2. QED
  BY <1>1 DEF LP!LockInv, LP!MutualExclusion

LEMMA SavesOneManifest ==
    ASSUME NEW Names, NamesAreTyped(Names, AllSettings), MadeUpNames(AllSettings),
           StoresAreApart, OneHistoryEach, ShapeInv,
           NEW r \in Requests, NEW q \in Requests
    PROVE  /\ ManifestPlace(r) \notin UserFiles
           /\ ManifestPlace(r) = ManifestPlace(q) <=> RootPlace(r) = RootPlace(q)
<1>1. /\ SettingsOf(r) \in AllSettings /\ ManifestPlace(r) = ManifestOf(SettingsOf(r), r)
      /\ SettingsOf(q) \in AllSettings /\ ManifestPlace(q) = ManifestOf(SettingsOf(q), q)
  BY ManifestPlaceIsOf
<1>2. ASSUME RootPlace(r) = RootPlace(q)
      PROVE  ManifestPlace(r) = ManifestPlace(q)
  BY <1>2 DEF OneHistoryEach, ManifestPlace, SettingsOf
<1>3. ASSUME ManifestPlace(r) = ManifestPlace(q)
      PROVE  RootPlace(r) = RootPlace(q)
  <2>1. FoldPath(ResolveManifestPath(SettingsOf(r), RootOf[r])) =
            FoldPath(ResolveManifestPath(SettingsOf(q), RootOf[q]))
    <3>1. ManifestOf(SettingsOf(r), r) = ManifestOf(SettingsOf(q), q)
      BY <1>1, <1>3
    <3>2. ASSUME NEW s \in AllSettings, NEW t \in AllSettings,
                 ManifestOf(s, r) = ManifestOf(t, q)
          PROVE  FoldPath(ResolveManifestPath(s, RootOf[r])) =
                     FoldPath(ResolveManifestPath(t, RootOf[q]))
      BY <3>2 DEF StoresAreApart
    <3>3. QED
      BY <1>1, <3>1, <3>2
  <2>2. RootOf[r] = RootOf[q]
    BY <1>1, <2>1, ManifestPathTellsRoot, RootAnalysisAssumption
  <2>3. QED
    BY <2>2 DEF RootPlace
<1>4. QED
  BY <1>1, <1>2, <1>3 DEF StoresAreApart

LEMMA SaveKeepsComparison ==
    ASSUME NEW Names, NamesAreTyped(Names, AllSettings), MadeUpNames(AllSettings),
           StoresAreApart, OneHistoryEach, LP!LockInv, ShapeInv, CompareInv,
           NEW r \in Requests, Save(r)
    PROVE  NumbersInv' /\ LatestInv'
<1> DEFINE snapshot == [root   |-> RootOf[r],
                        files  |-> current[r].files,
                        dirs   |-> current[r].dirs,
                        format |-> RepositoryFormat(SettingsOf(r)),
                        number |-> saves + 1]
           place == ManifestPlace(r)
<1>1. /\ content' = [p \in DOMAIN content \cup {place} |->
                        IF p = place THEN snapshot ELSE content[p]]
      /\ saves' = saves + 1
      /\ latest' = [latest EXCEPT ![RootPlace(r)] = snapshot]
      /\ settings' = settings
  BY DEF Save
<1>2. place \notin UserFiles
  BY SavesOneManifest
<1>3. IsSnapshot(snapshot) /\ snapshot.number = saves + 1
  BY DEF IsSnapshot
<1> HIDE DEF snapshot
<1>4. NumbersInv'
  <2> HIDE DEF place
  <2>1. saves \in Nat /\ saves' \in Nat
    BY <1>1 DEF CompareInv, NumbersInv
  <2>2. ASSUME NEW x \in DOMAIN content'
        PROVE  \/ x = place /\ content'[x] = snapshot
               \/ x # place /\ x \in DOMAIN content /\ content'[x] = content[x]
    BY <1>1
  <2>3. ASSUME NEW x \in DOMAIN content', x \in UserFiles
        PROVE  content'[x] \in Contents
    BY <1>2, <2>2, <2>3 DEF CompareInv, NumbersInv
  <2>4. ASSUME NEW x \in DOMAIN content', x \notin UserFiles
        PROVE  /\ IsSnapshot(content'[x])
               /\ content'[x].number \in 1..saves'
               /\ x # place => content'[x].number \in 1..saves
    <3>1. CASE x = place
      BY <1>1, <1>3, <2>1, <2>2, <3>1
    <3>2. CASE x # place
      <4>1. content'[x] = content[x] /\ x \in DOMAIN content
        BY <2>2, <3>2
      <4>2. IsSnapshot(content[x]) /\ content[x].number \in 1..saves
        BY <2>4, <4>1 DEF CompareInv, NumbersInv
      <4>3. QED
        BY <1>1, <2>1, <4>1, <4>2
    <3>3. QED
      BY <3>1, <3>2
  <2>5. ASSUME NEW x \in DOMAIN content', NEW y \in DOMAIN content',
               x \notin UserFiles, y \notin UserFiles,
               content'[x].number = content'[y].number
        PROVE  x = y
    <3>1. saves + 1 \notin 1..saves
      BY <2>1
    <3>2. CASE x # place /\ y # place
      BY <2>2, <2>5, <3>2 DEF CompareInv, NumbersInv
    <3>3. CASE x = place \/ y = place
      BY <1>3, <2>2, <2>4, <2>5, <3>1, <3>3
    <3>4. QED
      BY <3>2, <3>3
  <2>6. QED
    BY <2>1, <2>3, <2>4, <2>5 DEF NumbersInv
<1>5. LatestInv'
  <2>1. ASSUME NEW q \in Requests
        PROVE  latest'[RootPlace(q)] = IF ManifestPlace(q) \in DOMAIN content'
                                       THEN content'[ManifestPlace(q)] ELSE NoSnapshot
    <3>1. ManifestPlace(q) = place <=> RootPlace(q) = RootPlace(r)
      BY SavesOneManifest
    <3>2. RootPlace(q) \in Roots /\ RootPlace(r) \in Roots
      BY DEF Roots
    <3>3. latest'[RootPlace(q)] = IF RootPlace(q) = RootPlace(r)
                                  THEN snapshot ELSE latest[RootPlace(q)]
      BY <1>1, <3>2 DEF ShapeInv
    <3> HIDE DEF place
    <3>4. QED
      BY <1>1, <3>1, <3>3 DEF CompareInv, LatestInv
  <2>2. \A q \in Requests : ManifestPlace(q)' = ManifestPlace(q)
    BY <1>1 DEF ManifestPlace, SettingsOf
  <2>3. QED
    BY <2>1, <2>2 DEF LatestInv
<1>6. QED
  BY <1>4, <1>5

LEMMA UserKeepsComparison ==
    ASSUME NEW Names, NamesAreTyped(Names, AllSettings), MadeUpNames(AllSettings),
           StoresAreApart, OneHistoryEach, ShapeInv, CompareInv, UserChanges
    PROVE  /\ NumbersInv' /\ LatestInv'
           /\ \A r \in Requests : latest'[RootPlace(r)] \in {latest[RootPlace(r)], NoSnapshot}
<1>1. settings' = settings /\ saves' = saves
  BY DEF UserChanges
<1>2. ASSUME NEW x \in DOMAIN content'
      PROVE  \/ x \in DOMAIN content /\ content'[x] = content[x]
             \/ x \in UserFiles /\ content'[x] \in Contents
  BY <1>2 DEF UserChanges, UserWrites, UserMakes, UserRemoves
<1>3. NumbersInv'
  <2>1. \A x \in DOMAIN content' : x \in UserFiles => content'[x] \in Contents
    BY <1>2 DEF CompareInv, NumbersInv
  <2>2. \A x \in DOMAIN content' : x \notin UserFiles =>
           x \in DOMAIN content /\ content'[x] = content[x]
    BY <1>2
  <2>3. QED
    BY <1>1, <2>1, <2>2 DEF CompareInv, NumbersInv
<1>4. ASSUME NEW r \in Requests
      PROVE  /\ latest'[RootPlace(r)] \in {latest[RootPlace(r)], NoSnapshot}
             /\ latest'[RootPlace(r)] = IF ManifestPlace(r) \in DOMAIN content'
                                        THEN content'[ManifestPlace(r)] ELSE NoSnapshot
  <2> DEFINE m == ManifestPlace(r)
             last == latest[RootPlace(r)]
  <2>1. latest'[RootPlace(r)] = IF last # NoSnapshot
                                   /\ \A q \in DOMAIN content' : content'[q] # last
                                THEN NoSnapshot ELSE last
    BY DEF UserChanges, Roots
  <2>2. last = IF m \in DOMAIN content THEN content[m] ELSE NoSnapshot
    BY DEF CompareInv, LatestInv
  <2>3. m \notin UserFiles
    BY SavesOneManifest
  <2> HIDE DEF m, last
  <2>4. CASE m \in DOMAIN content'
    <3>1. m \in DOMAIN content /\ content'[m] = content[m]
      BY <1>2, <2>3, <2>4
    <3>2. latest'[RootPlace(r)] = last /\ last = content'[m]
      BY <2>1, <2>2, <2>4, <3>1
    <3>3. QED
      BY <2>4, <3>2 DEF m, last
  <2>5. CASE m \notin DOMAIN content' /\ m \in DOMAIN content
    <3>1. ASSUME NEW q \in DOMAIN content', content'[q] = content[m]
          PROVE  FALSE
      <4>1. IsSnapshot(content[m])
        BY <2>3, <2>5 DEF CompareInv, NumbersInv
      <4>2. content'[q] \notin Contents
        BY <3>1, <4>1 DEF OneHistoryEach
      <4>3. q \in DOMAIN content /\ content[q] = content[m] /\ q \notin UserFiles
        BY <1>2, <3>1, <4>2 DEF CompareInv, NumbersInv
      <4>4. q = m
        BY <2>3, <2>5, <4>3 DEF CompareInv, NumbersInv
      <4>5. QED
        BY <2>5, <4>4
    <3>2. QED
      BY <2>1, <2>2, <2>5, <3>1 DEF m
  <2>6. CASE m \notin DOMAIN content' /\ m \notin DOMAIN content
    BY <2>1, <2>2, <2>6 DEF m
  <2>7. latest'[RootPlace(r)] \in {latest[RootPlace(r)], NoSnapshot}
    BY <2>1 DEF last
  <2>8. QED
    BY <2>4, <2>5, <2>6, <2>7 DEF m
<1>5. \A r \in Requests : ManifestPlace(r)' = ManifestPlace(r)
  BY <1>1 DEF ManifestPlace, SettingsOf
<1>6. QED
  BY <1>3, <1>4, <1>5 DEF LatestInv

(* What a step of another request leaves a request with.                   *)
LEMMA LoadedUntilOwnStep ==
    ASSUME ShapeInv, RootNext, NEW r \in Requests,
           pc[r] \in {"loaded", "scanned"}, pc'[r] \in {"loaded", "scanned"}
    PROVE  loaded'[r] = loaded[r]
<1>1. loaded = [q \in Requests |-> loaded[q]]
  BY DEF ShapeInv
<1>2. ASSUME NEW q \in Requests, Leave(q)
      PROVE  loaded'[r] = loaded[r]
  <2>1. q # r
    BY <1>2 DEF Leave, GoTo, ShapeInv
  <2>2. QED
    BY <1>1, <1>2, <2>1 DEF Leave
<1>3. ASSUME NEW q \in Requests, Submit(q) \/ Scan(q)
      PROVE  loaded'[r] = loaded[r]
  BY <1>3 DEF Submit, Scan
<1>4. ASSUME NEW q \in Requests, Load(q)
      PROVE  loaded'[r] = loaded[r]
  BY <1>1, <1>4 DEF Load
<1>5. ASSUME NEW q \in Requests, RootNotFound(q) \/ Save(q) \/ Abort(q)
      PROVE  loaded'[r] = loaded[r]
  BY <1>2, <1>5 DEF RootNotFound, Save, Abort
<1>6. ASSUME NEW h \in Hosts, NEW s \in AllSettings, Restart(h, s)
      PROVE  loaded'[r] = loaded[r]
  BY <1>1, <1>6 DEF Restart
<1>7. CASE UserChanges
  BY <1>7 DEF UserChanges, localVars
<1>8. QED
  BY <1>3, <1>4, <1>5, <1>6, <1>7 DEF RootNext, Proceed

(* Nobody else saves what the next request of a directory will load while  *)
(* one of that directory is under way.                                     *)
LEMMA LatestUntilOwnStep ==
    ASSUME NEW Names, NamesAreTyped(Names, AllSettings), MadeUpNames(AllSettings),
           StoresAreApart, OneHistoryEach, LP!LockInv, ShapeInv, CompareInv,
           RootNext, NEW r \in Requests, handle[r] = "live", ~Save(r)
    PROVE  latest'[RootPlace(r)] \in {latest[RootPlace(r)], NoSnapshot}
<1>1. ASSUME NEW q \in Requests, Save(q)
      PROVE  latest'[RootPlace(r)] = latest[RootPlace(r)]
  <2>1. handle[q] = "live" /\ q # r
    BY <1>1 DEF Save, CompareInv, LoadedInv
  <2>2. RootPlace(q) # RootPlace(r)
    BY <2>1, NoTwoAtOnce
  <2>3. \E snapshot : latest' = [latest EXCEPT ![RootPlace(q)] = snapshot]
    BY <1>1 DEF Save
  <2>4. RootPlace(r) \in Roots
    BY DEF Roots
  <2>5. QED
    BY <2>2, <2>3, <2>4 DEF ShapeInv
<1>2. ASSUME NEW q \in Requests,
             Submit(q) \/ Load(q) \/ Scan(q) \/ RootNotFound(q) \/ Abort(q)
      PROVE  latest' = latest
  BY <1>2 DEF Submit, Load, Scan, RootNotFound, Abort
<1>3. ASSUME NEW h \in Hosts, NEW s \in AllSettings, Restart(h, s)
      PROVE  latest' = latest
  BY <1>3 DEF Restart
<1>4. CASE UserChanges
  BY <1>4, UserKeepsComparison
<1>5. QED
  BY <1>1, <1>2, <1>3, <1>4 DEF RootNext, Proceed

LEMMA LoadsTheLatest ==
    ASSUME ShapeInv, CompareInv, NEW r \in Requests, Load(r)
    PROVE  /\ loaded'[r] = latest[RootPlace(r)]
           /\ latest' = latest
           /\ handle'[r] = "live"
<1>1. loaded'[r] = IF ManifestPlace(r) \in DOMAIN content
                   THEN content[ManifestPlace(r)] ELSE NoSnapshot
  BY DEF Load, ShapeInv
<1>2. QED
  BY <1>1 DEF Load, lockVars, CompareInv, LatestInv

LEMMA StepKeepsComparison ==
    ASSUME NEW Names, NamesAreTyped(Names, AllSettings), MadeUpNames(AllSettings),
           StoresAreApart, OneHistoryEach, LP!LockInv, ShapeInv, CompareInv,
           [RootNext]_rootVars
    PROVE  CompareInv'
<1>1. CASE UNCHANGED rootVars
  <2>1. \A r \in Requests : ManifestPlace(r)' = ManifestPlace(r)
    BY <1>1 DEF rootVars, ManifestPlace, SettingsOf
  <2>2. QED
    BY <1>1, <2>1 DEF rootVars, treeVars, lockVars, localVars, CompareInv,
                      NumbersInv, LatestInv, LoadedInv
<1>2. CASE RootNext
  <2>1. NumbersInv' /\ LatestInv'
    <3>1. ASSUME content' = content, saves' = saves, latest' = latest,
                 \A r \in Requests : ManifestPlace(r)' = ManifestPlace(r)
          PROVE  NumbersInv' /\ LatestInv'
      BY <3>1 DEF CompareInv, NumbersInv, LatestInv
    <3>2. settings' = settings =>
             \A r \in Requests : ManifestPlace(r)' = ManifestPlace(r)
      BY DEF ManifestPlace, SettingsOf
    <3>3. ASSUME NEW q \in Requests,
                 Submit(q) \/ Load(q) \/ Scan(q) \/ RootNotFound(q) \/ Abort(q)
          PROVE  NumbersInv' /\ LatestInv'
      BY <3>1, <3>2, <3>3 DEF Submit, Load, Scan, RootNotFound, Abort, treeVars
    <3>4. ASSUME NEW h \in Hosts, NEW s \in AllSettings, Restart(h, s)
          PROVE  NumbersInv' /\ LatestInv'
      <4>1. PICK S \in SettingsSets : {settings[h], s} \subseteq S
        BY <3>4 DEF Restart
      <4>2. settings' = [settings EXCEPT ![h] = s]
        BY <3>4 DEF Restart
      <4>3. ASSUME NEW r \in Requests
            PROVE  ManifestPlace(r)' = ManifestPlace(r)
        <5>1. ManifestPlace(r)' = ManifestOf(settings'[HostOf[r]], r)
          BY DEF ManifestPlace, ManifestOf, SettingsOf
        <5>2. ManifestPlace(r) = ManifestOf(settings[HostOf[r]], r)
          BY DEF ManifestPlace, ManifestOf, SettingsOf
        <5>3. CASE HostOf[r] = h
          <6>1. settings'[h] = s
            BY <4>2 DEF ShapeInv
          <6>2. ManifestOf(s, r) = ManifestOf(settings[h], r)
            BY <4>1 DEF OneHistoryEach
          <6>3. QED
            BY <5>1, <5>2, <5>3, <6>1, <6>2
        <5>4. CASE HostOf[r] # h
          <6>1. HostOf[r] \in Hosts
            BY RootAnalysisAssumption
          <6>2. settings'[HostOf[r]] = settings[HostOf[r]]
            BY <4>2, <5>4, <6>1 DEF ShapeInv
          <6>3. QED
            BY <5>1, <5>2, <6>2
        <5>5. QED
          BY <5>3, <5>4
      <4>4. QED
        BY <3>1, <3>4, <4>3 DEF Restart, treeVars
    <3>5. CASE UserChanges
      BY <3>5, UserKeepsComparison
    <3>6. QED
      BY <1>2, <3>3, <3>4, <3>5, SaveKeepsComparison DEF RootNext, Proceed
  <2>2. ASSUME NEW r \in Requests, pc'[r] \in {"loaded", "scanned"}
        PROVE  /\ handle'[r] = "live"
               /\ latest'[RootPlace(r)] \in {loaded'[r], NoSnapshot}
    <3>1. CASE Load(r)
      BY <3>1, LoadsTheLatest
    <3>2. CASE ~Load(r)
      <4>1. pc[r] \in {"loaded", "scanned"}
        <5>1. CASE pc'[r] # pc[r]
          <6>1. Scan(r)
            BY <1>2, <2>2, <3>2, <5>1, WhoseStep
          <6>2. QED
            BY <6>1 DEF Scan
        <5>2. QED
          BY <2>2, <5>1
      <4>2. handle[r] = "live" /\ latest[RootPlace(r)] \in {loaded[r], NoSnapshot}
        BY <4>1 DEF CompareInv, LoadedInv
      <4>3. handle'[r] = "live"
        BY <1>2, <2>2, <4>1, <4>2, LiveUntilOwnStep
      <4>4. loaded'[r] = loaded[r]
        BY <1>2, <2>2, <4>1, LoadedUntilOwnStep
      <4>5. ~Save(r)
        BY <2>2 DEF Save, Leave, GoTo, ShapeInv
      <4>6. latest'[RootPlace(r)] \in {latest[RootPlace(r)], NoSnapshot}
        BY <1>2, <4>2, <4>5, LatestUntilOwnStep
      <4>7. QED
        BY <4>2, <4>3, <4>4, <4>6
    <3>3. QED
      BY <3>1, <3>2
  <2>3. QED
    BY <2>1, <2>2 DEF CompareInv, LoadedInv
<1>3. QED
  BY <1>1, <1>2

(* An analysis compares with what the previous analysis of its directory   *)
(* has stored, for any number of requests, roots, crashes and changes, if  *)
(* each directory is asked for in one spelling and by one process whose    *)
(* settings keep its manifest where it is.                                 *)
THEOREM EachRunFollowsTheLast ==
    ASSUME NEW Names, NamesAreTyped(Names, AllSettings), MadeUpNames(AllSettings),
           StoresAreApart, OneHistoryEach
    PROVE  RootSpec => ComparedWithPreviousRun
<1> DEFINE Compared(r) ==
        /\ pc[r] = "admitted" /\ pc'[r] = "loaded" =>
              loaded'[r] = latest[RootPlace(r)]
        /\ pc[r] = "scanned" /\ latest'[RootPlace(r)] # latest[RootPlace(r)]
              /\ pc'[r] = "idle" =>
              latest[RootPlace(r)] \in {loaded[r], NoSnapshot}
<1>1. RootInit => LP!LockInv
  <2>1. RootInit => LP!LockInit
    BY DEF RootInit, Lock!LockInit, LP!LockInit
  <2>2. QED
    BY <2>1, KeyOfType, LP!LockInitInv
<1>2. LP!LockInv /\ [RootNext]_rootVars => LP!LockInv'
  BY RootLockInvariant
<1>3. RootInit => CompareInv
  BY DEF RootInit, CompareInv, NumbersInv, LatestInv, LoadedInv, Roots
<1>4. LP!LockInv /\ ShapeInv /\ CompareInv /\ [RootNext]_rootVars => CompareInv'
  BY StepKeepsComparison
<1>5. ShapeInv /\ CompareInv /\ [RootNext]_rootVars =>
         [\A r \in Requests : Compared(r)]_rootVars
  <2> SUFFICES ASSUME ShapeInv, CompareInv, RootNext, NEW r \in Requests
               PROVE  Compared(r)
    OBVIOUS
  <2>1. ASSUME pc[r] = "admitted", pc'[r] = "loaded"
        PROVE  loaded'[r] = latest[RootPlace(r)]
    BY <2>1, WhoseStep, LoadsTheLatest
  <2>2. pc[r] = "scanned" => latest[RootPlace(r)] \in {loaded[r], NoSnapshot}
    BY DEF CompareInv, LoadedInv
  <2>3. QED
    BY <2>1, <2>2
<1>6. QED
  BY <1>1, <1>2, <1>3, <1>4, <1>5, ShapeInvCorrect, PTL
  DEF RootSpec, ComparedWithPreviousRun

-----------------------------------------------------------------------------
(* What the stores are called.  There may be links to roots and stores,    *)
(* but no manifest is one.                                                 *)
ManifestsAreFiles(Names) ==
    /\ NamesAreTyped(Names, AllSettings)
    /\ LooksUp(Names)
    /\ \A s \in AllSettings, p \in FullPaths :
          /\ ManifestName(s, p) \in Names \ {Separator}
          /\ Trimmed(StorageDirectory(s, p))
          /\ Append(Place(StorageDirectory(s, p)), Stored(ManifestName(s, p)))
                \notin DOMAIN Links

(* The directories that are there at first are in directories.             *)
UserTreeIsProper(Names) ==
    /\ UserFiles \cup UserFolders \subseteq Seq(Names) \ {<< >>}
    /\ \A p \in UserFolders : WithParents(p) \ {<< >>} \subseteq UserFolders

(* Inductive: whatever is somewhere is in a directory, up to the top.  So  *)
(* a directory that is gone has taken with it all that was beneath it, a   *)
(* store of the program included.                                          *)
ClosedInv(Names) ==
    /\ DOMAIN content \cup folders \subseteq Seq(Names)
    /\ \A p \in DOMAIN content \cup folders, q \in Seq(Names) :
          IsPrefix(q, p) /\ q # p => q \in folders

LEMMA ManifestIsInStore ==
    ASSUME NEW Names, ManifestsAreFiles(Names), ShapeInv, NEW r \in Requests
    PROVE  \E name \in Names :
              /\ StoragePlace(r) \in Seq(Names)
              /\ ManifestPlace(r) = Append(StoragePlace(r), name)
<1> DEFINE s == SettingsOf(r)
           store == StorageDirectory(s, RootOf[r])
           file == ManifestName(s, RootOf[r])
<1>1. s \in AllSettings /\ RootOf[r] \in FullPaths
  BY RootAnalysisAssumption DEF ShapeInv, SettingsOf
<1>2. /\ store \in Seq(Names) /\ Trimmed(store)
      /\ file \in Names /\ file # Separator
      /\ Append(Place(store), Stored(file)) \notin DOMAIN Links
      /\ LooksUp(Names)
  BY <1>1, StorageDirectoryType DEF ManifestsAreFiles
<1>3. /\ StoragePlace(r) = Place(store)
      /\ ManifestPlace(r) = Place(Append(store, file))
  BY DEF StoragePlace, ManifestPlace, ResolveManifestPath
<1> HIDE DEF s, store, file
<1>4. Reached(Append(store, file)) = Follow(Reached(store), file)
  BY <1>2, ReachedAppend
<1>5. Place(store) \in Seq(Names) /\ Stored(file) \in Names
  BY <1>2, ReachedType DEF Place, Reaches, LooksUp
<1>6. ManifestPlace(r) = Append(Place(store), Stored(file))
  BY <1>2, <1>3, <1>4 DEF Place, Follow
<1>7. QED
  BY <1>3, <1>5, <1>6

LEMMA CreatingKeepsClosed ==
    ASSUME NEW Names, ManifestsAreFiles(Names), ShapeInv, ClosedInv(Names),
           NEW r \in Requests, CreatesStorage(r),
           content' = content \/ DOMAIN content' = DOMAIN content \cup {ManifestPlace(r)}
    PROVE  ClosedInv(Names)'
<1> DEFINE store == StoragePlace(r)
           m == ManifestPlace(r)
<1>1. PICK name \in Names : store \in Seq(Names) /\ m = Append(store, name)
  BY ManifestIsInStore
<1>2. folders' = folders \cup WithParents(store)
  BY DEF CreatesStorage
<1> HIDE DEF store, m
<1>3. /\ m \in Seq(Names)
      /\ \A q : q \in WithParents(store) <=> q \in Seq(Names) /\ IsPrefix(q, store)
  BY <1>1, AppendParts, WithParentsParts
<1>4. DOMAIN content' \subseteq DOMAIN content \cup {m}
  BY DEF m
<1>5. DOMAIN content' \cup folders' \subseteq Seq(Names)
  BY <1>2, <1>3, <1>4 DEF ClosedInv
<1>6. ASSUME NEW p \in DOMAIN content' \cup folders', NEW q \in Seq(Names),
             IsPrefix(q, p), q # p
      PROVE  q \in folders'
  <2>1. CASE p \in DOMAIN content \cup folders
    BY <1>2, <1>6, <2>1 DEF ClosedInv
  <2>2. CASE p \in WithParents(store)
    BY <1>1, <1>2, <1>3, <1>6, <2>2, PrefixOfPrefix
  <2>3. CASE p = m
    BY <1>1, <1>2, <1>3, <1>6, <2>3, AboveAppend
  <2>4. QED
    BY <1>2, <1>4, <2>1, <2>2, <2>3
<1>7. QED
  BY <1>5, <1>6 DEF ClosedInv

LEMMA UserKeepsClosed ==
    ASSUME NEW Names, UserTreeIsProper(Names), ClosedInv(Names), UserChanges
    PROVE  ClosedInv(Names)'
<1>1. ASSUME NEW p \in Seq(Names), p # << >>, Front(p) \in folders,
             NEW q \in Seq(Names), IsPrefix(q, p), q # p
      PROVE  q \in folders
  <2>1. Front(p) \in Seq(Names) /\ p[Len(p)] \in Names /\ p = Append(Front(p), p[Len(p)])
    BY <1>1, AboveFront
  <2>2. IsPrefix(q, Front(p))
    BY <1>1, <2>1, AboveAppend
  <2>3. QED
    BY <1>1, <2>2 DEF ClosedInv
<1>2. ASSUME NEW p \in UserFiles, NEW c \in Contents, UserWrites(p, c)
      PROVE  ClosedInv(Names)'
  <2>1. DOMAIN content' = DOMAIN content \cup {p} /\ folders' = folders
        /\ Front(p) \in folders /\ p \in Seq(Names) /\ p # << >>
    BY <1>2 DEF UserWrites, UserTreeIsProper
  <2>2. QED
    BY <1>1, <2>1 DEF ClosedInv
<1>3. ASSUME NEW p \in UserFolders, UserMakes(p)
      PROVE  ClosedInv(Names)'
  <2>1. content' = content /\ folders' = folders \cup {p}
        /\ Front(p) \in folders /\ p \in Seq(Names) /\ p # << >>
    BY <1>3 DEF UserMakes, UserTreeIsProper
  <2>2. QED
    BY <1>1, <2>1 DEF ClosedInv
<1>4. ASSUME NEW p \in UserFiles \cup UserFolders, UserRemoves(p)
      PROVE  ClosedInv(Names)'
  <2>1. /\ p \in Seq(Names)
        /\ DOMAIN content' = {q \in DOMAIN content : ~IsPrefix(p, q)}
        /\ folders' = {q \in folders : ~IsPrefix(p, q)}
    BY <1>4 DEF UserRemoves, UserTreeIsProper
  <2>2. ASSUME NEW t \in DOMAIN content' \cup folders', NEW q \in Seq(Names),
               IsPrefix(q, t), q # t
        PROVE  q \in folders'
    <3>1. t \in DOMAIN content \cup folders /\ t \in Seq(Names) /\ ~IsPrefix(p, t)
      BY <2>1 DEF ClosedInv
    <3>2. q \in folders
      BY <2>2, <3>1 DEF ClosedInv
    <3>3. ~IsPrefix(p, q)
      BY <2>1, <2>2, <3>1, PrefixOfPrefix
    <3>4. QED
      BY <2>1, <3>2, <3>3
  <2>3. DOMAIN content' \cup folders' \subseteq Seq(Names)
    BY <2>1 DEF ClosedInv
  <2>4. QED
    BY <2>2, <2>3 DEF ClosedInv
<1>5. QED
  BY <1>2, <1>3, <1>4 DEF UserChanges

LEMMA StepKeepsClosed ==
    ASSUME NEW Names, ManifestsAreFiles(Names), UserTreeIsProper(Names),
           ShapeInv, ClosedInv(Names), [RootNext]_rootVars
    PROVE  ClosedInv(Names)'
<1>1. content' = content /\ folders' = folders => ClosedInv(Names)'
  BY DEF ClosedInv
<1>2. ASSUME NEW r \in Requests, Submit(r) \/ Scan(r) \/ RootNotFound(r)
      PROVE  ClosedInv(Names)'
  BY <1>1, <1>2 DEF Submit, Scan, RootNotFound, treeVars
<1>3. ASSUME NEW r \in Requests, Load(r)
      PROVE  ClosedInv(Names)'
  BY <1>3, CreatingKeepsClosed DEF Load
<1>4. ASSUME NEW r \in Requests, Save(r)
      PROVE  ClosedInv(Names)'
  <2>1. CreatesStorage(r) /\ DOMAIN content' = DOMAIN content \cup {ManifestPlace(r)}
    BY <1>4 DEF Save
  <2>2. QED
    BY <2>1, CreatingKeepsClosed
<1>5. ASSUME NEW r \in Requests, Abort(r)
      PROVE  ClosedInv(Names)'
  <2>1. content' = content /\ (folders' = folders \/ CreatesStorage(r))
    BY <1>5 DEF Abort
  <2>2. QED
    BY <1>1, <2>1, CreatingKeepsClosed
<1>6. ASSUME NEW h \in Hosts, NEW s \in AllSettings, Restart(h, s)
      PROVE  ClosedInv(Names)'
  BY <1>1, <1>6 DEF Restart, treeVars
<1>7. CASE UserChanges
  BY <1>7, UserKeepsClosed
<1>8. CASE UNCHANGED rootVars
  BY <1>1, <1>8 DEF rootVars, treeVars
<1>9. QED
  BY <1>2, <1>3, <1>4, <1>5, <1>6, <1>7, <1>8 DEF RootNext, Proceed

(* A root that was removed while its analysis waited stays away, so that   *)
(* the analysis fails, or comes back without a history, in every mode and  *)
(* wherever the stores are, beneath the roots or above them: what brings   *)
(* it back is its own store, of which nothing is left.                     *)
THEOREM RemovedRootsStartAfresh ==
    ASSUME NEW Names, ManifestsAreFiles(Names), UserTreeIsProper(Names)
    PROVE  RootSpec => RemovedRootStartsAfresh
<1> DEFINE Afresh(r) ==
        pc[r] = "admitted" /\ pc'[r] = "loaded" /\ RootPlace(r) \notin folders =>
            RootPlace(r) \notin folders' \/ loaded'[r] = NoSnapshot
<1>1. RootInit => ClosedInv(Names)
  <2> SUFFICES ASSUME RootInit PROVE ClosedInv(Names)
    OBVIOUS
  <2>1. DOMAIN content = {} /\ folders = UserFolders \cup {<< >>}
    BY DEF RootInit
  <2>2. << >> \in Seq(Names) /\ folders \subseteq Seq(Names)
    BY <2>1, EmptySeq DEF UserTreeIsProper
  <2>3. ASSUME NEW p \in folders, NEW q \in Seq(Names), IsPrefix(q, p), q # p
        PROVE  q \in folders
    <3>1. q \in WithParents(p)
      BY <2>2, <2>3, WithParentsParts
    <3>2. CASE p \in UserFolders
      BY <2>1, <3>1, <3>2 DEF UserTreeIsProper
    <3>3. CASE p = << >>
      BY <2>2, <2>3, <3>3, EmptySeq, PrefixParts, LenProperties
    <3>4. QED
      BY <2>1, <3>2, <3>3
  <2>4. QED
    BY <2>1, <2>2, <2>3 DEF ClosedInv
<1>2. ShapeInv /\ ClosedInv(Names) /\ [RootNext]_rootVars => ClosedInv(Names)'
  BY StepKeepsClosed
<1>3. ShapeInv /\ ClosedInv(Names) /\ [RootNext]_rootVars
          => [\A r \in Requests : Afresh(r)]_rootVars
  <2> SUFFICES ASSUME ShapeInv, ClosedInv(Names), RootNext, NEW r \in Requests,
                      pc[r] = "admitted", pc'[r] = "loaded",
                      RootPlace(r) \notin folders, RootPlace(r) \in folders'
               PROVE  loaded'[r] = NoSnapshot
    OBVIOUS
  <2>1. Load(r)
    BY WhoseStep
  <2>2. RootPlace(r) \in WithParents(StoragePlace(r))
    BY <2>1 DEF Load, CreatesStorage
  <2>3. PICK name \in Names : /\ StoragePlace(r) \in Seq(Names)
                              /\ ManifestPlace(r) = Append(StoragePlace(r), name)
    BY ManifestIsInStore
  <2>4. RootPlace(r) \in Seq(Names) /\ IsPrefix(RootPlace(r), StoragePlace(r))
    BY <2>2, <2>3, WithParentsParts
  <2>5. RootPlace(r) # ManifestPlace(r) /\ IsPrefix(RootPlace(r), ManifestPlace(r))
    <3>1. /\ ManifestPlace(r) \in Seq(Names)
          /\ IsPrefix(StoragePlace(r), ManifestPlace(r))
          /\ Len(ManifestPlace(r)) = Len(StoragePlace(r)) + 1
          /\ Len(StoragePlace(r)) \in Nat
      BY <2>3, AboveAppend, AppendParts, LenProperties
    <3>2. Len(RootPlace(r)) <= Len(StoragePlace(r))
      BY <2>3, <2>4, PrefixParts
    <3>3. RootPlace(r) # ManifestPlace(r)
      BY <3>1, <3>2
    <3>4. QED
      BY <2>3, <2>4, <3>1, <3>3, PrefixOfPrefix
  <2>6. ManifestPlace(r) \notin DOMAIN content
    BY <2>4, <2>5 DEF ClosedInv
  <2>7. QED
    BY <2>1, <2>6 DEF Load, ShapeInv
<1>4. QED
  BY <1>1, <1>2, <1>3, ShapeInvCorrect, PTL DEF RootSpec, RemovedRootStartsAfresh
=============================================================================
