---------------------------- MODULE RootAnalysis ----------------------------
(***************************************************************************)
(* Analyses of several roots, at the grain of the use case's calls and     *)
(* with real paths: which lock and manifest a request gets, what the       *)
(* resolver creates, what a scan sees of the program's own files, and what *)
(* becomes of the histories when roots are spelled in several ways or a    *)
(* host comes back with other settings.                                    *)
(*                                                                         *)
(* AnalyzeDirectory has the steps within the calls; here a scan with its   *)
(* hashing is one step, and so is a save.  Versions are left out           *)
(* (ManifestDiff): a snapshot gives each relative path its content hash.   *)
(***************************************************************************)
EXTENDS FileTree

CONSTANTS
    Requests,      \* requests that may be under way at once
    Hosts,         \* processes
    HostOf,        \* the host that serves each request
    RootOf,        \* the full path that each request gives
    SettingsSets,  \* sets of settings; a host is always started with some
                   \* of the same set
    UserFolders,   \* the places that other programs make and remove
    UserFiles,
    Contents,      \* what other programs write
    NoSnapshot,    \* null
    MaxSaves       \* bound on the number of saves

ASSUME RootAnalysisAssumption ==
    /\ HostOf \in [Requests -> Hosts]
    /\ RootOf \in [Requests -> FullPaths]
    /\ MaxSaves \in Nat

VARIABLES
    settings,    \* the settings of each host
    pc,          \* where each request is in HandleAsync
    permits,     \* the lock, as in KeyedAnalysisLock
    queue,
    handle,
    loaded,      \* previousSnapshot
    current,     \* the scanned files and directories
    saves,       \* the number of saves so far
    latest       \* history: what the last analysis of each place stored

Keys == {<<HostOf[r], LockKey(RootOf[r])>> : r \in Requests}

KeyOf == [r \in Requests |-> <<HostOf[r], LockKey(RootOf[r])>>]

Lock == INSTANCE KeyedAnalysisLock WITH Locks <- Keys, LockOf <- KeyOf

lockVars == <<permits, queue, handle>>
localVars == <<pc, loaded, current>>
rootVars == <<treeVars, settings, lockVars, localVars, saves, latest>>

RootPlace(r) == Place(RootOf[r])

Roots == {RootPlace(r) : r \in Requests}

SettingsOf(r) == settings[HostOf[r]]

AllSettings == UNION SettingsSets

NothingScanned == [files |-> [p \in {} |-> 0], dirs |-> {}]

RootInit ==
    /\ content = [p \in {} |-> 0]
    /\ folders = UserFolders \cup {<< >>}
    /\ settings \in [Hosts -> AllSettings]
    /\ pc = [r \in Requests |-> "idle"]
    /\ Lock!LockInit
    /\ loaded = [r \in Requests |-> NoSnapshot]
    /\ current = [r \in Requests |-> NothingScanned]
    /\ saves = 0
    /\ latest = [p \in Roots |-> NoSnapshot]

-----------------------------------------------------------------------------
GoTo(r, stage) == pc' = [pc EXCEPT ![r] = stage]

Leave(r) ==
    /\ Lock!Dispose(r)
    /\ GoTo(r, "idle")
    /\ loaded' = [loaded EXCEPT ![r] = NoSnapshot]
    /\ current' = [current EXCEPT ![r] = NothingScanned]

Submit(r) ==
    /\ pc[r] = "idle"
    /\ DirectoryExists(RootOf[r])
    /\ Lock!Acquire(r)
    /\ GoTo(r, "admitted")
    /\ UNCHANGED <<treeVars, settings, loaded, current, saves, latest>>

ManifestPlace(r) == Place(ResolveManifestPath(SettingsOf(r), RootOf[r]))

StoragePlace(r) == Place(StorageDirectory(SettingsOf(r), RootOf[r]))

(* Mutant of CreatesStorage: the root is made to exist as well.            *)
CreatesRootToo(r) ==
    LET places == WithParents(StoragePlace(r)) \cup WithParents(RootPlace(r))
    IN  /\ places \cap DOMAIN content = {}
        /\ folders' = folders \cup places

(* ResolveManifestPath creates the directory of the manifest; a file that  *)
(* is in its way is an error, which Abort stands for.                      *)
CreatesStorage(r) ==
    /\ WithParents(StoragePlace(r)) \cap DOMAIN content = {}
    /\ folders' = folders \cup WithParents(StoragePlace(r))

(* A file is read in the format of the repository; one that is not in that *)
(* format throws, which Abort stands for.                                  *)
IsReadable(r) ==
    ManifestPlace(r) \in DOMAIN content =>
        content[ManifestPlace(r)].format = RepositoryFormat(SettingsOf(r))

Load(r) ==
    /\ pc[r] = "admitted"
    /\ handle[r] = "live"
    /\ CreatesStorage(r)
    /\ IsReadable(r)
    /\ loaded' = [loaded EXCEPT ![r] =
          IF ManifestPlace(r) \in DOMAIN content
          THEN content[ManifestPlace(r)] ELSE NoSnapshot]
    /\ GoTo(r, "loaded")
    /\ UNCHANGED <<content, settings, lockVars, current, saves, latest>>

(* Every save writes another text, were it only for AnalyzedAtUtc.         *)
HashOf(text) == IF text \in Contents THEN text ELSE text.number

(* Directories and files beneath a place that the scan of a root takes in  *)
(* (Traversal!FindsExactlyTheTree; there are no links beneath roots here). *)
SeenBy(r) ==
    {p \in DOMAIN content \cup folders :
        /\ IsStrictPrefix(RootPlace(r), p)
        /\ \A i \in Len(RootPlace(r))..Len(p) :
              ~Ignored(SettingsOf(r), RootOf[r],
                       Trim(RootOf[r]) \o
                           SubSeq(p, Len(RootPlace(r)) + 1, i))}

RelativeToRoot(r, place) == SubSeq(place, Len(RootPlace(r)) + 1, Len(place))

Scan(r) ==
    LET files == SeenBy(r) \cap DOMAIN content
        Hash(name) == HashOf(content[RootPlace(r) \o name])
    IN  /\ pc[r] = "loaded"
        /\ RootPlace(r) \in folders
        /\ current' = [current EXCEPT ![r] =
              [files |-> [name \in {RelativeToRoot(r, p) : p \in files} |-> Hash(name)],
               dirs  |-> {RelativeToRoot(r, p) : p \in SeenBy(r) \cap folders}]]
        /\ GoTo(r, "scanned")
        /\ UNCHANGED <<treeVars, settings, lockVars, loaded, saves, latest>>

RootNotFound(r) ==
    /\ pc[r] = "loaded"
    /\ RootPlace(r) \notin folders
    /\ Leave(r)
    /\ UNCHANGED <<treeVars, settings, saves, latest>>

(* The next snapshot, with the format of its file and the number of the    *)
(* save.                                                                   *)
Save(r) ==
    LET snapshot == [root   |-> RootOf[r],
                     files  |-> current[r].files,
                     dirs   |-> current[r].dirs,
                     format |-> RepositoryFormat(SettingsOf(r)),
                     number |-> saves + 1]
        place == ManifestPlace(r)
    IN  /\ pc[r] = "scanned"
        /\ saves < MaxSaves
        /\ CreatesStorage(r)
        /\ content' = [p \in DOMAIN content \cup {place} |->
                          IF p = place THEN snapshot ELSE content[p]]
        /\ saves' = saves + 1
        /\ latest' = [latest EXCEPT ![RootPlace(r)] = snapshot]
        /\ Leave(r)
        /\ UNCHANGED settings

-----------------------------------------------------------------------------
(* The request is cancelled or fails, perhaps with the directory of the    *)
(* manifest made already.                                                  *)
Abort(r) ==
    /\ \/ /\ pc[r] = "admitted"
          /\ Lock!CancelWait(r)
          /\ GoTo(r, "idle")
          /\ UNCHANGED <<folders, loaded, current>>
       \/ /\ handle[r] = "live"
          /\ \/ UNCHANGED folders
             \/ pc[r] \in {"admitted", "scanned"} /\ CreatesStorage(r)
          /\ Leave(r)
    /\ UNCHANGED <<content, settings, saves, latest>>

(* Host h dies with its requests and starts again with settings s.         *)
Restart(h, s) ==
    LET R == {r \in Requests : HostOf[r] = h}
        Reset(f, value) == [r \in Requests |-> IF r \in R THEN value ELSE f[r]]
    IN  /\ \E S \in SettingsSets : {settings[h], s} \subseteq S
        /\ settings[h] # s \/ \E r \in R : pc[r] # "idle"
        /\ settings' = [settings EXCEPT ![h] = s]
        /\ permits' = [k \in Keys |-> IF k[1] = h THEN 1 ELSE permits[k]]
        /\ queue' = [k \in Keys |-> IF k[1] = h THEN << >> ELSE queue[k]]
        /\ handle' = Reset(handle, "none")
        /\ pc' = Reset(pc, "idle")
        /\ loaded' = Reset(loaded, NoSnapshot)
        /\ current' = Reset(current, NothingScanned)
        /\ UNCHANGED <<treeVars, saves, latest>>

(* Other programs write and delete their files and make directories ...    *)
UserWrites(p, c) ==
    /\ Front(p) \in folders
    /\ content' = [q \in DOMAIN content \cup {p} |->
                      IF q = p THEN c ELSE content[q]]
    /\ UNCHANGED folders

UserMakes(p) ==
    /\ p \notin folders
    /\ Front(p) \in folders
    /\ folders' = folders \cup {p}
    /\ UNCHANGED content

(* ... and remove a directory with all that is in it, the program's own    *)
(* files among them.                                                       *)
UserRemoves(p) ==
    LET Kept(place) == ~IsPrefix(p, place)
    IN  /\ p \in folders \cup DOMAIN content
        /\ content' = [q \in {x \in DOMAIN content : Kept(x)} |-> content[q]]
        /\ folders' = {x \in folders : Kept(x)}

UserChanges ==
    /\ \/ \E p \in UserFiles, c \in Contents : UserWrites(p, c)
       \/ \E p \in UserFolders : UserMakes(p)
       \/ \E p \in UserFiles \cup UserFolders : UserRemoves(p)
    /\ UNCHANGED <<settings, lockVars, localVars, saves>>
    /\ latest' = [p \in Roots |->
                     IF latest[p] # NoSnapshot
                        /\ \A q \in DOMAIN content' : content'[q] # latest[p]
                     THEN NoSnapshot ELSE latest[p]]

-----------------------------------------------------------------------------
Proceed(r) ==
    Load(r) \/ Scan(r) \/ RootNotFound(r) \/ Save(r)

RootNext ==
    \/ \E r \in Requests : Submit(r) \/ Proceed(r) \/ Abort(r)
    \/ \E h \in Hosts, s \in AllSettings : Restart(h, s)
    \/ UserChanges

RootSpec == RootInit /\ [][RootNext]_rootVars

-----------------------------------------------------------------------------
(* A root's history is its own: no request is given a manifest of another  *)
(* full path, although all of them are in one directory and their names    *)
(* may be the same up to the digest.                                       *)
HistoriesDoNotMix ==
    \A r \in Requests : loaded[r] # NoSnapshot => loaded[r].root = RootOf[r]

(* With whatever settings a host comes back, it never opens a manifest in  *)
(* the format that it was not written in: the resolver, which chooses the  *)
(* extension, and the repository, which chooses the format, agree.         *)
ManifestsAreReadable ==
    \A r \in Requests, s \in AllSettings :
        LET place == Place(ResolveManifestPath(s, RootOf[r]))
        IN  place \in DOMAIN content => content[place].format = RepositoryFormat(s)

(* An analysis compares with what the previous analysis of the directory   *)
(* has stored (.github/copilot-instructions.md:10), both when it loads and *)
(* when it saves; nothing, if there was none or its manifest was removed.  *)
ComparedWithPreviousRun ==
    [][\A r \in Requests :
          /\ pc[r] = "admitted" /\ pc'[r] = "loaded" =>
                loaded'[r] = latest[RootPlace(r)]
          /\ pc[r] = "scanned" /\ latest'[RootPlace(r)] # latest[RootPlace(r)]
                /\ pc'[r] = "idle" =>
                latest[RootPlace(r)] \in {loaded[r], NoSnapshot}]_rootVars

(* In one process no two analyses of one directory overlap                 *)
(* (.github/copilot-instructions.md:67).                                   *)
OneAnalysisPerDirectory ==
    \A r, s \in Requests :
        /\ HostOf[r] = HostOf[s]
        /\ RootPlace(r) = RootPlace(s)
        /\ handle[r] = "live"
        /\ handle[s] = "live"
        => r = s

(* No manifest of the program is in a snapshot: else every run would       *)
(* report that the run before it wrote one                                 *)
(* (FileSystemTraversalServiceTests.cs:39).                                *)
ScansNothingOfItsOwn ==
    \A r \in Requests : \A name \in DOMAIN current[r].files :
        \A q \in Requests, s \in AllSettings :
            RootPlace(r) \o name # Place(ResolveManifestPath(s, RootOf[q]))

(* A scan sees every file that other programs have beneath the root        *)
(* (.github/copilot-instructions.md:9), but for the root's own store: what *)
(* has the name of a store is the user's when the store is elsewhere.      *)
EveryUserFileIsSeen ==
    [][\A r \in Requests : pc[r] = "loaded" /\ pc'[r] = "scanned" =>
          \A p \in UserFiles \cap DOMAIN content :
              IsPrefix(RootPlace(r), p) /\ ~IsPrefix(StoragePlace(r), p) =>
                  RelativeToRoot(r, p) \in DOMAIN current'[r].files]_rootVars

(* An analysis whose root was removed while it waited for its turn finds   *)
(* the directory missing, and fails, or else has none of its history: that *)
(* ResolveManifestPath makes the root anew, as it does where the store is  *)
(* beneath it, is never reported as the deletion of all that it had.       *)
RemovedRootStartsAfresh ==
    [][\A r \in Requests :
          pc[r] = "admitted" /\ pc'[r] = "loaded" /\ RootPlace(r) \notin folders =>
              RootPlace(r) \notin folders' \/ loaded'[r] = NoSnapshot]_rootVars
=============================================================================
