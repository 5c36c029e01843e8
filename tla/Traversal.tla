----------------------------- MODULE Traversal -----------------------------
(***************************************************************************)
(* One call of FileSystemTraversalService.EnumerateFilesAsync on a tree    *)
(* that stays as it is: which files and directories it returns, for any    *)
(* tree, links, access rights and settings.  (AnalyzeDirectory has the     *)
(* same loop over a directory that changes meanwhile.)                     *)
(***************************************************************************)
EXTENDS FileTree

CONSTANTS
    Trees,          \* the file systems to start from: [content, folders]
    SettingsSet,    \* the settings to start from
    DeniedPlaces,   \* directories to which access may be denied
    MaxDepth        \* no path beneath a root has more names

VARIABLES
    root,         \* normalizedRoot
    settings,     \* _storageOptions
    denied,       \* the directories to which access is denied
    status,       \* called, running, returned, or how it failed
    pendingDirectories,
    result,       \* the paths of the files, relative to the root
    directories,  \* those of the directories, with case ignored
    skipped       \* history: paths that an IOException kept from being read

taskVars == <<treeVars, root, settings, denied>>
resultVars == <<result, directories, skipped>>
traversalVars == <<taskVars, status, pendingDirectories, resultVars>>

TraversalInit ==
    /\ \E tree \in Trees : content = tree.content /\ folders = tree.folders
    /\ root \in FullPaths
    /\ settings \in SettingsSet
    /\ denied \in SUBSET DeniedPlaces
    /\ status = "called"
    /\ pendingDirectories = {}
    /\ result = {}
    /\ directories = {}
    /\ skipped = {}

-----------------------------------------------------------------------------
Start ==
    /\ status = "called"
    /\ DirectoryExists(root)
    /\ status' = "running"
    /\ pendingDirectories' = {root}
    /\ UNCHANGED <<taskVars, resultVars>>

RootNotFound ==
    /\ status = "called"
    /\ ~DirectoryExists(root)
    /\ status' = "DirectoryNotFoundException"
    /\ UNCHANGED <<taskVars, pendingDirectories, resultVars>>

IsIgnored(path) == Ignored(settings, root, path)

(* Mutant of Pop: the directory is looked at and stays on the stack.       *)
Peek(path, pushed) ==
    /\ status = "running"
    /\ path \in pendingDirectories
    /\ pendingDirectories' = pendingDirectories \cup pushed
    /\ UNCHANGED <<taskVars, status>>

(* The stack is a set: the order in which a directory is enumerated, hence *)
(* that of the visits, is up to the file system.                           *)
Pop(path, pushed) ==
    /\ status = "running"
    /\ path \in pendingDirectories
    /\ pendingDirectories' = (pendingDirectories \ {path}) \cup pushed
    /\ UNCHANGED <<taskVars, status>>

PassOver(path) ==
    /\ IsIgnored(path)
    /\ Pop(path, {})
    /\ UNCHANGED resultVars

(* An IOException at the first enumeration: the directory is left out.     *)
SkipInaccessible(path) ==
    /\ ~IsIgnored(path)
    /\ Pop(path, {})
    /\ skipped' = skipped \cup {Trim(path)}
    /\ UNCHANGED <<result, directories>>

(* Mutant of Subdirectories: the ignored directory is noticed only when it *)
(* is popped.                                                              *)
AllSubdirectories(path) == EnumerateDirectories(path)

Subdirectories(path) == {s \in EnumerateDirectories(path) : ~IsIgnored(s)}

Files(path) == {f \in EnumerateFiles(path) : ~IsIgnored(f)}

(* Any of the files, or their enumeration as a whole, may fail with an     *)
(* IOException.                                                            *)
Enumerate(path) ==
    /\ ~IsIgnored(path)
    /\ Place(path) \notin denied
    /\ Pop(path, Subdirectories(path))
    /\ directories' = directories \cup
          {FoldPath(RelativePath(root, s)) : s \in Subdirectories(path)}
    /\ \E lost \in SUBSET Files(path) :
          /\ result' = result \cup
                {RelativePath(root, f) : f \in Files(path) \ lost}
          /\ skipped' = skipped \cup lost

(* UnauthorizedAccessException is not an IOException: nobody catches it.   *)
AccessDenied(path) ==
    /\ status = "running"
    /\ path \in pendingDirectories
    /\ ~IsIgnored(path)
    /\ Place(path) \in denied
    /\ status' = "UnauthorizedAccessException"
    /\ UNCHANGED <<taskVars, pendingDirectories, resultVars>>

Return ==
    /\ status = "running"
    /\ pendingDirectories = {}
    /\ status' = "returned"
    /\ UNCHANGED <<taskVars, pendingDirectories, resultVars>>

Cancel ==
    /\ status = "running"
    /\ pendingDirectories # {}
    /\ status' = "OperationCanceledException"
    /\ UNCHANGED <<taskVars, pendingDirectories, resultVars>>

Visit(path) ==
    PassOver(path) \/ SkipInaccessible(path) \/ Enumerate(path) \/ AccessDenied(path)

Run == Start \/ RootNotFound \/ (\E path \in pendingDirectories : Visit(path)) \/ Return

TraversalNext == Run \/ Cancel

TraversalSpec ==
    /\ TraversalInit
    /\ [][TraversalNext]_traversalVars
    /\ WF_traversalVars(Run)

-----------------------------------------------------------------------------
(* What there is beneath the root, level by level, that can be got at: a   *)
(* reference definition, not code.                                         *)
IsOpen(path) == DirectoryExists(path) /\ path \notin skipped /\ ~IsIgnored(path)

Level[n \in 0..MaxDepth] ==
    IF n = 0 THEN {Trim(root)}
    ELSE UNION {Entries(p) : p \in {q \in Level[n - 1] : IsOpen(q)}}

Reachable == UNION {Level[n] : n \in 0..MaxDepth}

(* When the traversal returns, it has found every file and directory under *)
(* the root, however deep or behind links, but for those it could not read *)
(* and the directory it ignores; and it has made nothing up.  In           *)
(* particular what lies in a directory that the user may not enter is      *)
(* never taken for deleted: the analysis fails instead.                    *)
FindsExactlyTheTree ==
    status = "returned" =>
        LET there == {p \in Reachable \ {Trim(root)} : ~IsIgnored(p)}
            Dirs == {p \in there : DirectoryExists(p)}
        IN  /\ result = {RelativePath(root, p) : p \in there \ (Dirs \cup skipped)}
            /\ directories = {FoldPath(RelativePath(root, p)) : p \in Dirs}

(* The loop ends, whatever cycles the links make: the system follows only  *)
(* so many of them in one path.                                            *)
EveryTraversalEnds == status = "called" ~> status \notin {"called", "running"}
=============================================================================
