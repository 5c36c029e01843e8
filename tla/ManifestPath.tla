---------------------------- MODULE ManifestPath ----------------------------
(***************************************************************************)
(* How a root path becomes a lock and a manifest file, and what a scan     *)
(* leaves out: Infrastructure/Storage/ManifestPathResolver.cs, the key of  *)
(* KeyedAnalysisLockService and the ignored directory of                   *)
(* FileSystemTraversalService.                                             *)
(*                                                                         *)
(* A full path is the sequence of its names.  A trailing separator, which  *)
(* Path.GetFullPath keeps, is a last name of its own (Separator).  The     *)
(* file and directory names that the resolver makes up are records, so     *)
(* that no other name equals one.                                          *)
(***************************************************************************)
EXTENDS StorageConfiguration, Sequences, SequencesExt

CONSTANTS
    FullPaths,    \* the full paths that requests give for their roots
    Folded,       \* the names that have letters, in lower case
    Separator,    \* the empty name behind a trailing separator
    AppData,      \* Environment.SpecialFolder.ApplicationData
    SafeName,     \* each full path with its invalid characters replaced
    Digest,       \* twelve hexadecimal digits of its SHA-256 value
    ManifestStem, \* the name "manifest"
    NoDirectory   \* no directory is ignored (null)

ASSUME ManifestPathAssumption ==
    \A p, q \in FullPaths : Digest[p] = Digest[q] => p = q

-----------------------------------------------------------------------------
(* Ordinal comparison of paths that ignores case.                          *)
FoldName(name) == IF name \in DOMAIN Folded THEN Folded[name] ELSE name

FoldPath(path) == [i \in DOMAIN path |-> FoldName(path[i])]

(* TrimEnd of the separators; a full path ends in one at most.             *)
Trim(path) ==
    IF path # << >> /\ path[Len(path)] = Separator
    THEN SubSeq(path, 1, Len(path) - 1)
    ELSE path

(* Path.Combine: a rooted second path replaces the first.                  *)
Combine(path, base) == IF base.rooted THEN base.names ELSE Trim(path) \o base.names

IsSameOrSubPath(path, parent) ==
    IsPrefix(FoldPath(Trim(parent)), FoldPath(Trim(path)))

(* Mutant of LockKey: the dictionary compares its keys ordinally.          *)
LockKeyAsSpelled(root) == root

(* The key of _locks: the full path, compared with case ignored.           *)
LockKey(root) == FoldPath(root)

-----------------------------------------------------------------------------
(* Mutant of Fingerprint: the digest is left off.                          *)
SafeNameOnly(root) == [safe |-> SafeName[root], digest |-> 0]

Fingerprint(root) == [safe |-> SafeName[root], digest |-> Digest[root]]

Extension(settings) ==
    IF StorageFormat(settings) = MessagePack
    THEN ".manifest.msgpack" ELSE ".manifest.json"

(* PerRoot: the store is in the root itself, or at the base path.          *)
PerRootDirectory(settings, root) ==
    IF BasePath(settings) = Blank THEN Trim(root)
    ELSE Combine(root, BasePath(settings))

(* AppData: a directory for each root, below the base path.                *)
AppDataDirectory(settings, root) ==
    LET base == IF BasePath(settings) = Blank
                THEN DefaultBasePath ELSE BasePath(settings)
    IN  Append(Combine(AppData, base), Fingerprint(root))

StorageDirectory(settings, root) ==
    IF Mode(settings) = PerRootMode
    THEN PerRootDirectory(settings, root)
    ELSE AppDataDirectory(settings, root)

ManifestName(settings, root) ==
    [stem      |-> IF Mode(settings) = PerRootMode
                   THEN Fingerprint(root) ELSE ManifestStem,
     extension |-> Extension(settings)]

ResolveManifestPath(settings, root) ==
    Append(StorageDirectory(settings, root), ManifestName(settings, root))

-----------------------------------------------------------------------------
(* Mutants of IgnoredDirectory: the mode does not matter; the test for a   *)
(* blank base path is the wrong way round.                                 *)
IgnoredInAnyMode(settings, root) ==
    IF BasePath(settings) # Blank
    THEN Combine(root, BasePath(settings))
    ELSE NoDirectory

IgnoredWhenBlank(settings, root) ==
    IF Mode(settings) = PerRootMode /\ BasePath(settings) = Blank
    THEN Trim(root)
    ELSE NoDirectory

IgnoredDirectory(settings, root) ==
    IF Mode(settings) = PerRootMode /\ BasePath(settings) # Blank
    THEN Combine(root, BasePath(settings))
    ELSE NoDirectory

Ignored(settings, root, path) ==
    LET ignored == IgnoredDirectory(settings, root)
    IN  ignored # NoDirectory /\ IsSameOrSubPath(path, ignored)

(* Mutant of RepositoryFormat: whatever is not Json is MessagePack.        *)
MessagePackUnlessJson(settings) ==
    IF StorageFormat(settings) = Json THEN "json" ELSE "msgpack"

(* GetRepository: the format in which a manifest is read and written.      *)
RepositoryFormat(settings) ==
    IF StorageFormat(settings) = MessagePack THEN "msgpack" ELSE "json"
=============================================================================
