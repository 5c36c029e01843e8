---------------------------- MODULE ManifestDiff ----------------------------
(***************************************************************************)
(* Manifest snapshots and their difference                                 *)
(* (Domain/Services/ManifestDiffService.cs and the entities it works on).  *)
(*                                                                         *)
(* A snapshot's Files dictionary is a total function from the relative     *)
(* paths to entries, Missing where the dictionary has no key.  Its keys    *)
(* and its directories are compared without regard to case, so Paths are   *)
(* the relative paths up to case.  Sizes and times are natural numbers.    *)
(***************************************************************************)
EXTENDS Integers, DirectoryData

CONSTANTS
    Paths,      \* relative file paths, case ignored
    MaxInt,     \* Int32.MaxValue: versions wrap around beyond it
    Absent      \* the snapshot of a root that has no manifest (null)

Entry == [size : Nat, mtime : Nat, hash : Hashes, version : 1..MaxInt]

FileTable == [Paths -> Entry \cup {Missing}]

Snapshot == [files : FileTable, dirs : SUBSET Subdirs]

ChangeRecord ==
    [path : Paths \cup Subdirs, kind : {"File", "Directory"},
     type : {"New", "Changed", "Deleted"}, version : 0..MaxInt]

DiffResult == [next : Snapshot, changes : SUBSET ChangeRecord]

ASSUME ManifestDiffAssumption ==
    /\ MaxInt \in Nat \ {0}
    /\ Missing \notin Entry
    /\ Absent \notin Snapshot

NoFiles == [p \in Paths |-> Missing]

Known(files) == {p \in Paths : files[p] # Missing}

PreviousFiles(prev) == IF prev = Absent THEN NoFiles ELSE prev.files

PreviousDirectories(prev) == IF prev = Absent THEN {} ELSE prev.dirs

-----------------------------------------------------------------------------
(* `previous.Version + 1` on an int, which no checked context guards.      *)
Increment(version) ==
    IF version < MaxInt THEN version + 1 ELSE -MaxInt - 1

(* Mutant of HasContentChanged: the metadata decide, not the content.      *)
HasMetadataChanged(previous, current) ==
    previous.size # current.size \/ previous.mtime # current.mtime

HasContentChanged(previous, current) == previous.hash # current.hash

(* Mutants of NextVersion: the version counts the analyses; the change     *)
(* keeps the version.                                                      *)
VersionPerAnalysis(previous, current) == Increment(previous.version)

VersionKept(previous, current) == previous.version

NextVersion(previous, current) ==
    IF HasContentChanged(previous, current)
    THEN Increment(previous.version)
    ELSE previous.version

(* The entry of a path in the next snapshot: CreateNew starts at version   *)
(* 1, and the version that the current state carries is never used.        *)
NextEntry(previous, current) ==
    [current EXCEPT !.version =
        IF previous = Missing THEN 1 ELSE NextVersion(previous, current)]

NextFiles(prev, files) ==
    [p \in Paths |-> IF files[p] = Missing
                     THEN Missing
                     ELSE NextEntry(PreviousFiles(prev)[p], files[p])]

(* Mutant of DiffThrows: any version is taken.                             *)
NeverThrows(prev, files) == FALSE

(* The constructor of FileManifestEntry rejects a version below 1.         *)
DiffThrows(prev, files) ==
    \E p \in Known(files) : NextFiles(prev, files)[p].version < 1

-----------------------------------------------------------------------------
Change(path, kind, type, version) ==
    [path |-> path, kind |-> kind, type |-> type, version |-> version]

NewFiles(prev, files) ==
    {Change(p, "File", "New", 1) :
        p \in Known(files) \ Known(PreviousFiles(prev))}

ChangedFiles(prev, files) ==
    {Change(p, "File", "Changed", NextFiles(prev, files)[p].version) :
        p \in {q \in Known(files) \cap Known(PreviousFiles(prev)) :
                  HasContentChanged(PreviousFiles(prev)[q], files[q])}}

(* Mutant of DeletedFiles: the loop reports what the new state lacks only  *)
(* when it found nothing at all.                                           *)
DeletedFilesWhenEmpty(prev, files) ==
    {Change(p, "File", "Deleted", PreviousFiles(prev)[p].version) :
        p \in {q \in Known(PreviousFiles(prev)) : Known(files) = {}}}

DeletedFiles(prev, files) ==
    {Change(p, "File", "Deleted", PreviousFiles(prev)[p].version) :
        p \in Known(PreviousFiles(prev)) \ Known(files)}

DeletedDirectories(prev, dirs) ==
    {Change(d, "Directory", "Deleted", 0) :
        d \in PreviousDirectories(prev) \ dirs}

Changes(prev, files, dirs) ==
    NewFiles(prev, files) \cup ChangedFiles(prev, files)
        \cup DeletedFiles(prev, files) \cup DeletedDirectories(prev, dirs)

(* ManifestDiffService.Diff, when it does not throw.                       *)
Diff(prev, files, dirs) ==
    [next    |-> [files |-> NextFiles(prev, files), dirs |-> dirs],
     changes |-> Changes(prev, files, dirs)]

NoDiff == [next |-> [files |-> NoFiles, dirs |-> {}], changes |-> {}]

-----------------------------------------------------------------------------
(* What the results are for: reference definitions, not code.              *)

(* Snapshot `next` may follow `prev` in the history of a root: a file      *)
(* starts at version 1 and moves on by exactly 1 when its content does.    *)
Succeeds(prev, next) ==
    \A p \in Known(next.files) :
        LET old == PreviousFiles(prev)[p]
            new == next.files[p]
        IN  new.version = IF old = Missing THEN 1
                          ELSE IF old.hash = new.hash THEN old.version
                          ELSE old.version + 1

(* Reading a report with the previous versions in hand gives the versions  *)
(* of the next snapshot: what the user is shown loses and invents nothing. *)
ReportExplains(prev, diff) ==
    LET old == PreviousFiles(prev)
        new == diff.next.files
        About(p) == {c \in diff.changes : c.kind = "File" /\ c.path = p}
    IN  /\ \A p \in Paths :
              /\ old[p] = Missing /\ new[p] = Missing => About(p) = {}
              /\ old[p] = Missing /\ new[p] # Missing =>
                    About(p) = {Change(p, "File", "New", new[p].version)}
              /\ old[p] # Missing /\ new[p] = Missing =>
                    About(p) = {Change(p, "File", "Deleted", old[p].version)}
              /\ old[p] # Missing /\ new[p] # Missing =>
                    About(p) = IF old[p].hash = new[p].hash THEN {}
                               ELSE {Change(p, "File", "Changed", new[p].version)}
        /\ {c.path : c \in {c \in diff.changes : c.kind = "Directory"}}
              = PreviousDirectories(prev) \ diff.next.dirs
=============================================================================
