-------------------------- MODULE WatchedDirectory --------------------------
(***************************************************************************)
(* The directory that is analysed, as other programs and the user see and  *)
(* change it.  Nothing here is the repository's code: the module models    *)
(* the file system that Infrastructure/FileSystem and                      *)
(* Infrastructure/Hashing read.                                            *)
(*                                                                         *)
(* A write replaces a file's content and sets its last-write time in one   *)
(* step: the hash provider opens files with FileShare.Read, so it never    *)
(* reads a file that some .NET program has open for writing.  The clock    *)
(* counts writes.  MaxClock bounds it.                                     *)
(***************************************************************************)
EXTENDS Integers, DirectoryData

CONSTANTS
    Names,        \* the files that may exist under the root
    Root,         \* the analysed directory
    Beneath,      \* what lies beneath each directory, at any depth
    Contents,     \* file contents
    SizeOf,       \* their sizes in bytes
    HashOf,       \* the hash of each content
    FreshStamps,  \* every write gets a later last-write time than the last one
    MaxClock      \* bound on the number of distinct last-write times

Dirs == Subdirs \cup {Root}

FileState == [content : Contents, mtime : Nat]

(* What lies directly inside directory d.                                  *)
Inside(d) == Beneath[d] \ UNION {Beneath[e] : e \in Beneath[d] \cap Subdirs}

(* The directories form a tree: those that have something in common lie    *)
(* one beneath the other, and what is not directly inside a directory is   *)
(* beneath one that is.                                                    *)
IsTree ==
    /\ \A d, e \in Dirs :
          Beneath[d] \cap Beneath[e] # {} =>
              d = e \/ d \in Beneath[e] \/ e \in Beneath[d]
    /\ \A d \in Dirs : \A x \in Beneath[d] \ Inside(d) :
          \E e \in Inside(d) \cap Subdirs : x \in Beneath[e]

ASSUME WatchedDirectoryAssumption ==
    /\ Root \notin Subdirs
    /\ Names \cap Dirs = {}
    /\ Beneath \in [Dirs -> SUBSET (Names \cup Subdirs)]
    /\ Beneath[Root] = Names \cup Subdirs
    /\ \A d, e \in Dirs : e \in Beneath[d] => Beneath[e] \subseteq Beneath[d] \ {e}
    /\ IsTree
    /\ SizeOf \in [Contents -> Nat]
    /\ HashOf \in [Contents -> Hashes]
    /\ FreshStamps \in BOOLEAN
    /\ MaxClock \in Nat
    /\ Missing \notin FileState

VARIABLES
    disk,    \* the state of each file
    dirs,    \* the directories that exist
    clock    \* the latest last-write time given to a file

diskVars == <<disk, dirs, clock>>

Exists(x) == IF x \in Names THEN disk[x] # Missing ELSE x \in dirs

FilesIn(d) == {n \in Inside(d) \cap Names : Exists(n)}

DirsIn(d) == Inside(d) \cap dirs

DiskInit ==
    /\ disk = [n \in Names |-> Missing]
    /\ dirs = {Root}
    /\ clock = 0

-----------------------------------------------------------------------------
(* File n is created or overwritten with content c, possibly the one it    *)
(* has.                                                                    *)
WriteFile(n, c) ==
    /\ \E d \in dirs : n \in Inside(d)
    /\ \E t \in IF FreshStamps THEN {clock + 1} ELSE {clock, clock + 1} :
          /\ t <= MaxClock
          /\ disk' = [disk EXCEPT ![n] = [content |-> c, mtime |-> t]]
          /\ clock' = t
    /\ UNCHANGED dirs

DeleteFile(n) ==
    /\ disk[n] # Missing
    /\ disk' = [disk EXCEPT ![n] = Missing]
    /\ UNCHANGED <<dirs, clock>>

MakeDirectory(d) ==
    /\ d \notin dirs
    /\ d = Root \/ \E e \in dirs : d \in Inside(e)
    /\ dirs' = dirs \cup {d}
    /\ UNCHANGED <<disk, clock>>

(* Only an empty directory can be removed, the root among them.            *)
RemoveDirectory(d) ==
    /\ d \in dirs
    /\ FilesIn(d) \cup DirsIn(d) = {}
    /\ dirs' = dirs \ {d}
    /\ UNCHANGED <<disk, clock>>

(* One change of what the name x stands for.                               *)
ChangeOf(x) ==
    \/ x \in Names /\ ((\E c \in Contents : WriteFile(x, c)) \/ DeleteFile(x))
    \/ x \in Dirs /\ (MakeDirectory(x) \/ RemoveDirectory(x))

-----------------------------------------------------------------------------
DiskTypeOK ==
    /\ disk \in [Names -> FileState \cup {Missing}]
    /\ dirs \in SUBSET Dirs
    /\ clock \in 0..MaxClock
    /\ \A n \in Names : Exists(n) => disk[n].mtime <= clock
=============================================================================
