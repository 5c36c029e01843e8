------------------------------ MODULE FileTree ------------------------------
(***************************************************************************)
(* The file system as paths see it: where a path leads, what a directory   *)
(* enumerates, what lies beneath a root.  Nothing here is the repository's *)
(* code; it is what Infrastructure/FileSystem and Infrastructure/Storage   *)
(* call.                                                                   *)
(*                                                                         *)
(* A place is the path of a file or directory with its links resolved and, *)
(* where case does not matter, in lower case.                              *)
(***************************************************************************)
EXTENDS ManifestPath

CONSTANTS
    CaseSensitive,  \* whether names that differ in case are different
    Links,          \* the places of symbolic links, with their targets
    MaxLinks        \* how many links the system follows in one path

ASSUME FileTreeAssumption ==
    /\ CaseSensitive \in BOOLEAN
    /\ MaxLinks \in Nat

VARIABLES
    content,   \* the files: a function from their places to what is in them
    folders    \* the places of the directories

treeVars == <<content, folders>>

-----------------------------------------------------------------------------
Stored(name) == IF CaseSensitive THEN name ELSE FoldName(name)

(* One more name is looked up in a place that was reached over some links. *)
Follow(reached, name) ==
    LET place == Append(reached.place, Stored(name))
    IN  IF place \in DOMAIN Links
        THEN [place |-> Links[place], links |-> reached.links + 1]
        ELSE [place |-> place, links |-> reached.links]

Reached(path) ==
    LET names == Trim(path)
        reached[i \in 0..Len(names)] ==
            IF i = 0 THEN [place |-> << >>, links |-> 0]
            ELSE Follow(reached[i - 1], names[i])
    IN  reached[Len(names)]

Place(path) == Reached(path).place

Openable(path) == Reached(path).links <= MaxLinks

DirectoryExists(path) == Openable(path) /\ Place(path) \in folders

(* The entries of a directory, as paths that begin with its own.  A link   *)
(* to a directory is listed as one, a link that leads nowhere as a file.   *)
Entries(path) ==
    {Append(Trim(path), place[Len(place)]) :
        place \in {p \in DOMAIN content \cup folders \cup DOMAIN Links :
                      p # << >> /\ Front(p) = Place(path)}}

EnumerateDirectories(path) == {e \in Entries(path) : DirectoryExists(e)}

EnumerateFiles(path) == {e \in Entries(path) : ~DirectoryExists(e)}

(* Directory.CreateDirectory: a place and all that is above it.            *)
WithParents(place) == {SubSeq(place, 1, i) : i \in 0..Len(place)}

(* Path.GetRelativePath of a path that begins with the root's.             *)
RelativePath(root, path) == SubSeq(path, Len(Trim(root)) + 1, Len(path))
=============================================================================
