---------------------------- MODULE DirectoryData ----------------------------
(* The data that the watched directory and the manifests have in common.   *)
CONSTANTS
    Subdirs,    \* the directories that may exist under the root
    Hashes,     \* content hashes (SHA-256 values)
    Missing     \* in place of a file or an entry that does not exist
=============================================================================
