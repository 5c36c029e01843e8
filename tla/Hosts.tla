-------------------------------- MODULE Hosts --------------------------------
(***************************************************************************)
(* The Api and the Web host around the analysis: which outcome of          *)
(* HandleAsync becomes which answer, and what a client can make of the     *)
(* answers it gets (Api/Program.cs, Web/Controllers/HomeController.cs).    *)
(*                                                                         *)
(* "BadRequest" is status 400 of the Api and a message at the path's field *)
(* of the Web form; "Error" is an exception that the host does not catch.  *)
(***************************************************************************)
EXTENDS AnalyzeDirectory

VARIABLES
    answer,    \* the answer to the last call of each request
    told,      \* history: the versions that the answers about a manifest tell
    lost       \* history: the manifests of which some answer was not given

hostVars == <<vars, answer, told, lost>>

Answers == {"none", "Ok", "BadRequest", "Error"}

HostInit ==
    /\ Init
    /\ answer = [r \in Requests |-> "none"]
    /\ told = [m \in Manifests |-> [p \in Paths |-> 0]]
    /\ lost = {}

-----------------------------------------------------------------------------
(* An item of the Api does not say whether it is a file or a directory     *)
(* (one of the Web host does).                                             *)
Item(change) == [path |-> change.path, version |-> change.version]

(* Mutant of MapByType: one item per path, as in a dictionary.             *)
MapByPath(r, type) ==
    LET changes == {x \in diff[r].changes : x.type = type}
        first == {x \in changes :
                     \A y \in changes : y.path = x.path => x.version <= y.version}
    IN  {Item(c) : c \in first}

MapByType(r, type) ==
    {Item(c) : c \in {x \in diff[r].changes : x.type = type}}

(* Mutant of Response: the call for the changed files is copied from the   *)
(* one for the new files.                                                  *)
ResponseWithNewTwice(r) ==
    [new |-> MapByType(r, "New"), changed |-> MapByType(r, "New"),
     deleted |-> MapByType(r, "Deleted")]

Response(r) ==
    [new |-> MapByType(r, "New"), changed |-> MapByType(r, "Changed"),
     deleted |-> MapByType(r, "Deleted")]

Gives(r, status) == answer' = [answer EXCEPT ![r] = status]

(* A blank path, or no directory at the path.                              *)
Refuse(r) ==
    /\ pc[r] = "idle"
    /\ \E blank \in BOOLEAN : blank \/ ~Exists(Root)
    /\ Gives(r, "BadRequest")
    /\ UNCHANGED <<vars, told, lost>>

Call(r) ==
    /\ Submit(r)
    /\ Gives(r, "none")
    /\ UNCHANGED <<told, lost>>

Work(r) ==
    /\ Proceed(r)
    /\ pc'[r] # "idle"
    /\ UNCHANGED <<answer, told, lost>>

(* The two kinds of exceptions that the hosts catch, and the rest.         *)
Fail(r) ==
    /\ \/ (RootVanished(r) \/ RejectScan(r)) /\ Gives(r, "BadRequest")
       \/ /\ ReadTornManifest(r) \/ SharingViolation(r) \/ VersionOverflow(r)
          /\ Gives(r, "Error")
    /\ UNCHANGED <<told, lost>>

(* Who knows the versions in `table` and reads a response has these ones.  *)
(* Only directories are deleted with version 0.                            *)
After(table, response) ==
    LET Versions(items, p) == {i.version : i \in {j \in items : j.path = p}}
        stays(p) == Versions(response.new \cup response.changed, p)
    IN  [p \in Paths |->
            IF stays(p) # {} THEN CHOOSE v \in stays(p) : TRUE
            ELSE IF Versions(response.deleted, p) \ {0} # {} THEN 0
            ELSE table[p]]

Succeed(r) ==
    /\ Return(r)
    /\ Gives(r, "Ok")
    /\ told' = [told EXCEPT ![ManifestOf[r]] = After(@, Response(r))]
    /\ UNCHANGED lost

(* The manifests that the requests R have begun to write.                  *)
Unreported(R) ==
    {ManifestOf[r] : r \in {q \in R : pc[q] \in {"writing", "saved"}}}

(* The client has hung up; or an exception ends the request, among them    *)
(* DirectoryNotFoundException when the manifest's directory is gone.       *)
Interrupt(r) ==
    /\ \/ CancelQueued(r) /\ Gives(r, "none")
       \/ Abort(r) /\ \E status \in Answers \ {"Ok"} : Gives(r, status)
    /\ lost' = lost \cup Unreported({r})
    /\ UNCHANGED told

Die(h) ==
    /\ Crash(h)
    /\ answer' = [r \in Requests |->
                     IF HostOf[r] = h THEN "none" ELSE answer[r]]
    /\ lost' = lost \cup Unreported({r \in Requests : HostOf[r] = h})
    /\ UNCHANGED told

HostNext ==
    \/ \E r \in Requests :
          Refuse(r) \/ Call(r) \/ Work(r) \/ Fail(r) \/ Succeed(r) \/ Interrupt(r)
    \/ \E h \in Hosts : Die(h)
    \/ (\E x \in Names \cup Dirs : Environment(x)) /\ UNCHANGED <<answer, told, lost>>

HostSpec == HostInit /\ [][HostNext]_hostVars
-----------------------------------------------------------------------------
(* A client that reads every answer knows the version of every file: what  *)
(* ends with BadRequest or Error has stored nothing, what ends with Ok     *)
(* tells every change of the manifest once, and although the lists of the  *)
(* Api mix files and directories, whose paths may be the same, they can be *)
(* told apart.  Only an answer that was cut off during or after the save   *)
(* is missed: its changes are never reported again.                        *)
ClientsCanFollow ==
    \A m \in Manifests \ lost :
        (\A r \in Requests : ManifestOf[r] = m => pc[r] \notin {"writing", "saved"})
        => told[m] = [p \in Paths |->
                         LET entry == PreviousFiles(manifest[m])[p]
                         IN  IF entry = Missing THEN 0 ELSE entry.version]
=============================================================================
