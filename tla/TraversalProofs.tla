-------------------------- MODULE TraversalProofs --------------------------
(***************************************************************************)
(* Proof that a traversal which returns has found exactly the tree, for    *)
(* any tree, links, settings, access rights and failures.                  *)
(*                                                                         *)
(* The code keeps no record of the directories that it has enumerated, and *)
(* neither does the model: the invariant says that there is a set V of     *)
(* them, of which what is found, pending and skipped so far follows.  What *)
(* is found is compared with a reference definition that goes level by     *)
(* level, so the proof has two directions: whatever is in some level was   *)
(* enumerated, and whatever was enumerated is in some level, since the     *)
(* system does not follow more than MaxLinks links.                        *)
(***************************************************************************)
EXTENDS Traversal, FileTreeProofs

CONSTANTS
    Names,    \* the names that paths are made of
    Deepest   \* the greatest number of names in the place of a directory

(* Names are names, full paths end in one separator at most, and MaxDepth, *)
(* which bounds the reference definition, is beyond what can be reached:   *)
(* a path goes down from the root or from a link at most Deepest names.    *)
InstanceIsProper ==
    /\ LooksUp(Names)
    /\ FullPaths \subseteq Seq(Names)
    /\ \A p \in FullPaths : Trimmed(Trim(p))
    /\ Deepest \in Nat
    /\ MaxDepth \in Nat
    /\ MaxDepth > MaxLinks * (Deepest + 1) + Deepest
    /\ \A tree \in Trees :
          /\ ProperPlaces(Names, DOMAIN tree.content \cup tree.folders \cup DOMAIN Links)
          /\ \A p \in tree.folders : Len(p) <= Deepest

TaskInv ==
    /\ root \in FullPaths
    /\ TreeIsProper(Names)
    /\ \A p \in folders : Len(p) <= Deepest

-----------------------------------------------------------------------------
Top == Trim(root)

(* No deeper than its links and its place allow.                           *)
Near(path) == Len(path) - Len(Top) <= Reached(path).links * (Deepest + 1) + Len(Place(path))

Visitable(path) ==
    /\ path \in Seq(Names)
    /\ Trimmed(path)
    /\ DirectoryExists(path)
    /\ Len(Top) <= Len(path)
    /\ Near(path)

LEMMA MoreLinks ==
    ASSUME NEW n \in Nat, NEW k \in Nat
    PROVE  (n + 1) * k = n * k + k /\ n * k \in Nat
OBVIOUS

LEMMA FewerLinks ==
    ASSUME NEW n \in Nat, NEW m \in Nat, NEW k \in Nat, n <= m
    PROVE  n * k <= m * k
<1>1. PICK d \in Nat : m = n + d
  <2>1. m - n \in Nat /\ m = n + (m - n)
    OBVIOUS
  <2>2. QED
    BY <2>1
<1>2. m * k = n * k + d * k /\ d * k \in Nat /\ n * k \in Nat
  BY <1>1
<1>3. QED
  BY <1>2

LEMMA RootIsVisitable ==
    ASSUME InstanceIsProper, TaskInv, DirectoryExists(root)
    PROVE  Visitable(Top)
<1>1. root \in Seq(Names) /\ Trimmed(Top)
  BY DEF InstanceIsProper, TaskInv, Top
<1>2. Top \in Seq(Names)
  BY <1>1, TrimType DEF Top
<1>3. DirectoryExists(Top)
  BY <1>1, TrimChangesNothing DEF Top
<1>4. Reached(Top).links \in Nat /\ Place(Top) \in Seq(Names)
  BY <1>2, ReachedType DEF InstanceIsProper, Reaches, Place
<1>5. Reached(Top).links * (Deepest + 1) \in Nat
  <2>1. Deepest + 1 \in Nat
    BY DEF InstanceIsProper
  <2>2. QED
    BY <1>4, <2>1, MoreLinks
<1>6. Len(Top) \in Nat /\ Len(Place(Top)) \in Nat
  BY <1>2, <1>4, LenProperties
<1>7. Near(Top)
  BY <1>5, <1>6 DEF Near
<1>8. QED
  BY <1>1, <1>2, <1>3, <1>6, <1>7 DEF Visitable

LEMMA EntryIsVisitable ==
    ASSUME InstanceIsProper, TaskInv, NEW p, Visitable(p),
           NEW e \in Entries(p), DirectoryExists(e)
    PROVE  Visitable(e)
<1>1. p \in Seq(Names) /\ Trimmed(p) /\ TreeIsProper(Names) /\ LooksUp(Names)
  BY DEF Visitable, TaskInv, InstanceIsProper
<1>2. e \in Seq(Names) /\ Trimmed(e) /\ Len(e) = Len(p) + 1 /\ Len(p) \in Nat
  BY <1>1, EntryIsChild
<1>3. PICK n \in Names : n # Separator /\ e = Append(p, n)
  BY <1>1, EntriesParts
<1>4. Reached(e) = Follow(Reached(p), n)
  BY <1>1, <1>3, ReachedAppend
<1> DEFINE place == Reached(p).place
           links == Reached(p).links
<1>5. place \in Seq(Names) /\ links \in Nat /\ Stored(n) \in Names
  BY <1>1, ReachedType DEF Reaches, LooksUp
<1>6. Len(place) \in Nat /\ Len(place) <= Deepest /\ Deepest \in Nat
  BY <1>5, LenProperties DEF Visitable, DirectoryExists, Place, TaskInv, InstanceIsProper
<1>7. Len(Append(place, Stored(n))) = Len(place) + 1
  BY <1>5, AppendParts
<1>8. Len(Top) \in Nat
  BY TrimType, LenProperties DEF Top, TaskInv, InstanceIsProper
<1>9. Len(p) - Len(Top) <= links * (Deepest + 1) + Len(place)
  BY DEF Visitable, Near, Place
<1>10. /\ links * (Deepest + 1) \in Nat
       /\ (links + 1) * (Deepest + 1) = links * (Deepest + 1) + (Deepest + 1)
  <2>1. Deepest + 1 \in Nat
    BY <1>6
  <2>2. QED
    BY <1>5, <2>1, MoreLinks
<1>11. Near(e)
  <2>1. CASE Append(place, Stored(n)) \in DOMAIN Links
    <3>1. /\ Reached(e).links = links + 1
          /\ Place(e) = Links[Append(place, Stored(n))]
      BY <1>4, <2>1 DEF Follow, Place
    <3>2. Len(Place(e)) \in Nat
      BY <1>1, <2>1, <3>1, LenProperties DEF LooksUp
    <3> HIDE DEF place, links
    <3>3. QED
      BY <1>2, <1>6, <1>8, <1>9, <1>10, <3>1, <3>2 DEF Near
  <2>2. CASE Append(place, Stored(n)) \notin DOMAIN Links
    <3>1. Reached(e).links = links /\ Len(Place(e)) = Len(place) + 1
      BY <1>4, <1>7, <2>2 DEF Follow, Place
    <3> HIDE DEF place, links
    <3>2. QED
      BY <1>2, <1>6, <1>8, <1>9, <1>10, <3>1 DEF Near
  <2>3. QED
    BY <2>1, <2>2
<1>12. Len(Top) <= Len(e)
  BY <1>2, <1>8 DEF Visitable
<1>13. QED
  BY <1>2, <1>11, <1>12 DEF Visitable

(* Whatever is visited is at a depth that the levels reach, and so are its *)
(* entries.                                                                *)
LEMMA VisitableIsShallow ==
    ASSUME InstanceIsProper, TaskInv, NEW p, Visitable(p)
    PROVE  Len(p) - Len(Top) \in Nat /\ Len(p) - Len(Top) < MaxDepth
<1>1. Reached(p).links \in Nat /\ Place(p) \in Seq(Names)
  BY ReachedType DEF InstanceIsProper, Visitable, Reaches, Place
<1>2. Reached(p).links <= MaxLinks /\ MaxLinks \in Nat
  BY FileTreeAssumption DEF Visitable, DirectoryExists, Openable
<1>3. /\ Deepest + 1 \in Nat /\ Deepest \in Nat /\ MaxDepth \in Nat
      /\ MaxDepth > MaxLinks * (Deepest + 1) + Deepest
  BY DEF InstanceIsProper
<1>4. Len(Place(p)) \in Nat /\ Len(Place(p)) <= Deepest
  BY <1>1, LenProperties DEF Visitable, DirectoryExists, TaskInv
<1>5. Len(Top) \in Nat /\ Len(p) \in Nat /\ Len(Top) <= Len(p)
  BY TrimType, LenProperties DEF Top, TaskInv, InstanceIsProper, Visitable
<1>6. /\ Reached(p).links * (Deepest + 1) <= MaxLinks * (Deepest + 1)
      /\ Reached(p).links * (Deepest + 1) \in Nat
      /\ MaxLinks * (Deepest + 1) \in Nat
  BY <1>1, <1>2, <1>3, FewerLinks, MoreLinks
<1>7. Len(p) - Len(Top) <= Reached(p).links * (Deepest + 1) + Len(Place(p))
  BY DEF Visitable, Near
<1>8. QED
  BY <1>3, <1>4, <1>5, <1>6, <1>7

-----------------------------------------------------------------------------
Kids(V) == UNION {Subdirectories(p) : p \in V}

Leaves(V) == UNION {Files(p) : p \in V}

Listed(V) == UNION {Entries(p) : p \in V}

(* The directories in V are those that were enumerated; whatever they list *)
(* is pending, skipped, ignored, enumerated in its turn or in the result.  *)
Explored(V) ==
    /\ \A p \in V :
          /\ Visitable(p)
          /\ ~IsIgnored(p)
          /\ p \notin skipped
          /\ p = Top \/ p \in Kids(V)
    /\ \A p \in pendingDirectories :
          /\ p = root \/ p \in Kids(V)
          /\ Trim(p) \notin V \cup skipped
    /\ skipped \subseteq {Top} \cup Listed(V)
    /\ \/ Top \in V \cup skipped
       \/ root \in pendingDirectories
       \/ IsIgnored(Top)
    /\ Kids(V) \subseteq V \cup pendingDirectories \cup skipped
    /\ result = {RelativePath(root, f) : f \in Leaves(V) \ skipped}
    /\ directories = {FoldPath(RelativePath(root, k)) : k \in Kids(V)}

TraversalInv ==
    /\ TaskInv
    /\ status = "called" => result = {} /\ directories = {} /\ skipped = {}
    /\ status \in {"running", "returned"} =>
          DirectoryExists(root) /\ \E V : Explored(V)
    /\ status = "returned" => pendingDirectories = {}

LEMMA KidsAndLeavesAreListed ==
    ASSUME NEW V
    PROVE  /\ Kids(V) \subseteq Listed(V)
           /\ Leaves(V) \subseteq Listed(V)
           /\ \A k \in Kids(V) : DirectoryExists(k) /\ ~IsIgnored(k)
           /\ \A f \in Leaves(V) : ~DirectoryExists(f) /\ ~IsIgnored(f)
BY DEF Kids, Leaves, Listed, Subdirectories, Files, EnumerateDirectories, EnumerateFiles

LEMMA ListedIsBelow ==
    ASSUME InstanceIsProper, TaskInv, NEW V, \A p \in V : Visitable(p), NEW e \in Listed(V)
    PROVE  e \in Seq(Names) /\ Trimmed(e) /\ Len(e) \in Nat /\ Len(e) > Len(Top)
<1>1. PICK p \in V : e \in Entries(p)
  BY DEF Listed
<1>2. p \in Seq(Names) /\ Trimmed(p) /\ Len(Top) <= Len(p) /\ TreeIsProper(Names)
  BY DEF Visitable, TaskInv
<1>3. e \in Seq(Names) /\ Trimmed(e) /\ Len(e) = Len(p) + 1 /\ Len(p) \in Nat
  BY <1>1, <1>2, EntryIsChild
<1>4. Len(Top) \in Nat
  BY TrimType, LenProperties DEF Top, TaskInv, InstanceIsProper
<1>5. QED
  BY <1>2, <1>3, <1>4

(* What a directory lists that was not enumerated yet is new.              *)
LEMMA EntriesAreFresh ==
    ASSUME InstanceIsProper, TaskInv, NEW V, Explored(V),
           NEW p, Visitable(p), p \notin V, NEW e \in Entries(p)
    PROVE  /\ e # Top /\ e # root
           /\ e \notin Listed(V)
           /\ e \notin V
           /\ e \notin pendingDirectories
           /\ e \notin skipped
<1>1. p \in Seq(Names) /\ Trimmed(p) /\ TreeIsProper(Names)
  BY DEF Visitable, TaskInv
<1>2. e \in Seq(Names) /\ Trimmed(e) /\ Len(e) > Len(Top)
  <2>1. \A q \in {p} : Visitable(q)
    OBVIOUS
  <2>2. e \in Listed({p})
    BY DEF Listed
  <2>3. QED
    BY <2>1, <2>2, ListedIsBelow
<1>3. e # Top
  <2>1. Len(Top) \in Nat
    BY TrimType, LenProperties DEF Top, TaskInv, InstanceIsProper
  <2>2. QED
    BY <1>2, <2>1
<1>4. e # root
  BY <1>2, <1>3 DEF Trimmed, Top
<1>5. e \notin Listed(V)
  <2> SUFFICES ASSUME e \in Listed(V) PROVE FALSE
    OBVIOUS
  <2>1. PICK q \in V : e \in Entries(q)
    BY DEF Listed
  <2>2. q \in Seq(Names) /\ Trimmed(q)
    BY <2>1 DEF Explored, Visitable
  <2>3. p = q
    BY <1>1, <2>1, <2>2, OneParent
  <2>4. QED
    BY <2>1, <2>3
<1>6. e \notin Kids(V)
  BY <1>5, KidsAndLeavesAreListed
<1>7. QED
  BY <1>3, <1>4, <1>5, <1>6 DEF Explored

(* A pending directory is one to visit, without its trailing separator.    *)
LEMMA PendingIsVisitable ==
    ASSUME InstanceIsProper, TaskInv, DirectoryExists(root), NEW V, Explored(V),
           NEW path \in pendingDirectories
    PROVE  /\ Visitable(Trim(path))
           /\ Trimmed(Trim(path))
           /\ Trim(path) \notin V \cup skipped
           /\ Trim(path) = Top \/ Trim(path) \in Kids(V)
<1>1. Trim(path) \notin V \cup skipped
  BY DEF Explored
<1>2. CASE path = root
  <2>1. Visitable(Top)
    BY RootIsVisitable
  <2>2. QED
    BY <1>1, <1>2, <2>1 DEF Top, Visitable
<1>3. CASE path \in Kids(V)
  <2>1. PICK p \in V : path \in Entries(p)
    BY <1>3, KidsAndLeavesAreListed DEF Listed
  <2>2. Visitable(p) /\ DirectoryExists(path)
    BY <1>3, <2>1, KidsAndLeavesAreListed DEF Explored
  <2>3. Visitable(path)
    BY <2>1, <2>2, EntryIsVisitable
  <2>4. QED
    BY <1>1, <1>3, <2>3 DEF Visitable, Trimmed
<1>4. QED
  BY <1>2, <1>3 DEF Explored

(* The root is pending under no other name.                                *)
LEMMA PendingDiffer ==
    ASSUME InstanceIsProper, TaskInv, NEW V, Explored(V),
           NEW p \in pendingDirectories, NEW q \in pendingDirectories, Trim(p) = Trim(q)
    PROVE  p = q
<1>1. \A k \in Kids(V) : Trim(k) = k /\ k # Top
  <2>1. ASSUME NEW k \in Kids(V)
        PROVE  Trimmed(k) /\ Len(k) \in Nat /\ Len(k) > Len(Top)
    BY <2>1, KidsAndLeavesAreListed, ListedIsBelow DEF Explored
  <2>2. Len(Top) \in Nat
    BY TrimType, LenProperties DEF Top, TaskInv, InstanceIsProper
  <2>3. QED
    BY <2>1, <2>2 DEF Trimmed
<1>2. QED
  BY <1>1 DEF Explored, Top

-----------------------------------------------------------------------------
LEMMA SameTask ==
    ASSUME UNCHANGED taskVars
    PROVE  /\ TaskInv' = TaskInv
           /\ Top' = Top
           /\ \A p : /\ IsIgnored(p)' = IsIgnored(p)
                     /\ DirectoryExists(p)' = DirectoryExists(p)
                     /\ Visitable(p)' = Visitable(p)
                     /\ Entries(p)' = Entries(p)
                     /\ Subdirectories(p)' = Subdirectories(p)
                     /\ Files(p)' = Files(p)
           /\ \A V : Kids(V)' = Kids(V) /\ Leaves(V)' = Leaves(V) /\ Listed(V)' = Listed(V)
<1>1. content' = content /\ folders' = folders /\ root' = root /\ settings' = settings
  BY DEF taskVars, treeVars
<1>2. Top' = Top
  BY <1>1 DEF Top
<1>3. TaskInv' = TaskInv
  BY <1>1 DEF TaskInv, TreeIsProper
<1>4. ASSUME NEW p
      PROVE  /\ IsIgnored(p)' = IsIgnored(p)
             /\ DirectoryExists(p)' = DirectoryExists(p)
             /\ Entries(p)' = Entries(p)
  BY <1>1 DEF IsIgnored, DirectoryExists, Entries
<1>5. ASSUME NEW p
      PROVE  Visitable(p)' = Visitable(p)
  BY <1>1, <1>2, <1>4 DEF Visitable, Near
<1>6. ASSUME NEW p
      PROVE  Subdirectories(p)' = Subdirectories(p) /\ Files(p)' = Files(p)
  BY <1>4 DEF Subdirectories, Files, EnumerateDirectories, EnumerateFiles
<1>7. ASSUME NEW V
      PROVE  Kids(V)' = Kids(V) /\ Leaves(V)' = Leaves(V) /\ Listed(V)' = Listed(V)
  BY <1>4, <1>6 DEF Kids, Leaves, Listed
<1>8. QED
  BY <1>2, <1>3, <1>4, <1>5, <1>6, <1>7

(* The conjuncts of Explored of which a step may change something.         *)
LEMMA StillExplored ==
    ASSUME UNCHANGED taskVars, NEW V, NEW W,
           \A p \in W : /\ Visitable(p)
                        /\ ~IsIgnored(p)
                        /\ p \notin skipped'
                        /\ p = Top \/ p \in Kids(W),
           \A p \in pendingDirectories' : /\ p = root \/ p \in Kids(W)
                                          /\ Trim(p) \notin W \cup skipped',
           skipped' \subseteq {Top} \cup Listed(W),
           \/ Top \in W \cup skipped'
           \/ root \in pendingDirectories'
           \/ IsIgnored(Top),
           Kids(W) \subseteq W \cup pendingDirectories' \cup skipped',
           result' = {RelativePath(root, f) : f \in Leaves(W) \ skipped'},
           directories' = {FoldPath(RelativePath(root, k)) : k \in Kids(W)}
    PROVE  Explored(W)'
<1>1. root' = root
  BY DEF taskVars
<1>2. QED
  BY <1>1, SameTask DEF Explored

LEMMA PassOverKeeps ==
    ASSUME InstanceIsProper, TaskInv, DirectoryExists(root), NEW V, Explored(V),
           NEW path \in pendingDirectories, PassOver(path)
    PROVE  Explored(V)'
<1>1. /\ UNCHANGED taskVars /\ UNCHANGED resultVars
      /\ pendingDirectories' = pendingDirectories \ {path}
      /\ IsIgnored(path)
  BY DEF PassOver, Pop
<1>2. skipped' = skipped /\ result' = result /\ directories' = directories
  BY <1>1 DEF resultVars
<1>3. path \notin Kids(V)
  BY <1>1, KidsAndLeavesAreListed
<1>4. path = root
  BY <1>3 DEF Explored
<1>5. IsIgnored(Top)
  <2>1. Trimmed(Trim(root))
    BY DEF TaskInv, InstanceIsProper
  <2>2. QED
    BY <1>1, <1>4, <2>1, TrimChangesNothing DEF IsIgnored, Top
<1>6. \A p \in V : /\ Visitable(p)
                   /\ ~IsIgnored(p)
                   /\ p \notin skipped'
                   /\ p = Top \/ p \in Kids(V)
  BY <1>2 DEF Explored
<1>7. \A p \in pendingDirectories' : /\ p = root \/ p \in Kids(V)
                                     /\ Trim(p) \notin V \cup skipped'
  BY <1>1, <1>2 DEF Explored
<1>8. /\ result' = {RelativePath(root, f) : f \in Leaves(V) \ skipped'}
      /\ directories' = {FoldPath(RelativePath(root, k)) : k \in Kids(V)}
  BY <1>2 DEF Explored
<1>9. /\ skipped' \subseteq {Top} \cup Listed(V)
      /\ Kids(V) \subseteq V \cup pendingDirectories' \cup skipped'
  BY <1>1, <1>2, <1>3 DEF Explored
<1>10. QED
  BY <1>1, <1>5, <1>6, <1>7, <1>8, <1>9, StillExplored

LEMMA SkipKeeps ==
    ASSUME InstanceIsProper, TaskInv, DirectoryExists(root), NEW V, Explored(V),
           NEW path \in pendingDirectories, SkipInaccessible(path)
    PROVE  Explored(V)'
<1>1. /\ UNCHANGED taskVars
      /\ pendingDirectories' = pendingDirectories \ {path}
      /\ skipped' = skipped \cup {Trim(path)}
      /\ result' = result /\ directories' = directories
  BY DEF SkipInaccessible, Pop
<1>2. /\ Visitable(Trim(path))
      /\ Trim(path) \notin V \cup skipped
      /\ Trim(path) = Top \/ Trim(path) \in Kids(V)
  BY PendingIsVisitable
<1>3. \A p \in pendingDirectories' : Trim(p) # Trim(path)
  BY <1>1, PendingDiffer
<1>4. skipped' \subseteq {Top} \cup Listed(V)
  BY <1>1, <1>2, KidsAndLeavesAreListed DEF Explored
<1>5. \A k \in Kids(V) : k = path => k \in skipped'
  <2>1. ASSUME NEW k \in Kids(V)
        PROVE  Trimmed(k)
    BY <2>1, KidsAndLeavesAreListed, ListedIsBelow DEF Explored
  <2>2. QED
    BY <1>1, <2>1 DEF Trimmed
<1>6. Leaves(V) \ skipped' = Leaves(V) \ skipped
  BY <1>1, <1>2, KidsAndLeavesAreListed DEF Visitable
<1>7. \/ Top \in V \cup skipped'
      \/ root \in pendingDirectories'
      \/ IsIgnored(Top)
  BY <1>1 DEF Explored, Top
<1>8. Kids(V) \subseteq V \cup pendingDirectories' \cup skipped'
  BY <1>1, <1>5 DEF Explored
<1>9. \A p \in V : /\ Visitable(p)
                   /\ ~IsIgnored(p)
                   /\ p \notin skipped'
                   /\ p = Top \/ p \in Kids(V)
  BY <1>1, <1>2 DEF Explored
<1>10. \A p \in pendingDirectories' : /\ p = root \/ p \in Kids(V)
                                     /\ Trim(p) \notin V \cup skipped'
  BY <1>1, <1>3 DEF Explored
<1>11. /\ result' = {RelativePath(root, f) : f \in Leaves(V) \ skipped'}
      /\ directories' = {FoldPath(RelativePath(root, k)) : k \in Kids(V)}
  BY <1>1, <1>6 DEF Explored
<1>12. QED
  BY <1>1, <1>4, <1>7, <1>8, <1>9, <1>10, <1>11, StillExplored

LEMMA EnumerateKeeps ==
    ASSUME InstanceIsProper, TaskInv, DirectoryExists(root), NEW V, Explored(V),
           NEW path \in pendingDirectories, Enumerate(path)
    PROVE  \E W : Explored(W)'
<1> DEFINE v == Trim(path)
           W == V \cup {v}
<1>1. PICK lost \in SUBSET Files(path) :
          /\ result' = result \cup {RelativePath(root, f) : f \in Files(path) \ lost}
          /\ skipped' = skipped \cup lost
  BY DEF Enumerate
<1>2. /\ UNCHANGED taskVars
      /\ pendingDirectories' = (pendingDirectories \ {path}) \cup Subdirectories(path)
      /\ directories' = directories \cup
            {FoldPath(RelativePath(root, s)) : s \in Subdirectories(path)}
      /\ ~IsIgnored(path)
  BY DEF Enumerate, Pop
<1>3. /\ Visitable(v)
      /\ Trimmed(v)
      /\ v \notin V \cup skipped
      /\ v = Top \/ v \in Kids(V)
  BY PendingIsVisitable
<1>4. /\ Subdirectories(path) = Subdirectories(v)
      /\ Files(path) = Files(v)
      /\ ~IsIgnored(v)
  BY <1>2, <1>3, TrimChangesNothing DEF Subdirectories, Files, IsIgnored
<1>5. /\ Kids(W) = Kids(V) \cup Subdirectories(v)
      /\ Leaves(W) = Leaves(V) \cup Files(v)
      /\ Listed(W) = Listed(V) \cup Entries(v)
  BY DEF Kids, Leaves, Listed
<1>6. /\ Subdirectories(v) \subseteq Entries(v)
      /\ Files(v) \subseteq Entries(v)
      /\ \A k \in Subdirectories(v) : DirectoryExists(k)
      /\ \A f \in Files(v) : ~DirectoryExists(f)
  BY DEF Subdirectories, Files, EnumerateDirectories, EnumerateFiles
<1>7. \A e \in Entries(v) : /\ e # Top /\ e # root /\ e \notin Listed(V) /\ e \notin V
                            /\ e \notin pendingDirectories /\ e \notin skipped
  BY <1>3, EntriesAreFresh
<1>8. \A e \in Entries(v) : Trim(e) = e /\ e # v
  BY <1>3, EntryIsChild DEF Trimmed, Visitable, TaskInv
<1> HIDE DEF v, W
<1>9. ASSUME NEW p \in W
      PROVE  /\ Visitable(p)
             /\ ~IsIgnored(p)
             /\ p \notin skipped'
             /\ p = Top \/ p \in Kids(W)
  <2>1. p \notin lost
    <3>1. DirectoryExists(p)
      BY <1>3 DEF W, Explored, Visitable
    <3>2. QED
      BY <1>1, <1>4, <1>6, <3>1
  <2>2. QED
    BY <1>1, <1>3, <1>4, <1>5, <2>1 DEF W, Explored
<1>10. ASSUME NEW p \in pendingDirectories'
       PROVE  /\ p = root \/ p \in Kids(W)
              /\ Trim(p) \notin W \cup skipped'
  <2>1. CASE p \in Subdirectories(v)
    <3>1. Trim(p) = p /\ p \notin V /\ p # v /\ p \notin skipped
      BY <1>6, <1>7, <1>8, <2>1
    <3>2. p \notin lost
      BY <1>1, <1>4, <1>6, <2>1
    <3>3. QED
      BY <1>1, <1>5, <2>1, <3>1, <3>2 DEF W
  <2>2. CASE p \in pendingDirectories /\ p # path
    <3>1. p = root \/ p \in Kids(W)
      BY <1>5, <2>2 DEF Explored
    <3>2. Trim(p) \notin V \cup skipped
      BY <2>2 DEF Explored
    <3>3. Trim(p) # v
      BY <2>2, PendingDiffer DEF v
    <3>4. Trim(p) \notin lost
      <4>1. DirectoryExists(Trim(p))
        BY <2>2, PendingIsVisitable DEF Visitable
      <4>2. QED
        BY <1>1, <1>4, <1>6, <4>1
    <3>5. QED
      BY <1>1, <3>1, <3>2, <3>3, <3>4 DEF W
  <2>3. QED
    BY <1>2, <1>4, <2>1, <2>2
<1>11. skipped' \subseteq {Top} \cup Listed(W)
  BY <1>1, <1>4, <1>5, <1>6 DEF Explored
<1>12. \/ Top \in W \cup skipped'
       \/ root \in pendingDirectories'
       \/ IsIgnored(Top)
  BY <1>1, <1>2 DEF Explored, Top, W, v
<1>13. Kids(W) \subseteq W \cup pendingDirectories' \cup skipped'
  <2>1. ASSUME NEW k \in Kids(V)
        PROVE  k \in W \cup pendingDirectories' \cup skipped'
    <3>1. k = path => k = v
      <4>1. Trimmed(k)
        BY KidsAndLeavesAreListed, ListedIsBelow DEF Explored
      <4>2. QED
        BY <4>1 DEF Trimmed, v
    <3>2. QED
      BY <1>1, <1>2, <3>1 DEF Explored, W
  <2>2. QED
    BY <1>2, <1>4, <1>5, <2>1
<1>14. result' = {RelativePath(root, f) : f \in Leaves(W) \ skipped'}
  <2>1. Leaves(W) \ skipped' = (Leaves(V) \ skipped) \cup (Files(v) \ lost)
    <3>1. Leaves(V) \cap lost = {}
      BY <1>1, <1>4, <1>6, <1>7, KidsAndLeavesAreListed
    <3>2. Files(v) \cap skipped = {}
      BY <1>6, <1>7
    <3>3. QED
      BY <1>1, <1>5, <3>1, <3>2
  <2>2. QED
    BY <1>1, <1>4, <2>1 DEF Explored
<1>15. directories' = {FoldPath(RelativePath(root, k)) : k \in Kids(W)}
  BY <1>2, <1>4, <1>5 DEF Explored
<1>16. Explored(W)'
  BY <1>2, <1>9, <1>10, <1>11, <1>12, <1>13, <1>14, <1>15, StillExplored
<1>17. QED
  BY <1>16

-----------------------------------------------------------------------------
LEMMA LevelByLevel ==
    ASSUME InstanceIsProper, TaskInv
    PROVE  /\ Level[0] = {Top}
           /\ \A n \in 1..MaxDepth :
                 Level[n] = UNION {Entries(p) : p \in {q \in Level[n - 1] : IsOpen(q)}}
<1> DEFINE Paths == {p \in Seq(Names) : Trimmed(p)}
           Below(S) == UNION {Entries(p) : p \in {q \in S : IsOpen(q)}}
           Is(l) == l = [n \in 0..MaxDepth |->
                            IF n = 0 THEN {Trim(root)}
                            ELSE UNION {Entries(p) : p \in {q \in l[n - 1] : IsOpen(q)}}]
           step == [d \in (SUBSET Paths) \X Nat |-> Below(d[1])]
<1>1. Top \in Paths /\ MaxDepth \in Nat
  BY TrimType DEF Top, TaskInv, InstanceIsProper
<1>2. ASSUME NEW S \in SUBSET Paths
      PROVE  Below(S) \in SUBSET Paths
  BY EntryIsChild DEF TaskInv
<1>3. step \in [(SUBSET Paths) \X Nat -> SUBSET Paths]
  <2> HIDE DEF Below, Paths
  <2>1. QED
    BY <1>2
<1>4. \A S \in SUBSET Paths, n \in Nat : step[<<S, n>>] = Below(S)
  OBVIOUS
<1>5. \E l : Is(l)
  <2> HIDE DEF step, Paths
  <2>1. PICK l : Goes(l, MaxDepth, SUBSET Paths, {Top}, step)
    BY <1>1, <1>3, Recursion
  <2>2. l = [n \in 0..MaxDepth |-> l[n]] /\ l[0] = {Top}
    BY <2>1 DEF Goes
  <2>3. ASSUME NEW n \in 1..MaxDepth
        PROVE  l[n] = Below(l[n - 1])
    <3>1. l[n - 1] \in SUBSET Paths /\ n \in Nat
      BY <1>1, <2>1 DEF Goes
    <3>2. l[n] = step[<<l[n - 1], n>>]
      BY <2>1 DEF Goes
    <3>3. QED
      BY <1>4, <3>1, <3>2
  <2>4. \A n \in 0..MaxDepth : l[n] = IF n = 0 THEN {Trim(root)} ELSE Below(l[n - 1])
    <3> HIDE DEF Below
    <3>1. \A n \in 0..MaxDepth : n # 0 => n \in 1..MaxDepth
      BY <1>1
    <3>2. QED
      BY <2>2, <2>3, <3>1, Zenon DEF Top
  <2>5. Is(l)
    BY <2>2, <2>4
  <2>6. QED
    BY <2>5
<1>6. Level = CHOOSE l : Is(l)
  BY DEF Level
<1>7. Is(Level)
  BY <1>5, <1>6
<1>8. QED
  <2> HIDE DEF step, Paths
  <2>1. QED
    BY <1>1, <1>7 DEF Top

(* Whatever is in a level is the root or was listed.                       *)
LEMMA LevelsWereListed ==
    ASSUME InstanceIsProper, TaskInv, NEW V, Explored(V), pendingDirectories = {}
    PROVE  \A n \in 0..MaxDepth : Level[n] \subseteq {Top} \cup Listed(V)
<1> DEFINE T == {n \in 0..MaxDepth : Level[n] \subseteq {Top} \cup Listed(V)}
<1>1. MaxDepth \in Nat
  BY DEF InstanceIsProper
<1>2. 0 \in T
  BY <1>1, LevelByLevel
<1>3. ASSUME NEW n \in 0..MaxDepth, n \in T, n + 1 <= MaxDepth
      PROVE  n + 1 \in T
  <2>1. n + 1 \in 1..MaxDepth /\ (n + 1) - 1 = n
    BY <1>1, <1>3
  <2>2. Level[n + 1] = UNION {Entries(p) : p \in {q \in Level[n] : IsOpen(q)}}
    BY <2>1, LevelByLevel
  <2>3. ASSUME NEW q \in Level[n], IsOpen(q)
        PROVE  q \in V
    <3>1. DirectoryExists(q) /\ q \notin skipped /\ ~IsIgnored(q)
      BY <2>3 DEF IsOpen
    <3>2. CASE q = Top
      BY <3>1, <3>2 DEF Explored
    <3>3. CASE q \in Listed(V)
      <4>1. q \in Kids(V)
        BY <3>1, <3>3 DEF Listed, Kids, Subdirectories, EnumerateDirectories
      <4>2. QED
        BY <3>1, <4>1 DEF Explored
    <3>4. QED
      BY <1>3, <3>2, <3>3
  <2>4. Level[n + 1] \subseteq Listed(V)
    BY <2>2, <2>3 DEF Listed
  <2>5. QED
    BY <1>1, <1>3, <2>4
<1>4. 0..MaxDepth \subseteq T
  <2> HIDE DEF T
  <2>1. QED
    BY <1>1, <1>2, <1>3, UpTo
<1>5. QED
  BY <1>4

(* Whatever was enumerated is in the level of its depth.                   *)
LEMMA ExploredIsInItsLevel ==
    ASSUME InstanceIsProper, TaskInv, NEW V, Explored(V)
    PROVE  \A p \in V : p \in Level[Len(p) - Len(Top)]
<1> DEFINE Depth(p) == Len(p) - Len(Top)
           T == {n \in 0..MaxDepth : \A p \in V : Depth(p) = n => p \in Level[n]}
<1>1. MaxDepth \in Nat
  BY DEF InstanceIsProper
<1>2. ASSUME NEW p \in V
      PROVE  /\ Visitable(p) /\ Depth(p) \in Nat /\ Depth(p) < MaxDepth
             /\ IsOpen(p)
             /\ \/ p = Top
                \/ \E q \in V : p \in Entries(q) /\ Depth(p) = Depth(q) + 1
  <2>1. Visitable(p) /\ IsOpen(p) /\ (p = Top \/ p \in Kids(V))
    BY DEF Explored, IsOpen, Visitable
  <2>2. Depth(p) \in Nat /\ Depth(p) < MaxDepth
    BY <2>1, VisitableIsShallow
  <2>3. ASSUME p \in Kids(V)
        PROVE  \E q \in V : p \in Entries(q) /\ Depth(p) = Depth(q) + 1
    <3>1. PICK q \in V : p \in Entries(q)
      BY <2>3, KidsAndLeavesAreListed DEF Listed
    <3>2. q \in Seq(Names) /\ Trimmed(q)
      BY DEF Explored, Visitable
    <3>3. Len(p) = Len(q) + 1 /\ Len(q) \in Nat
      BY <3>1, <3>2, EntryIsChild DEF TaskInv
    <3>4. Len(Top) \in Nat
      BY TrimType, LenProperties DEF Top, TaskInv, InstanceIsProper
    <3>5. QED
      BY <3>1, <3>3, <3>4
  <2>4. QED
    BY <2>1, <2>2, <2>3
<1>3. Depth(Top) = 0
  <2>1. Len(Top) \in Nat
    BY TrimType, LenProperties DEF Top, TaskInv, InstanceIsProper
  <2>2. QED
    BY <2>1
<1>4. /\ Level[0] = {Top}
      /\ \A n \in 1..MaxDepth :
            Level[n] = UNION {Entries(p) : p \in {q \in Level[n - 1] : IsOpen(q)}}
  BY LevelByLevel
<1> HIDE DEF Depth
<1>5. 0 \in T
  <2>1. ASSUME NEW p \in V, Depth(p) = 0
        PROVE  p = Top
    <3>1. ASSUME NEW q \in V, Depth(p) = Depth(q) + 1
          PROVE  FALSE
      BY <1>2, <2>1, <3>1
    <3>2. QED
      BY <1>2, <3>1
  <2>2. QED
    BY <1>1, <1>4, <2>1
<1>6. ASSUME NEW n \in 0..MaxDepth, n \in T, n + 1 <= MaxDepth
      PROVE  n + 1 \in T
  <2>1. n + 1 \in 1..MaxDepth /\ (n + 1) - 1 = n /\ n + 1 # 0
    BY <1>1, <1>6
  <2>2. ASSUME NEW p \in V, Depth(p) = n + 1
        PROVE  p \in Level[n + 1]
    <3>1. PICK q \in V : p \in Entries(q) /\ Depth(p) = Depth(q) + 1
      BY <1>2, <1>3, <2>1, <2>2
    <3>2. Depth(q) = n
      BY <1>1, <1>2, <2>2, <3>1
    <3>3. q \in Level[n] /\ IsOpen(q)
      BY <1>2, <1>6, <3>2
    <3>4. Level[n + 1] = UNION {Entries(r) : r \in {r \in Level[n] : IsOpen(r)}}
      BY <1>4, <2>1
    <3>5. QED
      BY <3>1, <3>3, <3>4
  <2>3. QED
    BY <2>1, <2>2
<1>7. 0..MaxDepth \subseteq T
  <2> HIDE DEF T
  <2>1. QED
    BY <1>1, <1>5, <1>6, UpTo
<1>8. ASSUME NEW p \in V
      PROVE  p \in Level[Depth(p)]
  <2>1. Depth(p) \in 0..MaxDepth
    BY <1>1, <1>2
  <2>2. QED
    BY <1>7, <2>1
<1>9. QED
  BY <1>8 DEF Depth

LEMMA ReachableWasListed ==
    ASSUME InstanceIsProper, TaskInv, NEW V, Explored(V), pendingDirectories = {}
    PROVE  Reachable = {Top} \cup Listed(V)
<1>1. Reachable \subseteq {Top} \cup Listed(V)
  BY LevelsWereListed DEF Reachable
<1>2. MaxDepth \in Nat
  BY DEF InstanceIsProper
<1>3. Top \in Reachable
  <2>1. 0 \in 0..MaxDepth /\ Top \in Level[0]
    BY <1>2, LevelByLevel
  <2>2. QED
    BY <2>1 DEF Reachable
<1>4. ASSUME NEW e \in Listed(V)
      PROVE  e \in Reachable
  <2>1. PICK p \in V : e \in Entries(p)
    BY DEF Listed
  <2> DEFINE n == Len(p) - Len(Top)
  <2>2. Visitable(p) /\ IsOpen(p)
    BY DEF Explored, IsOpen, Visitable
  <2>3. n \in Nat /\ n < MaxDepth
    BY <2>2, VisitableIsShallow
  <2>4. p \in Level[n]
    BY ExploredIsInItsLevel
  <2> HIDE DEF n
  <2>5. n + 1 \in 1..MaxDepth /\ (n + 1) - 1 = n /\ n + 1 \in 0..MaxDepth
    BY <1>2, <2>3
  <2>6. Level[n + 1] = UNION {Entries(q) : q \in {q \in Level[n] : IsOpen(q)}}
    BY <2>5, LevelByLevel
  <2>7. e \in Level[n + 1]
    BY <2>1, <2>2, <2>4, <2>6
  <2>8. QED
    BY <2>5, <2>7 DEF Reachable
<1>5. QED
  BY <1>1, <1>3, <1>4

LEMMA ExploredFindsTheTree ==
    ASSUME InstanceIsProper, TaskInv, NEW V, Explored(V), pendingDirectories = {}
    PROVE  FindsExactlyTheTree
<1> DEFINE there == {p \in Reachable \ {Trim(root)} : ~IsIgnored(p)}
           Dirs == {p \in there : DirectoryExists(p)}
<1>1. Top \notin Listed(V)
  <2>1. Len(Top) \in Nat
    BY TrimType, LenProperties DEF Top, TaskInv, InstanceIsProper
  <2>2. QED
    BY <2>1, ListedIsBelow DEF Explored
<1>2. there = {p \in Listed(V) : ~IsIgnored(p)}
  BY <1>1, ReachableWasListed DEF Top
<1>3. Dirs = Kids(V)
  BY <1>2 DEF Kids, Listed, Subdirectories, EnumerateDirectories
<1>4. there \ (Dirs \cup skipped) = Leaves(V) \ skipped
  BY <1>2 DEF Leaves, Listed, Files, EnumerateFiles
<1> HIDE DEF there, Dirs
<1>5. /\ result = {RelativePath(root, p) : p \in there \ (Dirs \cup skipped)}
      /\ directories = {FoldPath(RelativePath(root, p)) : p \in Dirs}
  BY <1>3, <1>4 DEF Explored
<1>6. QED
  BY <1>5 DEF FindsExactlyTheTree, there, Dirs

-----------------------------------------------------------------------------
LEMMA StepKeepsTraversalInv ==
    ASSUME InstanceIsProper, TraversalInv, [TraversalNext]_traversalVars
    PROVE  TraversalInv'
<1>1. TaskInv
  BY DEF TraversalInv
<1>2. CASE Start
  <2>1. UNCHANGED taskVars /\ UNCHANGED resultVars /\ status = "called"
        /\ status' = "running" /\ pendingDirectories' = {root} /\ DirectoryExists(root)
    BY <1>2 DEF Start
  <2>2. result = {} /\ directories = {} /\ skipped = {}
    BY <2>1 DEF TraversalInv
  <2>3. result' = {} /\ directories' = {} /\ skipped' = {}
    BY <2>1, <2>2 DEF resultVars
  <2>4. Kids({}) = {} /\ Leaves({}) = {} /\ Listed({}) = {}
    BY DEF Kids, Leaves, Listed
  <2>5. Explored({})'
    BY <2>1, <2>3, <2>4, StillExplored
  <2>6. TaskInv' /\ DirectoryExists(root)'
    BY <1>1, <2>1, SameTask DEF taskVars
  <2>7. QED
    BY <2>1, <2>5, <2>6 DEF TraversalInv
<1>3. CASE RootNotFound
  <2>1. UNCHANGED taskVars /\ status' = "DirectoryNotFoundException"
    BY <1>3 DEF RootNotFound
  <2>2. QED
    BY <1>1, <2>1, SameTask DEF TraversalInv
<1>4. ASSUME NEW path \in pendingDirectories,
             PassOver(path) \/ SkipInaccessible(path) \/ Enumerate(path)
      PROVE  TraversalInv'
  <2>1. UNCHANGED taskVars /\ status = "running" /\ status' = status
    BY <1>4 DEF PassOver, SkipInaccessible, Enumerate, Pop
  <2>2. DirectoryExists(root) /\ \E V : Explored(V)
    BY <2>1 DEF TraversalInv
  <2>3. PICK V : Explored(V)
    BY <2>2
  <2>4. \E W : Explored(W)'
    BY <1>1, <1>4, <2>2, <2>3, PassOverKeeps, SkipKeeps, EnumerateKeeps
  <2>5. TaskInv' /\ DirectoryExists(root)'
    BY <1>1, <2>1, <2>2, SameTask DEF taskVars
  <2>6. QED
    BY <2>1, <2>4, <2>5 DEF TraversalInv
<1>5. ASSUME NEW path \in pendingDirectories, AccessDenied(path)
      PROVE  TraversalInv'
  <2>1. UNCHANGED taskVars /\ status' = "UnauthorizedAccessException"
    BY <1>5 DEF AccessDenied
  <2>2. QED
    BY <1>1, <2>1, SameTask DEF TraversalInv
<1>6. CASE Return
  <2>1. /\ UNCHANGED taskVars /\ UNCHANGED resultVars
        /\ pendingDirectories' = {} /\ pendingDirectories' = pendingDirectories
        /\ status = "running" /\ status' = "returned"
    BY <1>6 DEF Return
  <2>2. DirectoryExists(root) /\ \E V : Explored(V)
    BY <2>1 DEF TraversalInv
  <2>3. PICK V : Explored(V)
    BY <2>2
  <2>4. skipped' = skipped /\ result' = result /\ directories' = directories
    BY <2>1 DEF resultVars
  <2>5. Explored(V)'
    BY <2>1, <2>3, <2>4, SameTask DEF Explored, taskVars
  <2>6. TaskInv' /\ DirectoryExists(root)'
    BY <1>1, <2>1, <2>2, SameTask DEF taskVars
  <2>7. QED
    BY <2>1, <2>5, <2>6 DEF TraversalInv
<1>7. CASE Cancel
  <2>1. UNCHANGED taskVars /\ status' = "OperationCanceledException"
    BY <1>7 DEF Cancel
  <2>2. QED
    BY <1>1, <2>1, SameTask DEF TraversalInv
<1>8. CASE UNCHANGED traversalVars
  <2>1. /\ UNCHANGED taskVars /\ status' = status
        /\ pendingDirectories' = pendingDirectories
        /\ skipped' = skipped /\ result' = result /\ directories' = directories
    BY <1>8 DEF traversalVars, resultVars
  <2>2. \A V : Explored(V)' = Explored(V)
    BY <2>1, SameTask DEF Explored, taskVars
  <2>3. QED
    BY <1>1, <2>1, <2>2, SameTask DEF TraversalInv, taskVars
<1>9. QED
  BY <1>2, <1>3, <1>4, <1>5, <1>6, <1>7, <1>8 DEF TraversalNext, Run, Visit

(* A traversal that returns has found every file and directory under the   *)
(* root and no other, for any tree, links, cycles of them, settings and    *)
(* access rights, whichever directories and files could not be read and in *)
(* whatever order the directories are visited.                             *)
THEOREM TraversalFindsTheTree ==
    ASSUME InstanceIsProper
    PROVE  TraversalSpec => []FindsExactlyTheTree
<1>1. TraversalInit => TraversalInv
  BY DEF TraversalInit, TraversalInv, TaskInv, InstanceIsProper, TreeIsProper
<1>2. TraversalInv /\ [TraversalNext]_traversalVars => TraversalInv'
  BY StepKeepsTraversalInv
<1>3. TraversalInv => FindsExactlyTheTree
  <2>1. status # "returned" => FindsExactlyTheTree
    BY DEF FindsExactlyTheTree
  <2>2. ASSUME TraversalInv, status = "returned"
        PROVE  FindsExactlyTheTree
    BY <2>2, ExploredFindsTheTree DEF TraversalInv
  <2>3. QED
    BY <2>1, <2>2
<1>4. QED
  BY <1>1, <1>2, <1>3, PTL DEF TraversalSpec
=============================================================================
