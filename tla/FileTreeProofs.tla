--------------------------- MODULE FileTreeProofs ---------------------------
(***************************************************************************)
(* Facts about paths and where they lead, for proofs about what walks      *)
(* along them.                                                             *)
(*                                                                         *)
(* Reached is a recursive function, hence a CHOOSE.  That it exists, and   *)
(* what it is on a longer path, is shown with the least number of a set:   *)
(* an induction needs a least place where it breaks.                       *)
(***************************************************************************)
EXTENDS FileTree, SequenceTheorems, WellFoundedInduction, TLAPS

LEMMA Least ==
    ASSUME NEW T \in SUBSET Nat, T # {}
    PROVE  \E n \in T : \A m \in T : n <= m
<1>1. \E n \in T : \A m \in T : ~ (<<m, n>> \in OpToRel(<, Nat))
  BY WFMin, NatLessThanWellFounded, Zenon
<1>2. PICK n \in T : \A m \in T : ~ (<<m, n>> \in OpToRel(<, Nat))
  BY <1>1, Zenon
<1>3. \A m \in T : ~(m < n)
  <2>1. n \in Nat
    BY <1>2
  <2>2. \A m \in Nat : m < n => <<m, n>> \in OpToRel(<, Nat)
    BY <2>1, Zenon DEF OpToRel
  <2>3. QED
    BY <1>2, <2>2, Zenon
<1>4. \A m \in T : n <= m
  <2>1. \A m \in T : ~(m < n) /\ m \in Nat /\ n \in Nat
    BY <1>2, <1>3, Zenon
  <2>2. QED
    BY <2>1
<1>5. QED
  BY <1>2, <1>4, Zenon

(* What holds of 0, and of n + 1 when it holds of n, holds up to N.        *)
LEMMA UpTo ==
    ASSUME NEW N \in Nat, NEW T, 0 \in T,
           \A n \in 0..N : n \in T /\ n + 1 <= N => n + 1 \in T
    PROVE  0..N \subseteq T
<1> DEFINE bad == {n \in Nat : n <= N /\ n \notin T}
<1> SUFFICES ASSUME bad # {} PROVE FALSE
  OBVIOUS
<1>1. PICK n \in bad : \A m \in bad : n <= m
  BY Least, bad \in SUBSET Nat
<1>2. n \in Nat /\ n <= N /\ n \notin T /\ n # 0
  BY <1>1
<1>3. n - 1 \in 0..N /\ n - 1 \in Nat /\ n - 1 <= N /\ n = (n - 1) + 1
  BY <1>2
<1>4. n - 1 \in T
  BY <1>1, <1>3
<1>5. QED
  BY <1>2, <1>3, <1>4

(* Two functions that begin alike and go on alike are the same.            *)
LEMMA SameSteps ==
    ASSUME NEW N \in Nat, NEW f, NEW g, f[0] = g[0],
           \A n \in 1..N : f[n - 1] = g[n - 1] => f[n] = g[n]
    PROVE  \A n \in 0..N : f[n] = g[n]
<1> DEFINE T == {n \in Nat : f[n] = g[n]}
<1>1. 0 \in T
  OBVIOUS
<1>2. ASSUME NEW n \in 0..N, n \in T, n + 1 <= N
      PROVE  n + 1 \in T
  <2>1. n + 1 \in 1..N /\ (n + 1) - 1 = n /\ n + 1 \in Nat
    BY <1>2
  <2>2. f[(n + 1) - 1] = g[(n + 1) - 1]
    BY <1>2, <2>1
  <2>3. QED
    BY <2>1, <2>2
<1>3. 0..N \subseteq T
  <2> HIDE DEF T
  <2>1. QED
    BY <1>1, <1>2, UpTo
<1>4. QED
  BY <1>3

Goes(f, N, D, b, step) ==
    /\ f \in [0..N -> D]
    /\ f[0] = b
    /\ \A n \in 1..N : f[n] = step[<<f[n - 1], n>>]

LEMMA OneStepMore ==
    ASSUME NEW D, NEW b \in D, NEW step \in [D \X Nat -> D], NEW k \in Nat,
           NEW f, Goes(f, k, D, b, step)
    PROVE  \E g : Goes(g, k + 1, D, b, step)
<1> DEFINE g == [n \in 0..(k + 1) |-> IF n = k + 1 THEN step[<<f[k], k + 1>>] ELSE f[n]]
<1>1. f \in [0..k -> D] /\ f[0] = b /\ \A n \in 1..k : f[n] = step[<<f[n - 1], n>>]
  BY DEF Goes
<1>2. \A n \in 0..k : f[n] \in D
  BY <1>1
<1>3. step[<<f[k], k + 1>>] \in D
  BY <1>2
<1>4. \A n \in 0..(k + 1) : n # k + 1 => n \in 0..k
  OBVIOUS
<1>5. g \in [0..(k + 1) -> D]
  BY <1>2, <1>3, <1>4
<1>6. /\ \A n \in 0..k : g[n] = f[n]
      /\ g[k + 1] = step[<<f[k], k + 1>>]
  OBVIOUS
<1> HIDE DEF g
<1>7. g[0] = b
  BY <1>1, <1>4, <1>6
<1>8. ASSUME NEW n \in 1..(k + 1)
      PROVE  g[n] = step[<<g[n - 1], n>>]
  <2>1. n - 1 \in 0..k /\ g[n - 1] = f[n - 1]
    BY <1>6
  <2>2. CASE n = k + 1
    BY <1>6, <2>1, <2>2
  <2>3. CASE n # k + 1
    BY <1>1, <1>6, <2>1, <2>3
  <2>4. QED
    BY <2>2, <2>3
<1>9. QED
  BY <1>5, <1>7, <1>8 DEF Goes

(* A value to begin with and a step from each to the next make a function. *)
LEMMA Recursion ==
    ASSUME NEW D, NEW b \in D, NEW step \in [D \X Nat -> D], NEW N \in Nat
    PROVE  \E f : Goes(f, N, D, b, step)
<1> DEFINE T == {k \in Nat : \E f : Goes(f, k, D, b, step)}
<1>1. 0 \in T
  <2> DEFINE f == [n \in 0..0 |-> b]
  <2>1. Goes(f, 0, D, b, step)
    BY DEF Goes
  <2>2. QED
    BY <2>1
<1>2. ASSUME NEW k \in 0..N, k \in T
      PROVE  k + 1 \in T
  BY <1>2, OneStepMore
<1>3. N \in T
  <2> HIDE DEF T
  <2>1. 0..N \subseteq T
    BY <1>1, <1>2, UpTo
  <2>2. QED
    BY <2>1
<1>4. QED
  BY <1>3

-----------------------------------------------------------------------------
LEMMA TrimType ==
    ASSUME NEW S, NEW p \in Seq(S)
    PROVE  Trim(p) \in Seq(S)
<1>1. CASE p # << >>
  <2>1. Len(p) \in Nat /\ Len(p) # 0
    BY <1>1, LenProperties, EmptySeq
  <2>2. SubSeq(p, 1, Len(p) - 1) \in Seq(S)
    BY <2>1, SubSeqProperties
  <2>3. QED
    BY <2>2 DEF Trim
<1>2. CASE p = << >>
  BY <1>2 DEF Trim
<1>3. QED
  BY <1>1, <1>2

Reaches(Names) == [place : Seq(Names), links : Nat]

(* Names stay names when they are looked up, and links lead to paths.      *)
LooksUp(Names) ==
    /\ \A n \in Names : Stored(n) \in Names
    /\ \A l \in DOMAIN Links : Links[l] \in Seq(Names)

LEMMA FollowType ==
    ASSUME NEW Names, LooksUp(Names), NEW reached \in Reaches(Names), NEW n \in Names
    PROVE  Follow(reached, n) \in Reaches(Names)
<1>1. Append(reached.place, Stored(n)) \in Seq(Names)
  BY AppendProperties DEF Reaches, LooksUp
<1>2. reached.links \in Nat
  BY DEF Reaches
<1>3. QED
  BY <1>1, <1>2 DEF Follow, Reaches, LooksUp

Nowhere == [place |-> << >>, links |-> 0]

(* How a path leads somewhere: f[i] is where its first i names do.         *)
Leads(f, names, Names) ==
    /\ f \in [0..Len(names) -> Reaches(Names)]
    /\ f[0] = Nowhere
    /\ \A i \in 1..Len(names) : f[i] = Follow(f[i - 1], names[i])

LEMMA SomeWay ==
    ASSUME NEW Names, LooksUp(Names), NEW names \in Seq(Names)
    PROVE  \E f : Leads(f, names, Names)
<1> DEFINE D == Reaches(Names)
           step == [d \in D \X Nat |->
                       IF d[2] \in 1..Len(names) THEN Follow(d[1], names[d[2]]) ELSE d[1]]
<1>1. Nowhere \in D
  BY EmptySeq DEF Nowhere, Reaches
<1>2. ASSUME NEW x \in D, NEW i \in Nat, i \in 1..Len(names)
      PROVE  Follow(x, names[i]) \in D
  <2>1. names[i] \in Names
    BY <1>2, ElementOfSeq
  <2>2. QED
    BY <2>1, FollowType
<1>3. \A x \in D, i \in Nat :
         step[<<x, i>>] = IF i \in 1..Len(names) THEN Follow(x, names[i]) ELSE x
  OBVIOUS
<1>4. step \in [D \X Nat -> D]
  BY <1>2
<1>5. Len(names) \in Nat
  BY LenProperties
<1> HIDE DEF D, step
<1>6. PICK f : Goes(f, Len(names), D, Nowhere, step)
  BY <1>1, <1>4, <1>5, Recursion
<1>7. f \in [0..Len(names) -> D] /\ f[0] = Nowhere
  BY <1>6 DEF Goes
<1>8. ASSUME NEW i \in 1..Len(names)
      PROVE  f[i] = Follow(f[i - 1], names[i])
  <2>1. f[i - 1] \in D /\ i \in Nat
    BY <1>5, <1>7
  <2>2. f[i] = step[<<f[i - 1], i>>]
    BY <1>6 DEF Goes
  <2>3. QED
    BY <1>3, <2>1, <2>2
<1>9. Leads(f, names, Names)
  BY <1>7, <1>8 DEF Leads, D
<1>10. QED
  BY <1>9

LEMMA ReachedLeads ==
    ASSUME NEW Names, LooksUp(Names), NEW path \in Seq(Names)
    PROVE  \E f : Leads(f, Trim(path), Names) /\ Reached(path) = f[Len(Trim(path))]
<1> DEFINE names == Trim(path)
           Is(r) == r = [i \in 0..Len(names) |->
                            IF i = 0 THEN [place |-> << >>, links |-> 0]
                            ELSE Follow(r[i - 1], names[i])]
           reached == CHOOSE r : Is(r)
<1>1. names \in Seq(Names) /\ Len(names) \in Nat
  BY TrimType, LenProperties
<1>2. Reached(path) = reached[Len(names)]
  BY DEF Reached
<1>3. \E r : Is(r)
  <2>1. PICK f : Leads(f, names, Names)
    BY <1>1, SomeWay
  <2>2. f = [i \in 0..Len(names) |-> f[i]]
    BY <2>1 DEF Leads
  <2>3. \A i \in 0..Len(names) :
           f[i] = IF i = 0 THEN [place |-> << >>, links |-> 0]
                  ELSE Follow(f[i - 1], names[i])
    BY <1>1, <2>1 DEF Leads, Nowhere
  <2>4. Is(f)
    BY <2>2, <2>3
  <2>5. QED
    BY <2>4
<1>4. Is(reached)
  BY <1>3
<1>5. Leads(reached, names, Names)
  <2>1. PICK f : Leads(f, names, Names)
    BY <1>1, SomeWay
  <2> HIDE DEF reached, names
  <2>2. /\ reached[0] = Nowhere
        /\ \A i \in 1..Len(names) : reached[i] = Follow(reached[i - 1], names[i])
    BY <1>1, <1>4 DEF Nowhere
  <2>3. \A i \in 0..Len(names) : reached[i] = f[i]
    <3>1. /\ reached[0] = f[0]
          /\ \A i \in 1..Len(names) : reached[i - 1] = f[i - 1] => reached[i] = f[i]
      BY <2>1, <2>2 DEF Leads
    <3>2. Len(names) \in Nat
      BY <1>1
    <3> HIDE DEF Is
    <3>3. QED
      BY <3>1, <3>2, SameSteps
  <2>4. DOMAIN reached = 0..Len(names) /\ reached = [i \in DOMAIN reached |-> reached[i]]
    BY <1>4
  <2>5. reached \in [0..Len(names) -> Reaches(Names)]
    BY <2>1, <2>3, <2>4 DEF Leads
  <2>6. QED
    BY <2>2, <2>5 DEF Leads
<1>6. QED
  BY <1>2, <1>5

(* A path without a trailing separator, as all but some roots are.         *)
Trimmed(path) == Trim(path) = path

LEMMA AppendParts ==
    ASSUME NEW S, NEW p \in Seq(S), NEW n \in S
    PROVE  /\ Append(p, n) \in Seq(S)
           /\ Len(Append(p, n)) = Len(p) + 1
           /\ Append(p, n) # << >>
           /\ \A i \in 1..Len(p) : Append(p, n)[i] = p[i]
           /\ Append(p, n)[Len(p) + 1] = n
           /\ Len(p) \in Nat
<1>1. Len(p) \in Nat
  BY LenProperties
<1>2. Append(p, n) \in Seq(S) /\ Len(Append(p, n)) = Len(p) + 1
  BY AppendProperties
<1>3. Append(p, n) # << >>
  BY <1>1, <1>2, EmptySeq
<1>4. QED
  BY <1>1, <1>2, <1>3, AppendProperties

LEMMA AppendTrimmed ==
    ASSUME NEW S, NEW p \in Seq(S), NEW n \in S, n # Separator
    PROVE  Trimmed(Append(p, n))
BY AppendParts DEF Trimmed, Trim

(* Where the next name leads from a path depends on where that one leads.  *)
LEMMA ReachedAppend ==
    ASSUME NEW Names, LooksUp(Names), NEW p \in Seq(Names), Trimmed(p),
           NEW n \in Names, n # Separator
    PROVE  Reached(Append(p, n)) = Follow(Reached(p), n)
<1> DEFINE q == Append(p, n)
<1>1. Trim(p) = p /\ Trim(q) = q
  BY AppendTrimmed DEF Trimmed
<1>2. /\ q \in Seq(Names) /\ Len(q) = Len(p) + 1 /\ Len(p) \in Nat
      /\ \A i \in 1..Len(p) : q[i] = p[i]
      /\ q[Len(p) + 1] = n
  BY AppendParts
<1> HIDE DEF q
<1>3. PICK f : Leads(f, p, Names) /\ Reached(p) = f[Len(p)]
  BY <1>1, ReachedLeads
<1>4. PICK g : Leads(g, q, Names) /\ Reached(q) = g[Len(q)]
  BY <1>1, <1>2, ReachedLeads
<1>5. /\ g[0] = f[0]
      /\ \A i \in 1..Len(p) : g[i - 1] = f[i - 1] => g[i] = f[i]
  BY <1>2, <1>3, <1>4 DEF Leads
<1>6. g[Len(p)] = f[Len(p)]
  BY <1>2, <1>5, SameSteps
<1>7. g[Len(p) + 1] = Follow(g[Len(p)], n)
  BY <1>2, <1>4 DEF Leads
<1>8. QED
  BY <1>2, <1>3, <1>4, <1>6, <1>7 DEF q

LEMMA ReachedType ==
    ASSUME NEW Names, LooksUp(Names), NEW path \in Seq(Names)
    PROVE  Reached(path) \in Reaches(Names)
<1>1. Trim(path) \in Seq(Names) /\ Len(Trim(path)) \in 0..Len(Trim(path))
  BY TrimType, LenProperties
<1>2. PICK f : Leads(f, Trim(path), Names) /\ Reached(path) = f[Len(Trim(path))]
  BY ReachedLeads
<1>3. f \in [0..Len(Trim(path)) -> Reaches(Names)]
  BY <1>2 DEF Leads
<1>4. QED
  BY <1>1, <1>2, <1>3

-----------------------------------------------------------------------------
(* What the places of files, directories and links are: names one below    *)
(* the other, none of them empty at the end.                               *)
ProperPlaces(Names, places) ==
    \A p \in places : p \in Seq(Names) /\ (p # << >> => p[Len(p)] # Separator)

TreeIsProper(Names) ==
    ProperPlaces(Names, DOMAIN content \cup folders \cup DOMAIN Links)

(* The entries of a directory are the paths one name longer than its own   *)
(* whose last name is in it.                                               *)
LEMMA EntriesParts ==
    ASSUME NEW Names, TreeIsProper(Names), NEW path \in Seq(Names), Trimmed(path),
           NEW e \in Entries(path)
    PROVE  \E n \in Names : n # Separator /\ e = Append(path, n)
<1>1. PICK p \in DOMAIN content \cup folders \cup DOMAIN Links :
          p # << >> /\ e = Append(path, p[Len(p)])
  BY DEF Entries, Trimmed
<1>2. p \in Seq(Names) /\ p[Len(p)] # Separator
  BY <1>1 DEF TreeIsProper, ProperPlaces
<1>3. Len(p) \in 1..Len(p)
  BY <1>1, <1>2, LenProperties, EmptySeq
<1>4. p[Len(p)] \in Names
  BY <1>2, <1>3, ElementOfSeq
<1>5. QED
  BY <1>1, <1>2, <1>4

LEMMA EntryIsChild ==
    ASSUME NEW Names, TreeIsProper(Names), NEW path \in Seq(Names), Trimmed(path),
           NEW e \in Entries(path)
    PROVE  /\ e \in Seq(Names)
           /\ Trimmed(e)
           /\ Len(e) = Len(path) + 1
           /\ Len(path) \in Nat
<1>1. PICK n \in Names : n # Separator /\ e = Append(path, n)
  BY EntriesParts
<1>2. QED
  BY <1>1, AppendParts, AppendTrimmed

(* No path is an entry of two directories.                                 *)
LEMMA OneParent ==
    ASSUME NEW Names, TreeIsProper(Names), NEW p \in Seq(Names), NEW q \in Seq(Names),
           Trimmed(p), Trimmed(q), NEW e \in Entries(p), e \in Entries(q)
    PROVE  p = q
<1>1. PICK m \in Names : e = Append(p, m)
  BY EntriesParts
<1>2. PICK n \in Names : e = Append(q, n)
  BY EntriesParts
<1>3. /\ Len(e) = Len(p) + 1 /\ Len(p) \in Nat
      /\ \A i \in 1..Len(p) : e[i] = p[i]
  BY <1>1, AppendParts
<1>4. /\ Len(e) = Len(q) + 1 /\ Len(q) \in Nat
      /\ \A i \in 1..Len(q) : e[i] = q[i]
  BY <1>2, AppendParts
<1>5. Len(p) = Len(q) /\ \A i \in 1..Len(p) : p[i] = q[i]
  BY <1>3, <1>4
<1>6. QED
  BY <1>5, SeqEqual

(* A trailing separator changes nothing that is asked of a path.           *)
LEMMA TrimChangesNothing ==
    ASSUME NEW path, Trimmed(Trim(path))
    PROVE  /\ Place(Trim(path)) = Place(path)
           /\ DirectoryExists(Trim(path)) = DirectoryExists(path)
           /\ Entries(Trim(path)) = Entries(path)
           /\ EnumerateFiles(Trim(path)) = EnumerateFiles(path)
           /\ EnumerateDirectories(Trim(path)) = EnumerateDirectories(path)
           /\ \A settings, root :
                 Ignored(settings, root, Trim(path)) = Ignored(settings, root, path)
<1>1. Trim(Trim(path)) = Trim(path)
  BY DEF Trimmed
<1>2. Reached(Trim(path)) = Reached(path)
  BY <1>1 DEF Reached
<1>3. /\ Place(Trim(path)) = Place(path)
      /\ DirectoryExists(Trim(path)) = DirectoryExists(path)
  BY <1>2 DEF Place, DirectoryExists, Openable
<1>4. Entries(Trim(path)) = Entries(path)
  BY <1>1, <1>3 DEF Entries
<1>5. \A settings, root :
         Ignored(settings, root, Trim(path)) = Ignored(settings, root, path)
  BY <1>1 DEF Ignored, IsSameOrSubPath
<1>6. QED
  BY <1>3, <1>4, <1>5 DEF EnumerateFiles, EnumerateDirectories

-----------------------------------------------------------------------------
LEMMA PrefixParts ==
    ASSUME NEW S, NEW s \in Seq(S), NEW t \in Seq(S)
    PROVE  IsPrefix(s, t) <=> Len(s) <= Len(t) /\ \A i \in 1..Len(s) : s[i] = t[i]
<1>1. /\ Len(s) \in Nat /\ Len(t) \in Nat
      /\ \A i \in 1..Len(s) : s[i] \in S
      /\ \A i \in 1..Len(t) : t[i] \in S
  BY LenProperties, ElementOfSeq
<1>2. /\ SubSeq(s, 1, Len(s)) \in Seq(S)
      /\ Len(SubSeq(s, 1, Len(s))) = Len(s)
      /\ \A i \in 1..Len(s) : SubSeq(s, 1, Len(s))[i] = s[i]
  BY SubSeqFull
<1>3. ASSUME Len(s) <= Len(t)
      PROVE  /\ SubSeq(t, 1, Len(s)) \in Seq(S)
             /\ Len(SubSeq(t, 1, Len(s))) = Len(s)
             /\ \A i \in 1..Len(s) : SubSeq(t, 1, Len(s))[i] = t[i]
  BY <1>1, <1>3, SubSeqProperties
<1>4. ASSUME Len(s) <= Len(t), \A i \in 1..Len(s) : s[i] = t[i]
      PROVE  SubSeq(s, 1, Len(s)) = SubSeq(t, 1, Len(s))
  BY <1>2, <1>3, <1>4, SeqEqual
<1>5. QED
  BY <1>2, <1>3, <1>4 DEF IsPrefix

(* A path that begins with another is that one and the rest.               *)
LEMMA PrefixAndRest ==
    ASSUME NEW S, NEW s \in Seq(S), NEW t \in Seq(S), IsPrefix(s, t), NEW n \in Len(s)..Len(t)
    PROVE  /\ SubSeq(t, Len(s) + 1, n) \in Seq(S)
           /\ Len(SubSeq(t, Len(s) + 1, n)) = n - Len(s)
           /\ \A i \in 1..(n - Len(s)) : SubSeq(t, Len(s) + 1, n)[i] = t[Len(s) + i]
           /\ n = Len(t) => s \o SubSeq(t, Len(s) + 1, n) = t
<1> DEFINE rest == SubSeq(t, Len(s) + 1, n)
<1>1. /\ Len(s) \in Nat /\ Len(t) \in Nat /\ n \in Nat /\ Len(s) <= n /\ n <= Len(t)
      /\ \A i \in 1..Len(t) : t[i] \in S
      /\ \A i \in 1..Len(s) : s[i] = t[i]
  BY LenProperties, ElementOfSeq, PrefixParts
<1>2. \A i \in (Len(s) + 1)..n : t[i] \in S
  BY <1>1
<1>3. /\ rest \in Seq(S)
      /\ Len(rest) = IF Len(s) + 1 <= n THEN n - (Len(s) + 1) + 1 ELSE 0
      /\ \A i \in 1..(n - (Len(s) + 1) + 1) : rest[i] = t[(Len(s) + 1) + i - 1]
  BY <1>1, <1>2, SubSeqProperties
<1> HIDE DEF rest
<1>4. Len(rest) = n - Len(s) /\ \A i \in 1..(n - Len(s)) : rest[i] = t[Len(s) + i]
  BY <1>1, <1>3
<1>5. ASSUME n = Len(t)
      PROVE  s \o rest = t
  <2>1. /\ s \o rest \in Seq(S)
        /\ Len(s \o rest) = Len(s) + Len(rest)
        /\ \A i \in 1..(Len(s) + Len(rest)) :
              (s \o rest)[i] = IF i <= Len(s) THEN s[i] ELSE rest[i - Len(s)]
    BY <1>3, ConcatProperties
  <2>2. Len(s \o rest) = Len(t)
    BY <1>1, <1>4, <1>5, <2>1
  <2>3. ASSUME NEW i \in 1..Len(t)
        PROVE  (s \o rest)[i] = t[i]
    <3>1. CASE i <= Len(s)
      BY <1>1, <1>4, <1>5, <2>1, <3>1
    <3>2. CASE ~(i <= Len(s))
      <4>1. i - Len(s) \in 1..(n - Len(s)) /\ Len(s) + (i - Len(s)) = i
        BY <1>1, <1>5, <3>2
      <4>2. rest[i - Len(s)] = t[i]
        BY <1>4, <4>1
      <4>3. i \in 1..(Len(s) + Len(rest))
        BY <1>1, <1>4, <1>5
      <4>4. QED
        BY <2>1, <3>2, <4>2, <4>3
    <3>3. QED
      BY <3>1, <3>2
  <2>4. QED
    BY <2>1, <2>2, <2>3, SeqEqual
<1>6. QED
  BY <1>3, <1>4, <1>5 DEF rest

LEMMA TrimParts ==
    ASSUME NEW S, NEW p \in Seq(S)
    PROVE  /\ Trim(p) \in Seq(S)
           /\ Len(Trim(p)) \in Nat
           /\ Len(Trim(p)) <= Len(p)
           /\ Len(p) <= Len(Trim(p)) + 1
           /\ \A i \in 1..Len(Trim(p)) : Trim(p)[i] = p[i]
<1>1. Trim(p) \in Seq(S) /\ Len(Trim(p)) \in Nat /\ Len(p) \in Nat
  BY TrimType, LenProperties
<1>2. CASE p # << >> /\ p[Len(p)] = Separator
  <2>1. Len(p) # 0
    BY <1>2, EmptySeq
  <2>2. /\ Len(SubSeq(p, 1, Len(p) - 1)) = Len(p) - 1
        /\ \A i \in 1..(Len(p) - 1) : SubSeq(p, 1, Len(p) - 1)[i] = p[i]
    <3> DEFINE n == Len(p) - 1
    <3>1. n \in Nat /\ \A i \in 1..n : p[i] \in S
      BY <1>1, <2>1, ElementOfSeq
    <3> HIDE DEF n
    <3>2. /\ Len(SubSeq(p, 1, n)) = IF 1 <= n THEN n - 1 + 1 ELSE 0
          /\ \A i \in 1..(n - 1 + 1) : SubSeq(p, 1, n)[i] = p[1 + i - 1]
      BY <3>1, SubSeqProperties
    <3>3. Len(SubSeq(p, 1, n)) = n /\ \A i \in 1..n : SubSeq(p, 1, n)[i] = p[i]
      BY <3>1, <3>2
    <3>4. QED
      BY <3>3 DEF n
  <2>3. QED
    BY <1>1, <1>2, <2>2 DEF Trim
<1>3. CASE ~(p # << >> /\ p[Len(p)] = Separator)
  BY <1>1, <1>3 DEF Trim
<1>4. QED
  BY <1>2, <1>3

(* Comparison with case ignored, name by name.                             *)
LEMMA FoldParts ==
    ASSUME NEW S, NEW p \in Seq(S)
    PROVE  /\ FoldPath(p) \in Seq({FoldName(n) : n \in S})
           /\ Len(FoldPath(p)) = Len(p)
           /\ \A i \in 1..Len(p) : FoldPath(p)[i] = FoldName(p[i])
<1>1. DOMAIN p = 1..Len(p) /\ Len(p) \in Nat /\ \A i \in 1..Len(p) : p[i] \in S
  BY LenProperties, ElementOfSeq
<1>2. FoldPath(p) = [i \in 1..Len(p) |-> FoldName(p[i])]
  BY <1>1 DEF FoldPath
<1>3. FoldPath(p) \in [1..Len(p) -> {FoldName(n) : n \in S}]
  BY <1>1, <1>2
<1>4. QED
  BY <1>1, <1>2, <1>3, SeqDef, LenProperties

LEMMA SubPathParts ==
    ASSUME NEW S, NEW p \in Seq(S), NEW q \in Seq(S)
    PROVE  IsSameOrSubPath(p, q) <=>
              /\ Len(Trim(q)) <= Len(Trim(p))
              /\ \A i \in 1..Len(Trim(q)) : FoldName(Trim(q)[i]) = FoldName(Trim(p)[i])
<1> DEFINE F == {FoldName(n) : n \in S}
<1>1. Trim(p) \in Seq(S) /\ Trim(q) \in Seq(S) /\ Len(Trim(p)) \in Nat /\ Len(Trim(q)) \in Nat
  BY TrimParts
<1>2. /\ FoldPath(Trim(p)) \in Seq(F) /\ FoldPath(Trim(q)) \in Seq(F)
      /\ Len(FoldPath(Trim(p))) = Len(Trim(p)) /\ Len(FoldPath(Trim(q))) = Len(Trim(q))
      /\ \A i \in 1..Len(Trim(p)) : FoldPath(Trim(p))[i] = FoldName(Trim(p)[i])
      /\ \A i \in 1..Len(Trim(q)) : FoldPath(Trim(q))[i] = FoldName(Trim(q)[i])
  BY <1>1, FoldParts
<1> HIDE DEF F
<1>3. IsPrefix(FoldPath(Trim(q)), FoldPath(Trim(p))) <=>
          /\ Len(Trim(q)) <= Len(Trim(p))
          /\ \A i \in 1..Len(Trim(q)) : FoldPath(Trim(q))[i] = FoldPath(Trim(p))[i]
  BY <1>2, PrefixParts
<1>4. QED
  BY <1>1, <1>2, <1>3 DEF IsSameOrSubPath

(* Where there are no links, the place of a path is the path itself, as    *)
(* its names are stored.                                                   *)
LEMMA PlaceWithoutLinks ==
    ASSUME NEW Names, LooksUp(Names), DOMAIN Links = {}, NEW path \in Seq(Names)
    PROVE  /\ Place(path) \in Seq(Names)
           /\ Len(Place(path)) = Len(Trim(path))
           /\ Len(Trim(path)) \in Nat
           /\ \A i \in 1..Len(Trim(path)) : Place(path)[i] = Stored(Trim(path)[i])
           /\ DirectoryExists(path) = (Place(path) \in folders)
<1> DEFINE names == Trim(path)
<1>1. names \in Seq(Names) /\ Len(names) \in Nat /\ \A i \in 1..Len(names) : names[i] \in Names
  BY TrimParts, ElementOfSeq
<1>2. PICK f : Leads(f, names, Names) /\ Reached(path) = f[Len(names)]
  BY ReachedLeads
<1> HIDE DEF names
<1> DEFINE T == {n \in 0..Len(names) :
                    /\ f[n].place \in Seq(Names)
                    /\ Len(f[n].place) = n
                    /\ f[n].links = 0
                    /\ \A i \in 1..n : f[n].place[i] = Stored(names[i])}
<1>3. 0 \in T
  <2>1. f[0].place = << >> /\ f[0].links = 0
    BY <1>2 DEF Leads, Nowhere
  <2>2. << >> \in Seq(Names) /\ Len(<< >>) = 0
    BY EmptySeq
  <2>3. 0 \in 0..Len(names) /\ \A i \in 1..0 : FALSE
    BY <1>1
  <2>4. QED
    BY <2>1, <2>2, <2>3, Zenon
<1>4. ASSUME NEW n \in 0..Len(names), n \in T, n + 1 <= Len(names)
      PROVE  n + 1 \in T
  <2>1. n + 1 \in 1..Len(names) /\ (n + 1) - 1 = n /\ n \in Nat
    BY <1>1, <1>4
  <2>2. f[n + 1] = Follow(f[n], names[n + 1])
    BY <1>2, <2>1 DEF Leads
  <2>3. f[n + 1] = [place |-> Append(f[n].place, Stored(names[n + 1])), links |-> f[n].links]
    BY <2>2 DEF Follow
  <2>4. f[n].place \in Seq(Names) /\ Len(f[n].place) = n /\ Stored(names[n + 1]) \in Names
    BY <1>1, <1>4, <2>1 DEF LooksUp
  <2>5. /\ f[n + 1].place \in Seq(Names)
        /\ Len(f[n + 1].place) = n + 1
        /\ f[n + 1].links = 0
        /\ \A i \in 1..n : f[n + 1].place[i] = f[n].place[i]
        /\ f[n + 1].place[n + 1] = Stored(names[n + 1])
    BY <1>4, <2>3, <2>4, AppendParts
  <2>6. \A i \in 1..(n + 1) : f[n + 1].place[i] = Stored(names[i])
    <3>1. \A i \in 1..n : f[n].place[i] = Stored(names[i])
      BY <1>4
    <3>2. \A i \in 1..(n + 1) : i \in 1..n \/ i = n + 1
      BY <2>1
    <3> HIDE DEF T
    <3>3. QED
      BY <2>5, <3>1, <3>2
  <2>7. QED
    BY <1>1, <2>1, <2>5, <2>6
<1>5. Len(names) \in T
  <2> HIDE DEF T
  <2>1. 0..Len(names) \subseteq T
    BY <1>1, <1>3, <1>4, UpTo
  <2>2. QED
    BY <1>1, <2>1
<1>6. Openable(path)
  BY <1>2, <1>5, FileTreeAssumption DEF Openable
<1>7. QED
  BY <1>1, <1>2, <1>5, <1>6 DEF Place, DirectoryExists, names

-----------------------------------------------------------------------------
(* What is above a place.                                                  *)
LEMMA PrefixOfPrefix ==
    ASSUME NEW S, NEW p \in Seq(S), NEW q \in Seq(S), NEW t \in Seq(S),
           IsPrefix(p, q), IsPrefix(q, t)
    PROVE  IsPrefix(p, t)
<1>1. Len(p) \in Nat /\ Len(q) \in Nat /\ Len(t) \in Nat
  BY LenProperties
<1>2. Len(p) <= Len(q) /\ \A i \in 1..Len(p) : p[i] = q[i]
  BY PrefixParts
<1>3. Len(q) <= Len(t) /\ \A i \in 1..Len(q) : q[i] = t[i]
  BY PrefixParts
<1>4. Len(p) <= Len(t) /\ \A i \in 1..Len(p) : p[i] = t[i]
  BY <1>1, <1>2, <1>3
<1>5. QED
  BY <1>4, PrefixParts

LEMMA WithParentsParts ==
    ASSUME NEW S, NEW t \in Seq(S)
    PROVE  \A q : q \in WithParents(t) <=> q \in Seq(S) /\ IsPrefix(q, t)
<1>1. Len(t) \in Nat /\ \A i \in 1..Len(t) : t[i] \in S
  BY LenProperties, ElementOfSeq
<1>2. ASSUME NEW n \in 0..Len(t)
      PROVE  /\ SubSeq(t, 1, n) \in Seq(S)
             /\ Len(SubSeq(t, 1, n)) = n
             /\ \A i \in 1..n : SubSeq(t, 1, n)[i] = t[i]
             /\ IsPrefix(SubSeq(t, 1, n), t)
  <2>1. n \in Nat /\ n <= Len(t) /\ \A i \in 1..n : t[i] \in S
    BY <1>1
  <2>2. /\ SubSeq(t, 1, n) \in Seq(S)
        /\ Len(SubSeq(t, 1, n)) = IF 1 <= n THEN n - 1 + 1 ELSE 0
        /\ \A i \in 1..(n - 1 + 1) : SubSeq(t, 1, n)[i] = t[1 + i - 1]
    BY <2>1, SubSeqProperties
  <2> DEFINE head == SubSeq(t, 1, n)
  <2> HIDE DEF head
  <2>3. head \in Seq(S) /\ Len(head) = n /\ \A i \in 1..n : head[i] = t[i]
    BY <2>1, <2>2 DEF head
  <2>4. IsPrefix(head, t)
    BY <2>1, <2>3, PrefixParts
  <2>5. QED
    BY <2>3, <2>4 DEF head
<1>3. ASSUME NEW q \in Seq(S), IsPrefix(q, t)
      PROVE  Len(q) \in 0..Len(t) /\ q = SubSeq(t, 1, Len(q))
  <2>1. Len(q) \in 0..Len(t) /\ \A i \in 1..Len(q) : q[i] = t[i]
    BY <1>1, <1>3, PrefixParts, LenProperties
  <2>2. QED
    BY <1>2, <2>1, SeqEqual
<1>4. QED
  BY <1>2, <1>3 DEF WithParents

LEMMA AboveAppend ==
    ASSUME NEW S, NEW p \in Seq(S), NEW n \in S, NEW q \in Seq(S)
    PROVE  /\ IsPrefix(p, Append(p, n))
           /\ IsPrefix(q, Append(p, n)) => q = Append(p, n) \/ IsPrefix(q, p)
<1> DEFINE t == Append(p, n)
<1>1. /\ t \in Seq(S) /\ Len(t) = Len(p) + 1 /\ Len(p) \in Nat /\ Len(q) \in Nat
      /\ \A i \in 1..Len(p) : t[i] = p[i]
  BY AppendParts, LenProperties
<1> HIDE DEF t
<1>2. IsPrefix(p, t)
  BY <1>1, PrefixParts
<1>3. ASSUME IsPrefix(q, t)
      PROVE  q = t \/ IsPrefix(q, p)
  <2>1. Len(q) <= Len(t) /\ \A i \in 1..Len(q) : q[i] = t[i]
    BY <1>1, <1>3, PrefixParts
  <2>2. CASE Len(q) = Len(t)
    BY <1>1, <2>1, <2>2, SeqEqual
  <2>3. CASE Len(q) # Len(t)
    <3>1. Len(q) <= Len(p) /\ \A i \in 1..Len(q) : q[i] = p[i]
      BY <1>1, <2>1, <2>3
    <3>2. QED
      BY <3>1, PrefixParts
  <2>4. QED
    BY <2>2, <2>3
<1>4. QED
  BY <1>2, <1>3 DEF t

LEMMA AboveFront ==
    ASSUME NEW S, NEW p \in Seq(S), p # << >>
    PROVE  /\ Front(p) \in Seq(S)
           /\ p[Len(p)] \in S
           /\ p = Append(Front(p), p[Len(p)])
<1>1. /\ Len(p) \in Nat /\ Len(p) # 0 /\ \A i \in 1..Len(p) : p[i] \in S
  BY LenProperties, ElementOfSeq, EmptySeq
<1>2. Len(p) - 1 \in Nat /\ \A i \in 1..(Len(p) - 1) : p[i] \in S
  BY <1>1
<1>3. /\ Front(p) \in Seq(S)
      /\ Len(Front(p)) = Len(p) - 1
      /\ \A i \in 1..(Len(p) - 1) : Front(p)[i] = p[i]
  <2>1. PICK k \in Nat : k = Len(p) - 1
    BY <1>2
  <2>2. /\ SubSeq(p, 1, k) \in Seq(S)
        /\ Len(SubSeq(p, 1, k)) = IF 1 <= k THEN k - 1 + 1 ELSE 0
        /\ \A i \in 1..(k - 1 + 1) : SubSeq(p, 1, k)[i] = p[1 + i - 1]
    BY <1>2, <2>1, SubSeqProperties
  <2> DEFINE front == SubSeq(p, 1, k)
  <2>3. Front(p) = front
    BY <2>1 DEF Front
  <2> HIDE DEF front
  <2>4. front \in Seq(S) /\ Len(front) = k /\ \A i \in 1..k : front[i] = p[i]
    BY <2>2 DEF front
  <2>5. QED
    BY <2>1, <2>3, <2>4
<1> DEFINE front == Front(p)
           last == p[Len(p)]
           whole == Append(front, last)
<1>4. last \in S
  BY <1>1
<1>5. /\ front \in Seq(S)
      /\ Len(front) = Len(p) - 1
      /\ \A i \in 1..(Len(p) - 1) : front[i] = p[i]
  BY <1>3
<1> HIDE DEF front, last
<1>6. /\ whole \in Seq(S) /\ Len(whole) = Len(front) + 1
      /\ \A i \in 1..Len(front) : whole[i] = front[i]
      /\ whole[Len(front) + 1] = last
  BY <1>4, <1>5, AppendProperties
<1> HIDE DEF whole
<1>7. Len(whole) = Len(p) /\ \A i \in 1..Len(whole) : whole[i] = p[i]
  <2>1. Len(whole) = Len(p)
    BY <1>1, <1>5, <1>6
  <2>2. ASSUME NEW i \in 1..Len(whole), i # Len(p)
        PROVE  whole[i] = p[i]
    BY <1>1, <1>5, <1>6, <2>1, <2>2
  <2>3. whole[Len(p)] = p[Len(p)]
    BY <1>1, <1>5, <1>6 DEF last
  <2>4. QED
    BY <2>1, <2>2, <2>3
<1>8. whole = p
  BY <1>6, <1>7, SeqEqual
<1>9. QED
  BY <1>4, <1>5, <1>8 DEF whole, front, last
=============================================================================
