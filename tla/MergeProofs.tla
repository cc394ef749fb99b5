----------------------------- MODULE MergeProofs -----------------------------
(***************************************************************************)
(* Theorems about Merge, for every set of paths, every two checkouts,      *)
(* every list of purge paths and every end of a link above one of them.    *)
(***************************************************************************)
EXTENDS Merge, TLAPS

-----------------------------------------------------------------------------
(* The inductive invariant.                                                *)

\* The inputs are what the run began with, and nothing but the purge touches
\* the hidden tests.
Given ==
  /\ inputs.student \in Checkouts("student")
  /\ inputs.hidden \in Checkouts("hidden")
  /\ inputs.purge \in PurgeLists
  /\ leads \in LinkEnds
  /\ step \in {"overlay", "hide"} => \A x \in AllPaths : tests[x] = Suite(x)

\* The student's tree and the hidden tests without what is purged by some path
\* of list.
Kept(list, x) ==
  IF Gone(list, "project", x) THEN "absent" ELSE inputs.student[x]
Spared(list, x) ==
  IF Gone(list, "tests", x) THEN "absent" ELSE inputs.hidden[x]

\* An entry that is yet to handle, or lies below one.
Pending(x) == \E q \in todo : IsPrefix(q, x)

\* What the steps up to the end of the purge have left.
Purging ==
  /\ step \in {"size", "strip"} =>
       /\ purge = inputs.purge
       /\ project = inputs.student /\ tests = inputs.hidden
  /\ step = "purge" =>
       /\ \A x \in Paths : project[x] = Kept(inputs.purge \ purge, x)
       /\ \A x \in AllPaths : tests[x] = Spared(inputs.purge \ purge, x)

\* Nothing to handle lies below anything else to handle, and what is not yet
\* reached is as the purge has left it.
Overlaying ==
  step = "overlay" =>
    /\ todo \subseteq Paths \cup {Git}
    /\ \A p, q \in todo : IsPrefix(p, q) => p = q
    /\ \A p \in todo : Suite(p) # "absent"
    /\ \A x \in Paths : project[x] =
         IF Pending(x) THEN Kept(inputs.purge, x) ELSE MergedTree(x)

\* What the overlay leaves is the merged tree.
Merged ==
  step \in {"hide", "done"} => \A x \in Paths : project[x] = MergedTree(x)

\* Without a failure of the disk nothing of .git is left.
Stripped ==
  step \in {"purge", "overlay", "hide", "done"} /\ ~broken =>
    \A x \in AllPaths \ Paths : project[x] = "absent"

Inv == /\ TypeOK /\ Given /\ Purging /\ Overlaying /\ Merged /\ Stripped
       /\ AlwaysMerges

-----------------------------------------------------------------------------
(* Paths and prefixes.                                                     *)

Entry == Names \cup {".git", "HEAD"}

\* What .git is made of.
LEMMA GitPaths ==
  LET HEAD == Append(Git, "HEAD")
  IN  /\ Git \in Seq(Entry) /\ Len(Git) = 1 /\ Git[1] = ".git"
      /\ HEAD \in Seq(Entry) /\ Len(HEAD) = 2 /\ HEAD[1] = ".git"
      /\ Git \notin Paths /\ HEAD \notin Paths
      /\ AllPaths = Paths \cup {Git, HEAD}
<1>1. Git \in Seq(Entry) /\ Len(Git) = 1 /\ Git[1] = ".git"
  BY DEF Git, Entry
<1>2. "HEAD" \in Entry
  BY DEF Entry
<1>3. /\ Append(Git, "HEAD") \in Seq(Entry)
      /\ Len(Append(Git, "HEAD")) = 2
      /\ Append(Git, "HEAD")[1] = ".git"
  BY <1>1, <1>2
<1>4. ASSUME NEW p \in Paths PROVE p[1] # ".git"
  BY MergeAssumption
<1>5. QED
  BY <1>1, <1>3, <1>4 DEF AllPaths

\* A path is a sequence of at least one name.
LEMMA PathType ==
  ASSUME NEW p \in AllPaths
  PROVE  p \in Seq(Entry) /\ Len(p) \in Nat \ {0}
<1>1. CASE p \in Paths
  <2>1. p \in Seq(Names) /\ p # <<>>
    BY <1>1, MergeAssumption
  <2>2. p \in Seq(Entry)
    BY <2>1 DEF Entry
  <2>3. QED
    BY <2>1, <2>2
<1>2. CASE p \in {Git, Append(Git, "HEAD")}
  BY <1>2, GitPaths
<1>3. QED
  BY <1>1, <1>2, GitPaths

\* A prefix agrees with the path as far as it goes.
LEMMA PrefixAgrees ==
  ASSUME NEW p \in Seq(Entry), NEW q \in Seq(Entry)
  PROVE  IsPrefix(p, q) <=>
           Len(p) <= Len(q) /\ \A i \in 1..Len(p) : p[i] = q[i]
<1>1. ASSUME Len(p) <= Len(q)
      PROVE  SubSeq(p, 1, Len(p)) = SubSeq(q, 1, Len(p)) <=>
               \A i \in 1..Len(p) : p[i] = q[i]
  <2>1. SubSeq(p, 1, Len(p)) = [i \in 1..Len(p) |-> p[i]]
    OBVIOUS
  <2>2. SubSeq(q, 1, Len(p)) = [i \in 1..Len(p) |-> q[i]]
    BY <1>1
  <2>3. QED
    BY <2>1, <2>2
<1>2. QED
  BY <1>1 DEF IsPrefix

\* A prefix of a prefix is a prefix.
LEMMA PrefixThrough ==
  ASSUME NEW p \in Seq(Entry), NEW q \in Seq(Entry), NEW x \in Seq(Entry),
         IsPrefix(p, q), IsPrefix(q, x)
  PROVE  IsPrefix(p, x)
BY PrefixAgrees

\* The paths are a forest under IsPrefix.
LEMMA PrefixOrder ==
  ASSUME NEW p \in AllPaths, NEW q \in AllPaths, NEW x \in AllPaths
  PROVE  /\ IsPrefix(p, p)
         /\ IsPrefix(p, q) /\ IsPrefix(q, x) => IsPrefix(p, x)
         /\ IsPrefix(p, q) /\ IsPrefix(q, p) => p = q
         /\ IsPrefix(p, x) /\ IsPrefix(q, x) => IsPrefix(p, q) \/ IsPrefix(q, p)
<1>1. /\ p \in Seq(Entry) /\ Len(p) \in Nat
      /\ q \in Seq(Entry) /\ Len(q) \in Nat
      /\ x \in Seq(Entry) /\ Len(x) \in Nat
  BY PathType
<1>2. IsPrefix(p, p)
  BY <1>1, PrefixAgrees
<1>3. IsPrefix(p, q) /\ IsPrefix(q, x) => IsPrefix(p, x)
  BY <1>1, PrefixAgrees
<1>4. IsPrefix(p, q) /\ IsPrefix(q, p) => p = q
  BY <1>1, PrefixAgrees
<1>5. IsPrefix(p, x) /\ IsPrefix(q, x) => IsPrefix(p, q) \/ IsPrefix(q, p)
  BY <1>1, PrefixAgrees
<1>6. QED
  BY <1>2, <1>3, <1>4, <1>5

\* The first names of a path are a path.
LEMMA Closed ==
  ASSUME NEW x \in AllPaths, NEW n \in 1..Len(x)
  PROVE  /\ SubSeq(x, 1, n) \in AllPaths
         /\ Len(SubSeq(x, 1, n)) = n
         /\ IsPrefix(SubSeq(x, 1, n), x)
         /\ x \in Paths => SubSeq(x, 1, n) \in Paths
<1>1. x \in Seq(Entry) /\ Len(x) \in Nat
  BY PathType
<1>2. SubSeq(x, 1, n) \in Seq(Entry) /\ Len(SubSeq(x, 1, n)) = n
  BY <1>1
<1>3. IsPrefix(SubSeq(x, 1, n), x)
  <2>1. \A i \in 1..n : SubSeq(x, 1, n)[i] = x[i]
    BY <1>1
  <2>2. n <= Len(x)
    OBVIOUS
  <2>3. QED
    BY <1>1, <1>2, <2>1, <2>2, PrefixAgrees
<1>4. CASE x \in Paths
  <2>1. SubSeq(x, 1, n) \in Paths
    BY <1>4, MergeAssumption
  <2>2. QED
    BY <1>2, <1>3, <2>1 DEF AllPaths
<1>5. CASE x = Git
  <2>1. n = 1 /\ SubSeq(x, 1, n) = x
    BY <1>1, <1>5, GitPaths
  <2>2. QED
    BY <1>2, <1>3, <2>1
<1>6. CASE x = Append(Git, "HEAD")
  <2>1. CASE n = 1
    <3>1. SubSeq(x, 1, n) = Git
      BY <1>1, <1>2, <1>6, <2>1, GitPaths
    <3>2. QED
      BY <1>2, <1>3, <1>6, <3>1, GitPaths
  <2>2. CASE n = 2
    <3>1. SubSeq(x, 1, n) = x
      BY <1>1, <1>6, <2>2, GitPaths
    <3>2. QED
      BY <1>2, <1>3, <3>1
  <2>3. QED
    BY <1>6, <2>1, <2>2, GitPaths
<1>7. QED
  BY <1>4, <1>5, <1>6, GitPaths

\* Nothing of .git is above or below a path of the checkout.
LEMMA GitApart ==
  ASSUME NEW q \in AllPaths \ Paths
  PROVE  /\ IsPrefix(Git, q) /\ Git \notin Paths
         /\ \A p \in Paths : ~IsPrefix(p, q) /\ ~IsPrefix(q, p)
<1>1. q \in Seq(Entry) /\ Len(q) \in Nat \ {0} /\ q[1] = ".git"
  BY PathType, GitPaths
<1>2. ASSUME NEW p \in Paths
      PROVE  ~IsPrefix(p, q) /\ ~IsPrefix(q, p)
  <2>1. p \in Seq(Entry) /\ Len(p) \in Nat \ {0} /\ p[1] # ".git"
    BY PathType, MergeAssumption DEF AllPaths
  <2>2. QED
    BY <1>1, <2>1, PrefixAgrees
<1>3. IsPrefix(Git, q)
  BY <1>1, GitPaths, PrefixAgrees
<1>4. QED
  BY <1>2, <1>3, GitPaths

\* Between a path and one below it there is an entry of the former, and no two
\* entries of a directory are above one another.
LEMMA EntryOnTheWay ==
  ASSUME NEW p \in AllPaths, NEW x \in AllPaths, IsPrefix(p, x), p # x
  PROVE  \E c \in AllPaths :
           /\ Len(c) = Len(p) + 1 /\ IsPrefix(p, c) /\ IsPrefix(c, x)
           /\ x \in Paths => c \in Paths
<1>1. /\ p \in Seq(Entry) /\ Len(p) \in Nat \ {0}
      /\ x \in Seq(Entry) /\ Len(x) \in Nat \ {0}
  BY PathType
<1>2. Len(p) < Len(x)
  BY <1>1, PrefixAgrees
<1> DEFINE c == SubSeq(x, 1, Len(p) + 1)
<1>3. /\ c \in AllPaths /\ Len(c) = Len(p) + 1 /\ IsPrefix(c, x)
      /\ x \in Paths => c \in Paths
  BY <1>1, <1>2, Closed
<1>4. IsPrefix(p, c)
  <2>1. c \in Seq(Entry)
    BY <1>3, PathType
  <2>2. \A i \in 1..Len(p) : p[i] = x[i] /\ c[i] = x[i]
    BY <1>1, <1>2, PrefixAgrees
  <2>3. /\ Len(p) <= Len(c)
        /\ \A i \in 1..Len(p) : p[i] = c[i]
    BY <1>1, <1>3, <2>2
  <2>4. QED
    BY <1>1, <2>1, <2>3, PrefixAgrees
<1>5. QED
  BY <1>3, <1>4

\* The entries of a directory are apart from one another, and below nothing
\* that is not above the directory.
LEMMA EntriesApart ==
  ASSUME NEW c \in AllPaths, NEW d \in AllPaths, Len(c) = Len(d),
         IsPrefix(c, d)
  PROVE  c = d
BY PathType, PrefixAgrees

\* What is above an entry is the entry, its directory, or above that.
LEMMA AboveEntry ==
  ASSUME NEW p \in AllPaths, NEW c \in AllPaths, NEW q \in AllPaths,
         Len(c) = Len(p) + 1, IsPrefix(p, c), IsPrefix(q, c)
  PROVE  q = c \/ IsPrefix(q, p)
<1>1. /\ p \in Seq(Entry) /\ Len(p) \in Nat \ {0}
      /\ c \in Seq(Entry) /\ Len(c) \in Nat \ {0}
      /\ q \in Seq(Entry) /\ Len(q) \in Nat \ {0}
  BY PathType
<1>2. CASE Len(q) = Len(c)
  BY <1>2, EntriesApart
<1>3. CASE Len(q) < Len(c)
  BY <1>1, <1>3, PrefixAgrees
<1>4. QED
  BY <1>1, <1>2, <1>3, PrefixAgrees

\* The directory of an entry is a path above it.
LEMMA ParentAbove ==
  ASSUME NEW p \in AllPaths, ~Top(p)
  PROVE  /\ Parent(p) \in AllPaths /\ IsPrefix(Parent(p), p) /\ Parent(p) # p
         /\ p \in Paths => Parent(p) \in Paths
<1>1. Len(p) \in Nat \ {0} /\ Len(p) # 1
  BY PathType DEF Top
<1>2. \A n \in Nat \ {0, 1} : n - 1 \in 1..n /\ n - 1 # n
  OBVIOUS
<1>3. Len(p) - 1 \in 1..Len(p) /\ Len(p) - 1 # Len(p)
  BY <1>1, <1>2
<1>4. Parent(p) = SubSeq(p, 1, Len(p) - 1)
  BY DEF Parent, Front
<1>5. QED
  BY <1>3, <1>4, Closed

\* Every path lies in or at an entry of the root.
LEMMA RootEntry ==
  ASSUME NEW x \in AllPaths
  PROVE  \E c \in AllPaths :
           Len(c) = 1 /\ IsPrefix(c, x) /\ (x \in Paths => c \in Paths)
<1>1. 1 \in 1..Len(x)
  BY PathType
<1>2. QED
  BY <1>1, Closed

\* Above what is there, there are directories only.
LEMMA CheckoutShape ==
  ASSUME NEW repo, NEW t \in Checkouts(repo)
  PROVE  /\ t \in [AllPaths -> {"absent", "link", "dir", repo}]
         /\ t[Git] = "dir" /\ t[Append(Git, "HEAD")] = repo
         /\ \A p, q \in Paths :
              IsPrefix(p, q) /\ p # q /\ t[q] # "absent" => t[p] = "dir"
<1>1. PICK u \in [Paths -> {"absent", "link", "dir", repo}] :
        /\ \A p \in Paths : u[p] = "dir" <=>
             \E q \in Paths : IsStrictPrefix(p, q) /\ u[q] # "absent"
        /\ t = [p \in AllPaths |-> CASE p \in Paths -> u[p]
                                     [] p = Git -> "dir"
                                     [] OTHER -> repo]
  BY DEF Checkouts
<1>2. Git # Append(Git, "HEAD")
  BY GitPaths
<1>3. QED
  BY <1>1, <1>2, GitPaths DEF IsStrictPrefix

-----------------------------------------------------------------------------
(* What the merged tree is, seen from one entry.                           *)

\* A purge path leads to a sequence of names.
LEMMA ReachedPath ==
  ASSUME Given, NEW q \in inputs.purge
  PROVE  Reached(inputs.student, q).path \in Seq(Entry)
<1>1. q \in AllPaths /\ q \in Seq(Names) /\ q # <<>>
  BY MergeAssumption DEF Given, AllPaths
<1>2. q \in Seq(Entry)
  BY <1>1, PathType
<1>3. leads.dir \in Seq(Entry)
  <2>1. leads.dir \in Paths \cup {<<>>}
    BY MergeAssumption DEF Given, Elsewhere
  <2>2. <<>> \in Seq(Entry)
    OBVIOUS
  <2>3. QED
    BY <2>1, <2>2, PathType DEF AllPaths
<1>4. Last(q) \in Entry
  BY <1>1, <1>2 DEF Last
<1>5. QED
  BY <1>2, <1>3, <1>4 DEF Reached

\* What is purged is purged with all that lies below it.
LEMMA GoneBelow ==
  ASSUME Given, NEW list \in SUBSET inputs.purge, NEW tree,
         NEW p \in AllPaths, NEW x \in AllPaths, IsPrefix(p, x),
         Gone(list, tree, p)
  PROVE  Gone(list, tree, x)
<1>1. PICK q \in list : /\ Reached(inputs.student, q).tree = tree
                        /\ IsPrefix(Reached(inputs.student, q).path, p)
  BY DEF Gone
<1>2. Reached(inputs.student, q).path \in Seq(Entry)
  BY ReachedPath
<1>3. IsPrefix(Reached(inputs.student, q).path, x)
  BY <1>1, <1>2, PathType, PrefixThrough
<1>4. QED
  BY <1>1, <1>3 DEF Gone

\* What is promised of the merged tree lasts as long as the inputs.
LEMMA Lasting ==
  ASSUME UNCHANGED <<leads, inputs>>
  PROVE  \A x : /\ Suite(x)' = Suite(x) /\ MergedTree(x)' = MergedTree(x)
               /\ Kept(inputs.purge, x)' = Kept(inputs.purge, x)
BY DEF MergedTree, Replaced, Suite, Kept, Gone, Reached, Linked

\* What an entry of the hidden tests may be.
LEMMA SuiteKinds ==
  ASSUME Given, NEW p \in AllPaths
  PROVE  Suite(p) \in {"absent", "link", "dir", "hidden"}
BY CheckoutShape DEF Given, Suite

\* Below what is not a directory there is nothing.
LEMMA NothingBelow ==
  ASSUME Given, NEW p \in Paths, NEW x \in Paths, IsPrefix(p, x), p # x
  PROVE  /\ Suite(p) # "dir" => Suite(x) = "absent"
         /\ inputs.student[p] # "dir" => inputs.student[x] = "absent"
<1>1. inputs.hidden[p] # "dir" => inputs.hidden[x] = "absent"
  BY CheckoutShape DEF Given
<1>2. inputs.student[p] # "dir" => inputs.student[x] = "absent"
  BY CheckoutShape DEF Given
<1>3. Gone(inputs.purge, "tests", p) => Gone(inputs.purge, "tests", x)
  BY GoneBelow DEF AllPaths
<1>4. QED
  BY <1>1, <1>2, <1>3 DEF Suite

\* At and below an entry that overlay_copy does not write, the purged tree of
\* the student is the merged one.
LEMMA NotWritten ==
  ASSUME Given, NEW p \in Paths, NEW x \in Paths, IsPrefix(p, x),
         Suite(p) \notin {"hidden", "dir"},
         \A q \in Paths : IsPrefix(q, p) => Suite(q) # "hidden"
  PROVE  MergedTree(x) = Kept(inputs.purge, x)
<1>1. Suite(x) \notin {"hidden", "dir"}
  BY NothingBelow
<1>2. ASSUME NEW q \in Paths, IsPrefix(q, x)
      PROVE  Suite(q) # "hidden"
  <2>1. IsPrefix(q, p) \/ IsPrefix(p, q)
    BY <1>2, PrefixOrder DEF AllPaths
  <2>2. QED
    BY <2>1, NothingBelow
<1>3. QED
  BY <1>1, <1>2 DEF MergedTree, Replaced, Kept

\* Below a hidden file the merged tree is empty.
LEMMA BelowFile ==
  ASSUME Given, NEW p \in Paths, NEW x \in Paths, IsPrefix(p, x), p # x,
         Suite(p) = "hidden"
  PROVE  MergedTree(x) = "absent"
BY NothingBelow DEF MergedTree, Replaced

-----------------------------------------------------------------------------
(* overlay_copy.                                                           *)

\* The entries of the root come first.
LEMMA StartStep ==
  ASSUME Inv, StartOverlay
  PROVE  Overlaying'
<1>1. /\ Given
      /\ \A x \in Paths : project[x] = Kept(inputs.purge, x)
      /\ \A x \in AllPaths : tests[x] = Suite(x)
  <2>1. inputs.purge \ purge = inputs.purge
    BY DEF StartOverlay
  <2>2. QED
    BY <2>1 DEF Inv, Purging, StartOverlay, Spared, Suite
<1>2. UNCHANGED <<leads, inputs, project>>
  BY DEF StartOverlay
<1>3. ASSUME NEW c \in AllPaths
      PROVE  c \in todo' <=> Len(c) = 1 /\ Suite(c) # "absent"
  <2>1. <<>> \in Seq(Entry) /\ Len(<<>>) = 0
    OBVIOUS
  <2>2. c \in Seq(Entry) /\ 0 <= Len(c)
    BY PathType
  <2>3. IsPrefix(<<>>, c)
    <3>1. Len(<<>>) <= Len(c) /\ \A i \in 1..Len(<<>>) : <<>>[i] = c[i]
      BY <2>1, <2>2
    <3>2. QED
      BY <2>1, <2>2, <3>1, PrefixAgrees
  <2>4. QED
    BY <1>1, <2>1, <2>3 DEF StartOverlay, Entries
<1>4. todo' \subseteq AllPaths
  BY DEF StartOverlay, Entries
<1>5. todo' \subseteq Paths \cup {Git}
  BY <1>3, <1>4, GitPaths
<1>6. \A p, q \in todo' : IsPrefix(p, q) => p = q
  BY <1>3, <1>4, EntriesApart
<1>7. ASSUME NEW x \in Paths, ~Pending(x)'
      PROVE  MergedTree(x) = Kept(inputs.purge, x)
  <2>1. PICK c \in Paths : Len(c) = 1 /\ IsPrefix(c, x)
    BY RootEntry DEF AllPaths
  <2>2. Suite(c) = "absent"
    BY <1>3, <1>7, <2>1 DEF Pending, AllPaths
  <2>3. ASSUME NEW q \in Paths, IsPrefix(q, c) PROVE q = c
    <3>1. /\ q \in Seq(Entry) /\ Len(q) \in Nat \ {0}
          /\ c \in Seq(Entry)
      BY PathType DEF AllPaths
    <3>2. Len(q) = 1
      BY <2>1, <2>3, <3>1, PrefixAgrees
    <3>3. QED
      BY <2>1, <2>3, <3>2, EntriesApart DEF AllPaths
  <2>4. QED
    BY <1>1, <2>1, <2>2, <2>3, NotWritten
<1>8. QED
  BY <1>1, <1>2, <1>3, <1>4, <1>5, <1>6, <1>7, Lasting DEF Overlaying

\* A link of the tests, and .git, are passed over.
LEMMA SkipStep ==
  ASSUME Inv, NEW p \in AllPaths, step = "overlay", p \in todo,
         p = Git \/ tests[p] = "link",
         todo' = todo \ {p}, UNCHANGED <<step, project, leads, inputs>>
  PROVE  Overlaying'
<1>1. Given /\ Overlaying /\ \A x \in AllPaths : tests[x] = Suite(x)
  BY DEF Inv, Given
<1>2. ASSUME NEW x \in Paths, Pending(x), ~Pending(x)'
      PROVE  MergedTree(x) = Kept(inputs.purge, x)
  <2>1. IsPrefix(p, x)
    BY <1>2 DEF Pending
  <2>2. p \in Paths
    BY <2>1, GitApart
  <2>3. Suite(p) = "link"
    BY <1>1, <2>2, GitPaths
  <2>4. \A q \in Paths : IsPrefix(q, p) => Suite(q) # "hidden"
    BY <1>1, <2>2, <2>3, NothingBelow
  <2>5. QED
    BY <1>1, <2>1, <2>2, <2>3, <2>4, NotWritten
<1>3. \A x \in Paths : Pending(x)' => Pending(x)
  BY DEF Pending
<1>4. QED
  BY <1>1, <1>2, <1>3, Lasting DEF Overlaying

\* A file or directory of the tests is written, in the place of what is there.
LEMMA WriteStep ==
  ASSUME Inv, NEW p \in AllPaths, step = "overlay", p \in todo,
         p # Git, tests[p] # "link", UNCHANGED <<step, leads, inputs>>,
         todo' = (todo \ {p}) \cup Entries(p),
         LET cleared == IF Clash(p) THEN Without(project, p) ELSE project
         IN  project' = [cleared EXCEPT ![p] = Laid(p, @)]
  PROVE  Overlaying'
<1> DEFINE cleared == IF Clash(p) THEN Without(project, p) ELSE project
<1>1. /\ Given /\ Overlaying /\ \A x \in AllPaths : tests[x] = Suite(x)
      /\ project \in [AllPaths -> Kinds]
  BY DEF Inv, Given, TypeOK
<1>2. p \in Paths /\ Suite(p) \in {"hidden", "dir"}
  BY <1>1, SuiteKinds DEF Overlaying
<1>3. project[p] = Kept(inputs.purge, p)
  BY <1>1, <1>2, PrefixOrder DEF Overlaying, Pending
<1>4. /\ cleared \in [AllPaths -> Kinds]
      /\ \A x \in AllPaths : cleared[x] =
           IF Clash(p) /\ IsPrefix(p, x) THEN "absent" ELSE project[x]
  BY <1>1 DEF Without, Kinds
<1>5. project'[p] = Suite(p)
  <2>1. Laid(p, cleared[p]) = Suite(p)
    BY <1>1, <1>4, PrefixOrder DEF Laid, Clash
  <2>2. QED
    BY <1>4, <2>1
<1>6. \A x \in AllPaths : x # p => project'[x] = cleared[x]
  BY <1>4
<1>7. ASSUME NEW c \in AllPaths
      PROVE  c \in todo' <=>
        \/ c \in todo /\ c # p
        \/ Len(c) = Len(p) + 1 /\ IsPrefix(p, c) /\ Suite(c) # "absent"
  BY <1>1 DEF Entries
<1>8. ASSUME NEW c \in AllPaths, IsPrefix(p, c) PROVE c \in Paths
  BY <1>2, <1>8, GitApart
<1>9. todo' \subseteq Paths \cup {Git} /\ todo' \subseteq AllPaths
  BY <1>1, <1>8 DEF Overlaying, Entries, AllPaths
<1>10. \A q \in todo' : Suite(q) # "absent"
  BY <1>1, <1>7, <1>9 DEF Overlaying
<1>11. ASSUME NEW q \in todo', NEW r \in todo', IsPrefix(q, r) PROVE q = r
  <2>1. q \in AllPaths /\ r \in AllPaths
    BY <1>9
  <2>2. CASE q \in todo /\ q # p /\ r \in todo
    BY <1>1, <1>11, <2>2 DEF Overlaying
  <2>3. CASE Len(q) = Len(p) + 1 /\ Len(r) = Len(p) + 1
    BY <1>11, <2>1, <2>3, EntriesApart
  <2>4. CASE q \in todo /\ q # p /\ Len(r) = Len(p) + 1 /\ IsPrefix(p, r)
    <3>1. q = r \/ IsPrefix(q, p)
      BY <1>11, <2>1, <2>4, AboveEntry
    <3>2. QED
      BY <1>1, <2>4, <3>1 DEF Overlaying
  <2>5. CASE IsPrefix(p, q) /\ r \in todo /\ r # p
    <3>1. IsPrefix(p, r)
      BY <1>11, <2>1, <2>5, PrefixOrder
    <3>2. QED
      BY <1>1, <2>5, <3>1 DEF Overlaying
  <2>6. QED
    BY <1>7, <2>1, <2>2, <2>3, <2>4, <2>5
<1>12. ~Pending(p)' /\ MergedTree(p) = Suite(p)
  <2>1. ASSUME NEW q \in todo', IsPrefix(q, p) PROVE FALSE
    <3>1. CASE q \in todo /\ q # p
      BY <1>1, <2>1, <3>1 DEF Overlaying
    <3>2. CASE Len(q) = Len(p) + 1
      BY <1>9, <2>1, <3>2, PathType, PrefixAgrees
    <3>3. QED
      BY <1>7, <1>9, <2>1, <3>1, <3>2
  <2>2. QED
    BY <1>2, <2>1 DEF Pending, MergedTree
<1>13. ASSUME NEW x \in Paths, ~IsPrefix(p, x)
       PROVE  project'[x] = project[x] /\ (Pending(x)' <=> Pending(x))
  <2>1. x \in AllPaths /\ x # p
    BY <1>2, <1>13, PrefixOrder DEF AllPaths
  <2>2. project'[x] = project[x]
    BY <1>4, <1>6, <1>13, <2>1
  <2>3. ASSUME NEW q \in AllPaths, IsPrefix(q, x)
        PROVE  q \in todo' <=> q \in todo
    BY <1>7, <1>13, <2>1, <2>3, PrefixOrder
  <2>4. QED
    BY <1>1, <1>9, <2>2, <2>3 DEF Pending, Overlaying, AllPaths
<1>14. ASSUME NEW x \in Paths, IsPrefix(p, x), x # p, Suite(p) = "hidden"
       PROVE  project'[x] = "absent" /\ ~Pending(x)' /\ MergedTree(x) = "absent"
  <2>1. x \in AllPaths /\ Pending(x)
    BY <1>14 DEF AllPaths, Pending
  <2>2. project[x] = Kept(inputs.purge, x)
    BY <1>1, <2>1 DEF Overlaying
  <2>3. project'[x] = "absent"
    <3>1. CASE Clash(p)
      BY <1>4, <1>6, <1>14, <2>1, <3>1
    <3>2. CASE inputs.student[p] # "dir"
      BY <1>1, <1>2, <1>4, <1>6, <1>14, <2>1, <2>2, <3>2, NothingBelow DEF Kept
    <3>3. CASE Gone(inputs.purge, "project", p)
      <4>1. Gone(inputs.purge, "project", x)
        BY <1>1, <1>14, <2>1, <3>3, GoneBelow
      <4>2. QED
        BY <1>4, <1>6, <1>14, <2>1, <2>2, <4>1 DEF Kept
    <3>4. QED
      BY <1>1, <1>3, <1>14, <3>1, <3>2, <3>3 DEF Clash, Kept
  <2>4. ASSUME NEW q \in todo', IsPrefix(q, x) PROVE FALSE
    <3>1. CASE q \in todo /\ q # p
      <4>1. IsPrefix(q, p) \/ IsPrefix(p, q)
        BY <1>9, <1>14, <2>1, <2>4, PrefixOrder
      <4>2. QED
        BY <1>1, <3>1, <4>1 DEF Overlaying
    <3>2. CASE Len(q) = Len(p) + 1 /\ IsPrefix(p, q) /\ Suite(q) # "absent"
      <4>1. q \in Paths /\ q # p
        BY <1>8, <1>9, <3>2, PathType
      <4>2. QED
        BY <1>1, <1>2, <1>14, <3>2, <4>1, NothingBelow
    <3>3. QED
      BY <1>7, <1>9, <3>1, <3>2
  <2>5. QED
    BY <1>1, <1>2, <1>14, <2>3, <2>4, BelowFile DEF Pending
<1>15. ASSUME NEW x \in Paths, IsPrefix(p, x), x # p, Suite(p) = "dir"
       PROVE  project'[x] = IF Pending(x)' THEN Kept(inputs.purge, x)
                            ELSE MergedTree(x)
  <2>1. x \in AllPaths /\ Pending(x)
    BY <1>15 DEF AllPaths, Pending
  <2>2. project[x] = Kept(inputs.purge, x)
    BY <1>1, <2>1 DEF Overlaying
  <2>3. project'[x] = Kept(inputs.purge, x)
    <3>1. CASE Clash(p)
      <4>1. inputs.student[p] # "dir"
        BY <1>1, <1>3, <1>15, <3>1 DEF Clash, Kept
      <4>2. Kept(inputs.purge, x) = "absent"
        BY <1>1, <1>2, <1>15, <4>1, NothingBelow DEF Kept
      <4>3. QED
        BY <1>4, <1>6, <1>15, <2>1, <3>1, <4>2
    <3>2. CASE ~Clash(p)
      BY <1>4, <1>6, <1>15, <2>1, <2>2, <3>2
    <3>3. QED
      BY <3>1, <3>2
  <2>4. PICK c \in Paths :
          Len(c) = Len(p) + 1 /\ IsPrefix(p, c) /\ IsPrefix(c, x)
    BY <1>15, <2>1, EntryOnTheWay
  <2>5. CASE Suite(c) # "absent"
    BY <1>7, <2>3, <2>4, <2>5 DEF Pending, AllPaths
  <2>6. CASE Suite(c) = "absent"
    <3>1. ASSUME NEW q \in Paths, IsPrefix(q, c) PROVE Suite(q) # "hidden"
      <4>1. q = c \/ IsPrefix(q, p)
        BY <2>4, <3>1, AboveEntry DEF AllPaths
      <4>2. QED
        BY <1>1, <1>2, <1>15, <2>6, <4>1, NothingBelow
    <3>2. MergedTree(x) = Kept(inputs.purge, x)
      BY <1>1, <2>4, <2>6, <3>1, NotWritten
    <3>3. QED
      BY <2>3, <3>2
  <2>7. QED
    BY <2>5, <2>6
<1>16. ASSUME NEW x \in Paths
       PROVE  project'[x] = IF Pending(x)' THEN Kept(inputs.purge, x)
                            ELSE MergedTree(x)
  <2>1. CASE x = p
    BY <1>5, <1>12, <2>1
  <2>2. CASE ~IsPrefix(p, x)
    BY <1>1, <1>13, <2>2 DEF Overlaying
  <2>3. CASE IsPrefix(p, x) /\ x # p
    BY <1>2, <1>14, <1>15, <2>3
  <2>4. QED
    BY <2>1, <2>2, <2>3
<1>17. QED
  BY <1>9, <1>10, <1>11, <1>16, Lasting DEF Overlaying

-----------------------------------------------------------------------------
(* Every step keeps the invariant.                                         *)

\* prepare_project begins with two checkouts.
LEMMA InitInv == Init => Inv
<1> SUFFICES ASSUME Init PROVE Inv
  OBVIOUS
<1>1. inputs = [student |-> project, hidden |-> tests, purge |-> purge]
  BY DEF Init
<1>2. Given
  BY <1>1 DEF Init, Given
<1>3. TypeOK
  <2>1. project \in [AllPaths -> Kinds] /\ tests \in [AllPaths -> Kinds]
    <3>1. project \in Checkouts("student") /\ tests \in Checkouts("hidden")
      BY DEF Init
    <3>2. /\ project \in [AllPaths -> {"absent", "link", "dir", "student"}]
          /\ tests \in [AllPaths -> {"absent", "link", "dir", "hidden"}]
      BY <3>1, CheckoutShape
    <3>3. QED
      BY <3>2 DEF Kinds
  <2>2. purge \subseteq inputs.purge
    BY <1>1
  <2>3. step = "size" /\ todo = {} /\ leads \in LinkEnds /\ broken = FALSE
    BY DEF Init
  <2>4. QED
    BY <2>1, <2>2, <2>3 DEF TypeOK
<1>4. Purging /\ Overlaying /\ Merged /\ Stripped /\ AlwaysMerges
  BY <1>1 DEF Init, Purging, Overlaying, Merged, Stripped, AlwaysMerges
<1>5. QED
  BY <1>2, <1>3, <1>4 DEF Inv

\* Every step keeps the types.
LEMMA TypeOKStep ==
  ASSUME TypeOK, Next
  PROVE  TypeOK'
<1> USE DEF TypeOK, Results, Kinds, Without
<1>1. CASE CheckSize
  BY <1>1 DEF CheckSize
<1>2. CASE StripGit
  BY <1>2 DEF StripGit, Breaks
<1>3. ASSUME NEW p \in AllPaths, Purge(p) PROVE TypeOK'
  BY <1>3 DEF Purge, Purged, Breaks
<1>4. ASSUME NEW p \in AllPaths, OverlayEntry(p) PROVE TypeOK'
  <2>1. project' \in [AllPaths -> Kinds]
    BY <1>4 DEF OverlayEntry, Laid
  <2>2. todo' \subseteq AllPaths /\ step' \in {"overlay", "merge_failed"}
    BY <1>4 DEF OverlayEntry, Entries
  <2>3. QED
    BY <1>4, <2>1, <2>2 DEF OverlayEntry
<1>5. CASE StartOverlay
  BY <1>5 DEF StartOverlay, Entries
<1>6. CASE OverlayBreaks
  BY <1>6 DEF OverlayBreaks, Breaks
<1>7. CASE EndOverlay
  BY <1>7 DEF EndOverlay
<1>8. CASE RemoveTests
  BY <1>8 DEF RemoveTests, Breaks, NoTree
<1>9. QED
  BY <1>1, <1>2, <1>3, <1>4, <1>5, <1>6, <1>7, <1>8 DEF Next

\* No step touches the inputs.
LEMMA InputsStay ==
  ASSUME Next
  PROVE  UNCHANGED <<leads, inputs>>
BY DEF Next, CheckSize, StripGit, Purge, OverlayEntry, StartOverlay,
       OverlayBreaks, EndOverlay, RemoveTests, Breaks

\* Between the purge and RemoveTests the hidden tests stay as they are.
LEMMA GivenStep ==
  ASSUME Inv, Next
  PROVE  Given'
<1>1. Given /\ UNCHANGED <<leads, inputs>>
  BY InputsStay DEF Inv
<1>2. ASSUME step' \in {"overlay", "hide"}, NEW x \in AllPaths
      PROVE  tests'[x] = Suite(x)
  <2>1. CASE StartOverlay
    <3>1. inputs.purge \ purge = inputs.purge
      BY <2>1 DEF StartOverlay
    <3>2. QED
      BY <2>1, <3>1 DEF StartOverlay, Inv, Purging, Spared, Suite
  <2>2. CASE \/ EndOverlay \/ CheckSize \/ StripGit \/ OverlayBreaks
             \/ RemoveTests
    BY <1>1, <1>2, <2>2 DEF EndOverlay, CheckSize, StripGit, OverlayBreaks,
       RemoveTests, Breaks, Given
  <2>3. ASSUME NEW p \in AllPaths, Purge(p) \/ OverlayEntry(p)
        PROVE  tests'[x] = Suite(x)
    BY <1>1, <1>2, <2>3 DEF Purge, OverlayEntry, Breaks, Given
  <2>4. QED
    BY <2>1, <2>2, <2>3 DEF Next
<1>3. QED
  BY <1>1, <1>2, Lasting DEF Given

\* While a path is left to purge, it leads where it led at the beginning: only
\* a list of one path has one with a directory above it.
LEMMA ReachedAtFirst ==
  ASSUME Given, Purging, step = "purge", NEW p \in purge,
         purge \subseteq inputs.purge
  PROVE  Reached(project, p) = Reached(inputs.student, p)
<1>1. CASE Top(p)
  BY <1>1 DEF Reached, Linked
<1>2. CASE ~Top(p)
  <2>1. inputs.purge = {p} /\ p \in Paths
    BY <1>2, MergeAssumption DEF Given
  <2>2. inputs.purge \ purge = {} /\ Parent(p) \in Paths
    BY <1>2, <2>1, ParentAbove DEF AllPaths
  <2>3. project[Parent(p)] = inputs.student[Parent(p)]
    BY <2>2 DEF Purging, Kept, Gone
  <2>4. QED
    BY <2>3 DEF Reached, Linked
<1>3. QED
  BY <1>1, <1>2

\* The purge removes what its paths lead to, one after another.
LEMMA PurgingStep ==
  ASSUME Inv, Next
  PROVE  Purging'
<1>0. Given /\ TypeOK /\ Purging /\ UNCHANGED <<leads, inputs>>
  BY InputsStay DEF Inv
<1>1. CASE CheckSize
  BY <1>0, <1>1 DEF CheckSize, Purging
<1>2. CASE StripGit
  <2>1. \A x \in Paths : project'[x] = project[x]
    BY <1>0, <1>2, GitApart, GitPaths
    DEF StripGit, Breaks, Without, TypeOK, AllPaths
  <2>2. /\ step' = "purge" /\ purge' = inputs'.purge
        /\ project = inputs'.student /\ tests' = inputs'.hidden
    BY <1>0, <1>2 DEF StripGit, Breaks, Purging
  <2>3. inputs'.purge \ purge' = {}
    BY <2>2
  <2>4. QED
    BY <2>1, <2>2, <2>3 DEF Purging, Kept, Spared, Gone
<1>3. ASSUME NEW p \in AllPaths, Purge(p) PROVE Purging'
  <2>1. CASE step' = "merge_failed"
    BY <2>1 DEF Purging
  <2>2. CASE step' # "merge_failed"
    <3> DEFINE entry == Reached(inputs.student, p)
               list  == inputs.purge \ purge
    <3>1. /\ step = "purge" /\ p \in purge /\ purge \subseteq inputs.purge
          /\ entry = Reached(project, p)
      BY <1>0, <1>3, ReachedAtFirst DEF Purge, TypeOK
    <3>2. /\ step' = "purge" /\ purge' = purge \ {p}
          /\ project' = IF entry.tree = "project"
                        THEN Without(project, entry.path) ELSE project
          /\ tests' = IF entry.tree = "tests"
                      THEN Without(tests, entry.path) ELSE tests
      BY <1>3, <2>2, <3>1 DEF Purge, Breaks, Purged
    <3>3. \A tree, x : Gone(inputs.purge \ purge', tree, x) <=>
            \/ Gone(list, tree, x)
            \/ entry.tree = tree /\ IsPrefix(entry.path, x)
      <4>1. inputs.purge \ purge' = list \cup {p}
        BY <3>1, <3>2
      <4>2. QED
        BY <4>1 DEF Gone
    <3>4. ASSUME NEW x \in AllPaths
          PROVE  /\ x \in Paths => project'[x] = Kept(inputs.purge \ purge', x)
                 /\ tests'[x] = Spared(inputs.purge \ purge', x)
      <4>1. /\ x \in Paths => project[x] = Kept(list, x)
            /\ tests[x] = Spared(list, x)
        BY <1>0, <3>1 DEF Purging
      <4>2. /\ entry.tree = "project" /\ IsPrefix(entry.path, x) =>
                 project'[x] = "absent"
            /\ ~(entry.tree = "project" /\ IsPrefix(entry.path, x)) =>
                 project'[x] = project[x]
        BY <3>2 DEF Without
      <4>3. /\ entry.tree = "tests" /\ IsPrefix(entry.path, x) =>
                 tests'[x] = "absent"
            /\ ~(entry.tree = "tests" /\ IsPrefix(entry.path, x)) =>
                 tests'[x] = tests[x]
        BY <3>2 DEF Without
      <4>4. QED
        BY <3>3, <4>1, <4>2, <4>3 DEF Kept, Spared
    <3>5. ASSUME NEW x
          PROVE  /\ Kept(inputs.purge \ purge, x)' =
                      Kept(inputs.purge \ purge', x)
                 /\ Spared(inputs.purge \ purge, x)' =
                      Spared(inputs.purge \ purge', x)
      BY <1>0 DEF Kept, Spared, Gone, Reached, Linked
    <3>6. QED
      BY <3>2, <3>4, <3>5 DEF Purging, AllPaths
  <2>3. QED
    BY <2>1, <2>2
<1>4. ASSUME NEW p \in AllPaths, OverlayEntry(p) PROVE Purging'
  BY <1>4 DEF OverlayEntry, Purging
<1>5. CASE StartOverlay \/ OverlayBreaks \/ EndOverlay \/ RemoveTests
  BY <1>5 DEF StartOverlay, OverlayBreaks, EndOverlay, RemoveTests, Breaks,
     Purging
<1>6. QED
  BY <1>1, <1>2, <1>3, <1>4, <1>5 DEF Next

\* The overlay replaces the purged tree by the merged one, entry by entry.
LEMMA OverlayingStep ==
  ASSUME Inv, Next
  PROVE  Overlaying'
<1>1. CASE CheckSize \/ StripGit \/ OverlayBreaks \/ EndOverlay \/ RemoveTests
  BY <1>1 DEF CheckSize, StripGit, OverlayBreaks, EndOverlay, RemoveTests,
     Breaks, Overlaying
<1>2. ASSUME NEW p \in AllPaths, Purge(p) PROVE Overlaying'
  BY <1>2 DEF Purge, Breaks, Overlaying
<1>3. ASSUME NEW p \in AllPaths, OverlayEntry(p) PROVE Overlaying'
  <2>1. CASE step' = "merge_failed"
    BY <2>1 DEF Overlaying
  <2>2. CASE step' # "merge_failed" /\ (p = Git \/ tests[p] = "link")
    BY <1>3, <2>2, SkipStep DEF OverlayEntry
  <2>3. CASE step' # "merge_failed" /\ ~(p = Git \/ tests[p] = "link")
    BY <1>3, <2>3, WriteStep DEF OverlayEntry
  <2>4. QED
    BY <2>1, <2>2, <2>3
<1>4. CASE StartOverlay
  BY <1>4, StartStep
<1>5. QED
  BY <1>1, <1>2, <1>3, <1>4 DEF Next

\* When nothing is left to lay over, the tree is the merged one.
LEMMA MergedStep ==
  ASSUME Inv, Next
  PROVE  Merged'
<1>0. Given /\ Overlaying /\ Merged
  BY DEF Inv
<1>1. \A x \in Paths : MergedTree(x)' = MergedTree(x)
  BY InputsStay, Lasting
<1>2. CASE EndOverlay
  BY <1>0, <1>1, <1>2 DEF EndOverlay, Overlaying, Pending, Merged
<1>3. CASE RemoveTests
  BY <1>0, <1>1, <1>3 DEF RemoveTests, Breaks, Merged
<1>4. CASE CheckSize \/ StripGit \/ StartOverlay \/ OverlayBreaks
  BY <1>4 DEF CheckSize, StripGit, StartOverlay, OverlayBreaks, Breaks, Merged
<1>5. ASSUME NEW p \in AllPaths, Purge(p) \/ OverlayEntry(p) PROVE Merged'
  BY <1>5 DEF Purge, OverlayEntry, Breaks, Merged
<1>6. QED
  BY <1>2, <1>3, <1>4, <1>5 DEF Next

\* No step brings .git back.
LEMMA StrippedStep ==
  ASSUME Inv, Next
  PROVE  Stripped'
<1>0. Given /\ TypeOK /\ Stripped /\ Overlaying
  BY DEF Inv
<1>1. CASE CheckSize
  BY <1>1 DEF CheckSize, Stripped
<1>2. CASE StripGit
  BY <1>2, GitApart DEF StripGit, Breaks, Without, Stripped
<1>3. ASSUME NEW p \in AllPaths, Purge(p) PROVE Stripped'
  BY <1>0, <1>3 DEF Purge, Purged, Breaks, Without, Stripped
<1>4. ASSUME NEW p \in AllPaths, OverlayEntry(p) PROVE Stripped'
  <2>1. CASE p = Git \/ project' = project \/ step' = "merge_failed"
    BY <1>0, <1>4, <2>1 DEF OverlayEntry, Stripped
  <2>2. CASE p \in Paths /\ project' # project
    <3>1. ASSUME NEW x \in AllPaths \ Paths, project[x] = "absent"
          PROVE  project'[x] = "absent"
      BY <1>0, <1>4, <2>2, <3>1 DEF OverlayEntry, Without, TypeOK
    <3>2. QED
      BY <1>0, <1>4, <3>1 DEF OverlayEntry, Stripped
  <2>3. QED
    BY <1>0, <1>4, <2>1, <2>2 DEF OverlayEntry, Overlaying
<1>5. CASE StartOverlay \/ OverlayBreaks \/ EndOverlay \/ RemoveTests
  BY <1>0, <1>5 DEF StartOverlay, OverlayBreaks, EndOverlay, RemoveTests,
     Breaks, Stripped
<1>6. QED
  BY <1>1, <1>2, <1>3, <1>4, <1>5 DEF Next

\* What is in the way is removed first, so that the entry always fits.
LEMMA AlwaysMergesStep ==
  ASSUME Inv, Next
  PROVE  AlwaysMerges'
<1>0. Given /\ TypeOK /\ AlwaysMerges /\ Overlaying /\ Purging
  BY DEF Inv
<1>1. CASE CheckSize \/ StripGit \/ StartOverlay \/ EndOverlay \/ RemoveTests
  BY <1>1 DEF CheckSize, StripGit, StartOverlay, EndOverlay, RemoveTests,
     Breaks, AlwaysMerges
<1>2. CASE OverlayBreaks
  BY <1>2 DEF OverlayBreaks, Breaks, AlwaysMerges
<1>3. ASSUME NEW p \in AllPaths, Purge(p) PROVE AlwaysMerges'
  <2>1. CASE step' # "merge_failed" \/ broken'
    BY <2>1 DEF AlwaysMerges
  <2>2. CASE step' = "merge_failed" /\ ~broken'
    <3>1. p \in inputs.purge /\ Reached(project, p).tree = "elsewhere"
      BY <1>0, <1>3, <2>2 DEF Purge, Breaks, TypeOK
    <3>2. Reached(inputs.student, p).tree = "elsewhere"
      BY <1>0, <1>3, <3>1, ReachedAtFirst DEF Purge, TypeOK
    <3>3. UNCHANGED <<leads, inputs>>
      BY <1>3 DEF Purge, Breaks
    <3>4. QED
      BY <3>1, <3>2, <3>3 DEF AlwaysMerges, Reached, Linked
  <2>3. QED
    BY <2>1, <2>2
<1>4. ASSUME NEW p \in AllPaths, OverlayEntry(p) PROVE AlwaysMerges'
  <2>1. CASE p = Git \/ tests[p] = "link"
    BY <1>4, <2>1 DEF OverlayEntry, AlwaysMerges
  <2>2. CASE p # Git /\ tests[p] # "link"
    <3>1. tests[p] \in {"hidden", "dir"}
      BY <1>0, <1>4, <2>2, SuiteKinds DEF OverlayEntry, Overlaying, Given
    <3>2. Clash(p) => Fits(p, Without(project, p)[p])
      BY PrefixOrder DEF Without, Fits
    <3>3. ~Clash(p) => Fits(p, project[p])
      BY <1>0, <3>1 DEF Clash, Fits, TypeOK, Kinds
    <3>4. QED
      BY <1>4, <3>2, <3>3 DEF OverlayEntry, AlwaysMerges
  <2>3. QED
    BY <2>1, <2>2
<1>5. QED
  BY <1>1, <1>2, <1>3, <1>4 DEF Next

\* No step breaks the invariant.
LEMMA NextInv == Inv /\ [Next]_vars => Inv'
<1> SUFFICES ASSUME Inv, [Next]_vars PROVE Inv'
  OBVIOUS
<1>1. CASE Next
  BY <1>1, TypeOKStep, GivenStep, PurgingStep, OverlayingStep, MergedStep,
     StrippedStep, AlwaysMergesStep DEF Inv
<1>2. CASE UNCHANGED vars
  BY <1>2 DEF vars, Inv, TypeOK, Given, Purging, Overlaying, Merged, Stripped,
     AlwaysMerges, Kept, Spared, Pending, MergedTree, Replaced, Suite, Gone,
     Reached, Linked
<1>3. QED
  BY <1>1, <1>2

\* The invariant holds in every state.
LEMMA Invariance == Spec => []Inv
<1>1. QED
  BY InitInv, NextInv, PTL DEF Spec

-----------------------------------------------------------------------------
(* Theorems.                                                               *)

\* Every variable of a merge keeps its type.
THEOREM TypeCorrect == Spec => []TypeOK
<1>1. Inv => TypeOK
  BY DEF Inv
<1>2. QED
  BY <1>1, Invariance, PTL

\* Whatever the two checkouts and the purge paths are, wherever a link of the
\* student leads the purge, and in whatever order overlay_copy meets the
\* entries, merge_trees makes one tree of what the purge has left of the two,
\* and the .git of neither is left in it.
THEOREM MergesAsPromised == Spec => []MergedAsPromised
<1>1. Inv => MergedAsPromised
  BY DEF Inv, Merged, Stripped, MergedAsPromised, MergedTree
<1>2. QED
  BY <1>1, Invariance, PTL

\* Whatever links the student's checkout has, overlay_copy writes into real
\* directories only.
THEOREM AllWritesInside == Spec => []WritesStayInside
<1>1. ASSUME Inv, step = "overlay", NEW p \in todo, ~Top(p)
      PROVE  project[Parent(p)] = "dir"
  <2>1. Given /\ Overlaying /\ p \in Paths
    BY <1>1, GitPaths DEF Inv, Overlaying, Top
  <2>2. /\ Parent(p) \in Paths /\ IsPrefix(Parent(p), p) /\ Parent(p) # p
    BY <1>1, <2>1, ParentAbove DEF AllPaths
  <2>3. Suite(Parent(p)) = "dir"
    BY <1>1, <2>1, <2>2, NothingBelow DEF Overlaying
  <2>4. ASSUME NEW q \in todo, IsPrefix(q, Parent(p)) PROVE FALSE
    <3>1. q \in AllPaths
      BY <1>1, GitPaths DEF Inv, TypeOK
    <3>2. IsPrefix(q, p)
      BY <2>1, <2>2, <2>4, <3>1, PrefixOrder DEF AllPaths
    <3>3. q = p
      BY <1>1, <2>1, <3>2 DEF Overlaying
    <3>4. QED
      BY <2>1, <2>2, <2>4, <3>3, PrefixOrder DEF AllPaths
  <2>5. QED
    BY <1>1, <2>1, <2>2, <2>3, <2>4 DEF Overlaying, Pending, MergedTree
<1>2. Inv => WritesStayInside
  BY <1>1 DEF WritesStayInside
<1>3. QED
  BY <1>2, Invariance, PTL

\* Any two checkouts can be merged: only the disk makes merge_trees fail, or a
\* purge path that a link takes out of both.
THEOREM MergesAlways == Spec => []AlwaysMerges
<1>1. Inv => AlwaysMerges
  BY DEF Inv
<1>2. QED
  BY <1>1, Invariance, PTL
=============================================================================
