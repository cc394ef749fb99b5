-------------------------------- MODULE Merge --------------------------------
(***************************************************************************)
(* prepare_project after the two clones: the size check, the removal of    *)
(* .git, the purge of the student's tests, the overlay of the hidden ones  *)
(* and the removal of their checkout.                                      *)
(*                                                                         *)
(* A tree gives each path what is there.  A file is told by the repository *)
(* it came from.  A symlink at the end of a path is never followed.  One   *)
(* above the end of a purge path is followed by the system, to a place     *)
(* that is part of the input (leads).                                      *)
(***************************************************************************)
EXTENDS Naturals, Sequences, FiniteSets, SequencesExt

CONSTANTS
  Names,       \* names of files and directories that git tracks
  Paths,       \* paths of a checkout as sequences of names, without .git
  PurgeLists,  \* the purge_paths of the languages, each a set of paths
  LinkEnds,    \* where a link of the student may lead in the end
  MaxRepoSize, \* max_repo_bytes, where every file has size 1
  DiskFails    \* whether system calls may fail

Git       == <<".git">>
AllPaths  == Paths \cup {Git, Append(Git, "HEAD")}
Top(p)    == Len(p) = 1
Parent(p) == Front(p)

\* A place outside both checkouts, or none at all.
Elsewhere == [tree |-> "elsewhere", dir |-> <<>>]

\* The languages purge entries of the root, or one path of two names.
ASSUME MergeAssumption ==
  /\ ".git" \notin Names
  /\ Paths \subseteq Seq(Names) \ {<<>>}
  /\ \A p \in Paths : \A n \in 1..Len(p) : SubSeq(p, 1, n) \in Paths
  /\ \A list \in PurgeLists :
       /\ list \subseteq Paths
       /\ \A p \in list : Top(p) \/ (Len(p) = 2 /\ list = {p})
  /\ LinkEnds \subseteq [tree : {"project", "tests"}, dir : Paths \cup {<<>>}]
                      \cup {Elsewhere}
  /\ Elsewhere \in LinkEnds
  /\ MaxRepoSize \in Nat
  /\ DiskFails \in BOOLEAN

VARIABLES
  step,    \* the next step of prepare_project, or its result
  purge,   \* purge paths that are left to handle
  project, \* the tree that will be built
  tests,   \* the checkout of the hidden tests
  todo,    \* entries of tests that overlay_copy has yet to handle
  leads,   \* the directory that a link above a purge path leads to
  broken,  \* history: a system call has failed
  inputs   \* history: the checkouts and the purge paths

vars == <<step, purge, project, tests, todo, leads, broken, inputs>>

Kinds == {"absent", "link", "dir", "student", "hidden"}
NoTree == [p \in AllPaths |-> "absent"]
Results == {"done", "clone_failed", "merge_failed", "internal_error"}

\* What git clone leaves of a repository: entries are in directories, no
\* directory is empty, and there is a .git.
Checkouts(repo) ==
  LET Content == {t \in [Paths -> {"absent", "link", "dir", repo}] :
        \A p \in Paths : t[p] = "dir" <=>
          \E q \in Paths : IsStrictPrefix(p, q) /\ t[q] # "absent"}
  IN  {[p \in AllPaths |-> CASE p \in Paths -> t[p]
                              [] p = Git -> "dir"
                              [] OTHER -> repo] : t \in Content}

TypeOK ==
  /\ step \in {"size", "strip", "purge", "overlay", "hide"} \cup Results
  /\ project \in [AllPaths -> Kinds]
  /\ tests \in [AllPaths -> Kinds]
  /\ purge \subseteq inputs.purge
  /\ todo \subseteq AllPaths
  /\ leads \in LinkEnds
  /\ broken \in BOOLEAN

\* On the way to the purge path there is a symlink.
Linked(tree, p) == ~Top(p) /\ tree[Parent(p)] = "link"

-----------------------------------------------------------------------------
Init ==
  /\ step = "size"
  /\ purge \in PurgeLists
  /\ project \in Checkouts("student")
  /\ tests \in Checkouts("hidden")
  /\ todo = {}
  /\ leads \in LinkEnds
  /\ leads = Elsewhere \/ \E p \in purge : Linked(project, p)
  /\ leads.dir # <<>> =>
       (IF leads.tree = "project" THEN project ELSE tests)[leads.dir] = "dir"
  /\ broken = FALSE
  /\ inputs = [student |-> project, hidden |-> tests, purge |-> purge]

\* A system call fails and the step ends with the result.
Breaks(result) ==
  /\ DiskFails
  /\ broken' = TRUE
  /\ step' = result
  /\ UNCHANGED <<project, tests, purge, todo, leads, inputs>>

\* dir_size: every regular file, no symlink followed.
DirSize(tree) ==
  Cardinality({p \in AllPaths : tree[p] \in {"student", "hidden"}})

CheckSize ==
  /\ step = "size"
  /\ step' = IF DirSize(project) + DirSize(tests) > MaxRepoSize
             THEN "clone_failed" ELSE "strip"
  /\ UNCHANGED <<project, tests, purge, todo, leads, broken, inputs>>

\* Mutant of Without: the paths are forgotten with what is there.
Forgotten(tree, p) == [q \in {q \in AllPaths : ~IsPrefix(p, q)} |-> tree[q]]

\* remove_dir_all and remove_file
Without(tree, p) ==
  [q \in AllPaths |-> IF IsPrefix(p, q) THEN "absent" ELSE tree[q]]

\* The result of this removal is ignored.
StripGit ==
  /\ step = "strip"
  /\ \/ /\ project' = Without(project, Git)
        /\ step' = "purge"
        /\ UNCHANGED <<tests, purge, todo, leads, broken, inputs>>
     \/ Breaks("purge")

-----------------------------------------------------------------------------
(* merge_trees                                                             *)

\* Mutant of Purged: only a directory is taken away.
PurgedDirs(tree, p) == IF tree[p] = "dir" THEN Without(tree, p) ELSE tree

\* A directory, file or symlink is removed, whatever is absent is passed over.
Purged(tree, p) == Without(tree, p)

\* The entry that symlink_metadata and the removal after it reach by the purge
\* path: a link is followed everywhere but at the end of the path.
Reached(tree, p) ==
  IF Linked(tree, p)
  THEN [tree |-> leads.tree, path |-> Append(leads.dir, Last(p))]
  ELSE [tree |-> "project", path |-> p]

\* What is reached elsewhere may be refused to the grader.
Purge(p) ==
  /\ step = "purge"
  /\ p \in purge
  /\ LET entry == Reached(project, p)
     IN  \/ /\ project' = IF entry.tree = "project"
                         THEN Purged(project, entry.path) ELSE project
            /\ tests' = IF entry.tree = "tests"
                       THEN Purged(tests, entry.path) ELSE tests
            /\ purge' = purge \ {p}
            /\ UNCHANGED <<step, todo, leads, broken, inputs>>
         \/ /\ entry.tree = "elsewhere"
            /\ step' = "merge_failed"
            /\ UNCHANGED <<project, tests, purge, todo, leads, broken, inputs>>
         \/ Breaks("merge_failed")

Entries(p) ==
  {q \in AllPaths :
     Len(q) = Len(p) + 1 /\ IsPrefix(p, q) /\ tests[q] # "absent"}

StartOverlay ==
  /\ step = "purge"
  /\ purge = {}
  /\ todo' = Entries(<<>>)
  /\ step' = "overlay"
  /\ UNCHANGED <<project, tests, purge, leads, broken, inputs>>

\* Mutant of Clash: a link is taken for what it leads to.
ClashFollowing(p) ==
  /\ project[p] \notin {"absent", "link"}
  /\ (project[p] = "dir") # (tests[p] = "dir")

\* Mutant of Clash: a directory is never replaced.
ClashOfFiles(p) ==
  \/ project[p] = "link"
  \/ project[p] \in {"student", "hidden"} /\ tests[p] = "dir"

\* What is in the way: a symlink, or a file for a directory and vice versa.
Clash(p) ==
  \/ project[p] = "link"
  \/ project[p] # "absent" /\ (project[p] = "dir") # (tests[p] = "dir")

\* create_dir_all fails on a file, copy on a directory.
Fits(p, existing) ==
  existing \in IF tests[p] = "dir" THEN {"absent", "dir", "link"}
               ELSE {"absent", "student", "hidden", "link"}

\* create_dir_all is content with a link to a directory.
Laid(p, existing) ==
  IF tests[p] = "dir" /\ existing = "link" THEN "link" ELSE tests[p]

\* One entry of overlay_copy.  Directories are walked in the order of
\* read_dir; here any entry whose directory was handled may be next.
OverlayEntry(p) ==
  /\ step = "overlay"
  /\ p \in todo
  /\ LET cleared == IF Clash(p) THEN Without(project, p) ELSE project
     IN  \/ /\ p = Git \/ tests[p] = "link"
            /\ todo' = todo \ {p}
            /\ UNCHANGED <<step, project, broken>>
         \/ /\ p # Git /\ tests[p] # "link"
            /\ Fits(p, cleared[p])
            /\ project' = [cleared EXCEPT ![p] = Laid(p, @)]
            /\ todo' = (todo \ {p}) \cup Entries(p)
            /\ UNCHANGED <<step, broken>>
         \/ /\ p # Git /\ tests[p] # "link"
            /\ ~Fits(p, cleared[p])
            /\ step' = "merge_failed"
            /\ UNCHANGED <<project, todo, broken>>
  /\ UNCHANGED <<tests, purge, leads, inputs>>

\* The first entry on which the disk fails ends the merge.
OverlayBreaks ==
  /\ step = "overlay"
  /\ todo # {}
  /\ Breaks("merge_failed")

EndOverlay ==
  /\ step = "overlay"
  /\ todo = {}
  /\ step' = "hide"
  /\ UNCHANGED <<project, tests, purge, todo, leads, broken, inputs>>

RemoveTests ==
  /\ step = "hide"
  /\ \/ /\ tests' = NoTree
        /\ step' = "done"
        /\ UNCHANGED <<project, purge, todo, leads, broken, inputs>>
     \/ Breaks("internal_error")

-----------------------------------------------------------------------------
Next ==
  \/ CheckSize
  \/ StripGit
  \/ \E p \in AllPaths : Purge(p) \/ OverlayEntry(p)
  \/ StartOverlay
  \/ OverlayBreaks
  \/ EndOverlay
  \/ RemoveTests

Spec == Init /\ [][Next]_vars

-----------------------------------------------------------------------------
(* Properties.                                                             *)

\* One of the purge paths leads to the entry or to a directory above it.
Gone(list, tree, p) ==
  \E q \in list : LET entry == Reached(inputs.student, q)
                  IN  entry.tree = tree /\ IsPrefix(entry.path, p)

\* The hidden tests as the purge leaves them.
Suite(p) ==
  IF Gone(inputs.purge, "tests", p) THEN "absent" ELSE inputs.hidden[p]

\* The student's entry is purged, or a hidden file stands in its place or in
\* the place of a directory above it.
Replaced(p) ==
  \/ Gone(inputs.purge, "project", p)
  \/ \E q \in Paths : IsPrefix(q, p) /\ Suite(q) = "hidden"

\* The merged tree is exactly this: the hidden tests' files and directories,
\* and those entries of the student that are neither purged nor replaced;
\* symlinks of the tests are left out, and nothing of .git comes along (the
\* comment on merge_trees).
MergedTree(p) ==
  IF p \notin Paths THEN "absent"
  ELSE IF Suite(p) \in {"hidden", "dir"} THEN Suite(p)
  ELSE IF Replaced(p) THEN "absent" ELSE inputs.student[p]

\* Whatever the order in which the entries are read, the two checkouts, the
\* purge paths and the end of a link above one of them give one tree: what the
\* purge has left of the hidden suite is authoritative in it, and the student's
\* other files are untouched (merge_trees, overlay_copy).
MergedAsPromised ==
  step = "done" /\ ~broken => \A p \in AllPaths : project[p] = MergedTree(p)

\* Everything overlay_copy is about to write lies in real directories of the
\* project, never behind a symlink of the student (its comment on symlinks).
WritesStayInside ==
  step = "overlay" => \A p \in todo : Top(p) \/ project[Parent(p)] = "dir"

\* Any two checkouts can be merged: no clash of files, directories and links
\* makes the merge fail, only the disk does, or a purge path that a link takes
\* out of both checkouts (merge_trees, overlay_copy).
AlwaysMerges ==
  step = "merge_failed" =>
    broken \/ \E p \in inputs.purge :
                Reached(inputs.student, p).tree = "elsewhere"

\* The purge follows no link: it removes what is at or below the purge paths
\* and nothing else (the comment on symlink_metadata in merge_trees).  A link
\* above the end of a purge path is followed all the same.
OnlyPurgePathsRemoved ==
  step = "purge" =>
    /\ tests = inputs.hidden
    /\ \A x \in Paths : project[x] # inputs.student[x] =>
                         \E p \in inputs.purge : IsPrefix(p, x)
=============================================================================
