----------------------------- MODULE MCGradeTask -----------------------------
(***************************************************************************)
(* Instances of GradeTask for TLC.                                         *)
(***************************************************************************)
EXTENDS GradeTask

CONSTANTS r1, r2

OneRun  == {r1}
TwoRuns == {r1, r2}

\* What the code answers with internal_error, or cleans up after.
Reported == {"create", "spawn", "panic", "hide", "cgroup", "wait"}

\* With those that go unreported.
Unreported == Reported \cup {"setup", "disk", "events"}

\* With those that leave something behind, but no cgroup that cannot be killed.
Leaking == Reported \cup {"rootfs", "git", "drain", "remove"}
=============================================================================
