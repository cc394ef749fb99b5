-------------------------- MODULE SandboxRefinement --------------------------
(***************************************************************************)
(* What the stage of Sandbox is to those who wait for it: an open and shut *)
(* StageContract, and the stage of a run of GradeTask, which sees a child, *)
(* the processes that may be alive, a timer and an OOM count.              *)
(***************************************************************************)
EXTENDS Sandbox

\* SandboxOutcome::succeeded
Succeeded == result = "ok" /\ ~timedOut /\ ~oomKilled

Contract == INSTANCE StageContract WITH
  phase <- CASE worker = "init" -> "idle"
             [] worker = "done" -> IF Succeeded THEN "succeeded" ELSE "failed"
             [] worker = "dead" -> "lost"
             [] OTHER -> "open",
  running <- at["command"] = "run"

\* A sandboxed stage keeps the contract that grade_task relies on, and so it
\* ends in time although spawn() itself has no limit (run_sandboxed).
ImplementsStage == Contract!Spec

-----------------------------------------------------------------------------
(* The mapping to GradeTask.                                               *)

\* The caller has its answer.  The drop of the guard after an error counts as
\* part of the error.
Over == worker = "done" \/ result = "internal"

\* spawn has started a child that the worker will wait for.
Launched ==
  \/ ran
  \/ end["command"] \notin {"none", "noexec"}
  \/ end["reaper"] # "none" /\ at["command"] = "none"

ChildSeen ==
  CASE ~Launched \/ Over -> "unstarted"
    [] Launched /\ ~Over /\ end["reaper"] = "oom" -> "signal"
    [] Launched /\ ~Over /\ end["reaper"] # "oom" /\ ~ran -> "setup"
    [] OTHER -> IF end[Child] # "none" THEN end[Child]
                ELSE IF timedOut THEN "signal" ELSE "running"

\* The helper counts as alive from the start, and everything as long as the
\* child runs.
HelperSeen ==
  \/ at["helper"] = "run"
  \/ at["command"] = "run" /\ at["helper"] = "none"

AliveSeen ==
  IF ChildSeen = "running" /\ worker # "dead" THEN {"main", "helper"}
  ELSE IF isolated /\ Over THEN {}
  ELSE (IF at["command"] = "run" THEN {"main"} ELSE {})
       \cup (IF HelperSeen THEN {"helper"} ELSE {})

\* What grade_task makes of the outcome of stage s (StagePassed, stage_error).
StatusSeen(s) ==
  IF result = "internal" THEN "internal_error"
  ELSE CASE timedOut -> "timeout"
         [] ~timedOut /\ oomKilled -> "memory_limit_exceeded"
         [] ~timedOut /\ ~oomKilled /\ (s = "test" \/ result = "ok") -> "passed"
         [] OTHER -> IF result \in {"signal", "oom"} THEN "run_failed"
                     ELSE "install_failed"

\* Where grade_task is, and what it has answered if stage s was its last.
StepSeen(s) ==
  IF worker = "dead" THEN "lost"
  ELSE IF ~Over THEN s
  ELSE IF StatusSeen(s) # "passed" THEN "drop"
  ELSE IF s = "install" THEN "test" ELSE "report"

ResponseSeen(s) ==
  IF Over /\ StatusSeen(s) # "passed"
  THEN [status |-> StatusSeen(s), stage |-> s]
  ELSE [status |-> "none", stage |-> "clone"]

RanSeen(s) == (IF s = "test" THEN {"install"} ELSE {})
              \cup (IF ran THEN {s} ELSE {})

\* The cgroup and its OOM count belong to a stage that is going on.
CgroupsSeen(s) == IF cgroup /\ Launched /\ ~Over THEN {<<"run", s>>} ELSE {}
OomSeen == oom /\ Launched /\ ~Over

\* A step of the worker's side broke.
OursSeen ==
  \/ result = "internal"
  \/ "setup" \in {end["reaper"], end["command"]}
  \/ unread /\ Over

Of(value) == [r \in {"run"} |-> value]

Caller(s) == INSTANCE GradeTask WITH
  Runs <- {"run"}, Isolations <- Modes, ReportInProject <- FALSE,
  Preexisting <- {}, MaxCrashes <- 1,
  Failures <- {"cgroup", "setup", "wait"}
              \cup (Failures \cap {"kill", "drain", "events"}),
  isolation <- isolated,
  up <- worker # "dead",
  crashes <- IF worker = "dead" THEN 1 ELSE 0,
  pc <- Of(StepSeen(s)),
  tree <- Of({"dir", "project"}),
  reports <- Of({}),
  cgroups <- CgroupsSeen(s),
  alive <- Of(AliveSeen),
  child <- Of(ChildSeen),
  timedOut <- Of(timedOut),
  oom <- Of(OomSeen),
  response <- Of(ResponseSeen(s)),
  ran <- Of(RanSeen(s)),
  ours <- Of(OursSeen),
  basis <- Of({})

\* Every step of the worker, the forked processes and the kernel in a stage is
\* a step that GradeTask has its stage make, or none: the outcomes its
\* properties are checked for are all there are (run_isolated, run_unisolated).
ImplementsPipeline ==
  [][\A s \in {"install", "test"} :
        Caller(s)!Next \/ UNCHANGED Caller(s)!vars]_vars
=============================================================================
