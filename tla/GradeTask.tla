------------------------------ MODULE GradeTask ------------------------------
(***************************************************************************)
(* One worker's executions of grade_task: workspace, clone, merge, the two *)
(* sandboxed stages, the report and the teardown of each exit path.        *)
(* Several executions run at once on the same disk and cgroup tree, the    *)
(* worker may die between any two of their steps, and main empties the     *)
(* work root when it starts again.                                         *)
(*                                                                         *)
(* A sandboxed stage is its child process, the other processes of the      *)
(* stage, the wall-clock timer and the kernel's OOM killer; the command's  *)
(* own work is its exit and the report files it writes.                    *)
(***************************************************************************)
EXTENDS Naturals

CONSTANTS
  Runs,             \* executions of grade_task
  Isolations,       \* values of GRADER_ISOLATION to consider
  ReportInProject,  \* ReportLocation: a directory of /project, or a file
  Preexisting,      \* who else leaves report files there: checkout, install
  Failures,         \* what may fail on the worker's side
  MaxCrashes        \* bound on deaths of the worker

FailureKinds ==
  {"create", "rootfs", "spawn", "git", "panic", "disk", "hide", "cgroup",
   "setup", "wait", "kill", "drain", "events", "remove"}

ASSUME GradeTaskAssumption ==
  /\ Isolations \subseteq BOOLEAN
  /\ ReportInProject \in BOOLEAN
  /\ Preexisting \subseteq {"checkout", "install"}
  /\ Failures \subseteq FailureKinds
  /\ MaxCrashes \in Nat

VARIABLES
  isolation, \* GRADER_ISOLATION: run_isolated or run_unisolated
  up,        \* whether the worker process is running
  crashes,   \* how often it died
  pc,        \* pc[r]: the next step of run r
  tree,      \* tree[i]: what the workspace directory named i holds
  reports,   \* reports[i]: report files in workspace i, as <<run, origin>>
  cgroups,   \* cgroup directories, as <<run id, stage>>
  alive,     \* alive[r]: processes of run r that are alive
  child,     \* child[r]: the process the current stage waits for
  timedOut,  \* timedOut[r]: the stage's timer has fired
  oom,       \* oom[r]: memory.events of the stage's cgroup counts an OOM
  response,  \* response[r]: the status and stage of the result
  ran,       \* history: stages of r whose command was executed
  ours,      \* history: whether something on the worker's side failed in r
  basis      \* history: the report files r's verdict was read from

sandbox == <<cgroups, alive, child, timedOut, oom>>
history == <<ran, ours, basis>>
machine == <<isolation, up, crashes>>
vars    == <<isolation, up, crashes, pc, tree, reports, cgroups, alive, child,
             timedOut, oom, response, ran, ours, basis>>

\* Mutant of RunId: the name is made of the task id alone.
TaskIdOnly(r) == CHOOSE x \in Runs : TRUE

\* build_run_id: the uuid gives two executions of one task different names.
RunId(r) == r

RunIds  == {RunId(r) : r \in Runs}
Steps   == {"new", "rootfs", "student", "tests", "size", "merge", "hide",
            "install", "test", "report", "drop", "done", "lost"}
Stages  == {"clone", "merge", "install", "test", "report"}
Origins == {"checkout", "install", "test"}

\* The three verdicts are one: what tells them apart are the counts.
Statuses == {"graded", "clone_failed", "merge_failed", "install_failed",
             "run_failed", "timeout", "memory_limit_exceeded",
             "internal_error"}

NoResponse == [status |-> "none", stage |-> "clone"]

TypeOK ==
  /\ isolation \in Isolations
  /\ up \in BOOLEAN
  /\ crashes \in 0..MaxCrashes
  /\ pc \in [Runs -> Steps]
  /\ tree \in [RunIds -> SUBSET {"dir", "project", "hidden"}]
  /\ reports \in [RunIds -> SUBSET (Runs \X Origins)]
  /\ cgroups \subseteq RunIds \X {"install", "test"}
  /\ alive \in [Runs -> SUBSET {"main", "helper", "git"}]
  /\ child \in [Runs -> {"unstarted", "running", "ok", "nonzero", "signal",
                      "setup"}]
  /\ timedOut \in [Runs -> BOOLEAN]
  /\ oom \in [Runs -> BOOLEAN]
  /\ response \in [Runs -> {NoResponse} \cup
                           [status : Statuses, stage : Stages]]
  /\ ran \in [Runs -> SUBSET {"install", "test"}]
  /\ ours \in [Runs -> BOOLEAN]
  /\ basis \in [Runs -> SUBSET (Runs \X Origins)]

-----------------------------------------------------------------------------
Init ==
  /\ isolation \in Isolations
  /\ up = TRUE
  /\ crashes = 0
  /\ pc = [r \in Runs |-> "new"]
  /\ tree = [i \in RunIds |-> {}]
  /\ reports = [i \in RunIds |-> {}]
  /\ cgroups = {}
  /\ alive = [r \in Runs |-> {}]
  /\ child = [r \in Runs |-> "unstarted"]
  /\ timedOut = [r \in Runs |-> FALSE]
  /\ oom = [r \in Runs |-> FALSE]
  /\ response = [r \in Runs |-> NoResponse]
  /\ ran = [r \in Runs |-> {}]
  /\ ours = [r \in Runs |-> FALSE]
  /\ basis = [r \in Runs |-> {}]

At(r, step) == up /\ pc[r] = step

Goto(r, step) == pc' = [pc EXCEPT ![r] = step]

\* Mutant of StageOf: the error names the step.
StageOfStep(step) == step

\* The GradeStage named by the errors of each step.
StageOf(step) ==
  CASE step \in {"new", "rootfs", "student", "tests", "size"} -> "clone"
    [] step \in {"merge", "hide"} -> "merge"
    [] OTHER -> step

\* An error that ends the run: `?` and return Err leave through the drop of
\* the workspace, where there is one already.
Respond(r, status) ==
  /\ response' = [response EXCEPT ![r] =
       [status |-> status, stage |-> StageOf(pc[r])]]
  /\ Goto(r, IF pc[r] \in {"new", "rootfs"} THEN "done" ELSE "drop")

Ours(r, kind) == kind \in Failures /\ ours' = [ours EXCEPT ![r] = TRUE]

\* GraderError::internal
FailInternal(r, kind) == Ours(r, kind) /\ Respond(r, "internal_error")

-----------------------------------------------------------------------------
(* Workspace::create                                                       *)

CreateDir(r) ==
  /\ At(r, "new")
  /\ \/ /\ tree' = [tree EXCEPT ![RunId(r)] = @ \cup {"dir"}]
        /\ Goto(r, "rootfs")
        /\ UNCHANGED <<response, ours>>
     \/ /\ FailInternal(r, "create")
        /\ UNCHANGED tree
  /\ UNCHANGED <<machine, reports, sandbox, ran, basis>>

\* Until prepare_rootfs has returned there is no Workspace to drop.
PrepareRootfs(r) ==
  /\ At(r, "rootfs")
  /\ \/ Goto(r, "student") /\ UNCHANGED <<response, ours>>
     \/ FailInternal(r, "rootfs")
  /\ UNCHANGED <<machine, tree, reports, sandbox, ran, basis>>

-----------------------------------------------------------------------------
(* prepare_project                                                         *)

\* git_clone does not succeed: a refused URL, git's own error, a git that
\* cannot be run or waited for, or the time limit, where kill_on_drop kills git
\* but not the helpers git has started.
CloneFails(r) ==
  /\ UNCHANGED <<tree, reports>>
  /\ \/ /\ Respond(r, "clone_failed")
        /\ UNCHANGED <<alive, ours>>
     \/ /\ FailInternal(r, "spawn")
        /\ UNCHANGED alive
     \/ /\ Respond(r, "timeout")
        /\ \/ UNCHANGED alive
           \/ "git" \in Failures /\ alive' = [alive EXCEPT ![r] = {"git"}]
        /\ UNCHANGED ours

\* Mutant of CloneStudent: report files of a checkout count wherever they are.
CloneStudentReports(r) ==
  /\ At(r, "student")
  /\ \/ /\ "project" \notin tree[RunId(r)]
        /\ tree' = [tree EXCEPT ![RunId(r)] = @ \cup {"project"}]
        /\ \/ UNCHANGED reports
           \/ /\ "checkout" \in Preexisting
              /\ reports' =
                   [reports EXCEPT ![RunId(r)] = @ \cup {<<r, "checkout">>}]
        /\ Goto(r, "tests")
        /\ UNCHANGED <<response, ours, alive>>
     \/ CloneFails(r)
  /\ UNCHANGED <<machine, cgroups, child, timedOut, oom, ran, basis>>

\* git refuses a directory that is not empty.  A checkout may bring report
\* files along.
CloneStudent(r) ==
  /\ At(r, "student")
  /\ \/ /\ "project" \notin tree[RunId(r)]
        /\ tree' = [tree EXCEPT ![RunId(r)] = @ \cup {"project"}]
        /\ \/ UNCHANGED reports
           \/ /\ ReportInProject
              /\ "checkout" \in Preexisting
              /\ reports' =
                   [reports EXCEPT ![RunId(r)] = @ \cup {<<r, "checkout">>}]
        /\ Goto(r, "tests")
        /\ UNCHANGED <<response, ours, alive>>
     \/ CloneFails(r)
  /\ UNCHANGED <<machine, cgroups, child, timedOut, oom, ran, basis>>

CloneTests(r) ==
  /\ At(r, "tests")
  /\ \/ /\ "hidden" \notin tree[RunId(r)]
        /\ tree' = [tree EXCEPT ![RunId(r)] = @ \cup {"hidden"}]
        /\ Goto(r, "size")
        /\ UNCHANGED <<reports, response, ours, alive>>
     \/ CloneFails(r)
  /\ UNCHANGED <<machine, cgroups, child, timedOut, oom, ran, basis>>

\* dir_size against max_repo_bytes
CheckSize(r) ==
  /\ At(r, "size")
  /\ \/ Goto(r, "merge") /\ UNCHANGED <<response, ours>>
     \/ Respond(r, "clone_failed") /\ UNCHANGED ours
     \/ FailInternal(r, "panic")
  /\ UNCHANGED <<machine, tree, reports, sandbox, ran, basis>>

\* merge_trees: one status for an odd layout and for a disk error.
MergeTrees(r) ==
  /\ At(r, "merge")
  /\ \/ Goto(r, "hide") /\ UNCHANGED <<response, ours>>
     \/ Respond(r, "merge_failed") /\ UNCHANGED ours
     \/ Respond(r, "merge_failed") /\ Ours(r, "disk")
     \/ FailInternal(r, "panic")
  /\ UNCHANGED <<machine, tree, reports, sandbox, ran, basis>>

\* The scratch checkout of the hidden tests goes before anything runs.
RemoveHidden(r) ==
  /\ At(r, "hide")
  /\ \/ /\ tree' = [tree EXCEPT ![RunId(r)] = @ \ {"hidden"}]
        /\ Goto(r, "install")
        /\ UNCHANGED <<response, ours>>
     \/ /\ FailInternal(r, "hide")
        /\ UNCHANGED tree
  /\ UNCHANGED <<machine, reports, sandbox, ran, basis>>

-----------------------------------------------------------------------------
(* run_sandboxed                                                           *)

\* Up to the end of spawn.  What fails before the child exists is answered
\* internal_error and drops an empty cgroup.  A child that ends before exec, by
\* a step of its own or by the OOM killer, is one that spawn has started.  If
\* the OOM killer takes the reaper alone, the command may still be executed.
Launch(r) ==
  /\ up
  /\ pc[r] \in {"install", "test"}
  /\ child[r] = "unstarted"
  /\ \/ /\ FailInternal(r, "cgroup")
        /\ UNCHANGED <<cgroups, alive, child, ran, oom>>
     \/ /\ isolation
        /\ \/ /\ Ours(r, "setup")
              /\ child' = [child EXCEPT ![r] = "setup"]
              /\ UNCHANGED oom
           \/ /\ UNCHANGED ours \/ Ours(r, "setup")
              /\ \E how \in {"setup", "signal"} :
                   child' = [child EXCEPT ![r] = how]
              /\ oom' = [oom EXCEPT ![r] = TRUE]
        /\ cgroups' = cgroups \cup {<<RunId(r), pc[r]>>}
        /\ UNCHANGED <<pc, alive, response, ran>>
     \/ /\ \/ /\ child' = [child EXCEPT ![r] = "running"]
              /\ UNCHANGED oom
           \/ /\ isolation
              /\ child' = [child EXCEPT ![r] = "signal"]
              /\ oom' = [oom EXCEPT ![r] = TRUE]
        /\ cgroups' = IF isolation THEN cgroups \cup {<<RunId(r), pc[r]>>}
                                   ELSE cgroups
        /\ alive' = [alive EXCEPT ![r] = @ \cup {"main", "helper"}]
        /\ ran' = [ran EXCEPT ![r] = @ \cup {pc[r]}]
        /\ UNCHANGED <<pc, response, ours>>
  /\ timedOut' = [timedOut EXCEPT ![r] = FALSE]
  /\ UNCHANGED <<machine, tree, reports, basis>>

\* A report file is replaced, a report directory collects.
WriteReport(r) ==
  /\ up
  /\ "main" \in alive[r]
  /\ pc[r] = "test" \/ pc[r] \in Preexisting
  /\ reports' = [reports EXCEPT ![RunId(r)] =
       (IF ReportInProject THEN @ ELSE {}) \cup {<<r, pc[r]>>}]
  /\ UNCHANGED <<machine, pc, tree, sandbox, response, history>>

\* What may outlive the end of the command, or its kill: nothing in a pid
\* namespace of its own, otherwise what has left the command's session.
Survivors == IF isolation THEN {{}} ELSE SUBSET {"helper"}

\* The command ends.  With isolation the reaper turns a signal into an exit
\* code, without it a signal is seen as one.
ChildExits(r) ==
  /\ up
  /\ child[r] = "running"
  /\ \E how \in {"ok", "nonzero"} \cup (IF isolation THEN {} ELSE {"signal"}) :
       child' = [child EXCEPT ![r] = how]
  /\ \E left \in Survivors : alive' = [alive EXCEPT ![r] = @ \cap left]
  /\ UNCHANGED <<machine, pc, tree, reports, cgroups, timedOut, oom, response, history>>

\* The kernel OOM-kills something the command started, the command, or the
\* reaper, whose end need not take the command along.
OomKill(r) ==
  /\ up
  /\ isolation
  /\ oom' = [oom EXCEPT ![r] = TRUE]
  /\ \/ /\ child[r] = "running"
        /\ \E left \in SUBSET {"helper"} :
             alive' = [alive EXCEPT ![r] = @ \cap ({"main"} \cup left)]
        /\ UNCHANGED child
     \/ /\ child[r] = "running"
        /\ alive' = [alive EXCEPT ![r] = {}]
        /\ child' = [child EXCEPT ![r] = "nonzero"]
     \/ /\ child[r] \in {"running", "setup"}
        /\ \E left \in SUBSET {"main", "helper"} :
             alive' = [alive EXCEPT ![r] = @ \cap left]
        /\ child' = [child EXCEPT ![r] = "signal"]
  /\ UNCHANGED <<machine, pc, tree, reports, cgroups, timedOut, response, history>>

\* Mutant of TimeLimit: nothing is killed.
TimeLimitKillsNothing(r) ==
  /\ up
  /\ pc[r] \in {"install", "test"}
  /\ child[r] # "unstarted"
  /\ ~timedOut[r]
  /\ timedOut' = [timedOut EXCEPT ![r] = TRUE]
  /\ UNCHANGED <<machine, pc, tree, reports, cgroups, alive, child, oom, response, history>>

\* The timer fires before the child's exit is seen.  kill_all takes the whole
\* cgroup, but its failure is only logged and nothing else is killed; without
\* isolation the process group and the child are killed.
TimeLimit(r) ==
  /\ up
  /\ pc[r] \in {"install", "test"}
  /\ child[r] # "unstarted"
  /\ ~timedOut[r]
  /\ timedOut' = [timedOut EXCEPT ![r] = TRUE]
  /\ \/ /\ \E left \in Survivors : alive' = [alive EXCEPT ![r] = @ \cap left]
        /\ child' = [child EXCEPT ![r] = IF @ = "running" THEN "signal" ELSE @]
     \/ /\ isolation
        /\ "kill" \in Failures
        /\ UNCHANGED <<alive, child>>
  /\ UNCHANGED <<machine, pc, tree, reports, cgroups, oom, response, history>>

Exited(r) == child[r] \notin {"unstarted", "running"}

\* Mutant of DropCgroup: rmdir alone, which fails while a process is left.
DropCgroupUnkilled(r) ==
  /\ UNCHANGED alive
  /\ cgroups' =
       IF alive[r] = {} THEN cgroups \ {<<RunId(r), pc[r]>>} ELSE cgroups

\* Drop of CgroupGuard: kill, wait for the cgroup to drain, rmdir.
DropCgroup(r) ==
  \/ /\ alive' = [alive EXCEPT ![r] = {}]
     /\ cgroups' = cgroups \ {<<RunId(r), pc[r]>>}
  \/ /\ Failures \cap {"kill", "drain"} # {}
     /\ alive[r] # {}
     /\ UNCHANGED <<alive, cgroups>>

\* was_oom_killed: a memory.events that cannot be read tells of no kill.
WasOomKilled(r, killed) ==
  \/ killed = oom[r] /\ UNCHANGED ours
  \/ isolation /\ ~killed /\ Ours(r, "events")

\* SandboxOutcome::succeeded
Succeeded(r, killed) == child[r] = "ok" /\ ~timedOut[r] /\ ~killed

\* What grade_task goes on with: the exit code of the suite is no verdict.
StagePassed(r, killed) ==
  IF pc[r] = "install" THEN Succeeded(r, killed) ELSE ~timedOut[r] /\ ~killed

\* Mutant of StageError: whatever is no timeout is put down to the install.
StageErrorOfInstall(r, killed) ==
  IF timedOut[r] THEN "timeout" ELSE "install_failed"

\* stage_error
StageError(r, killed) ==
  CASE timedOut[r] -> "timeout"
    [] ~timedOut[r] /\ killed -> "memory_limit_exceeded"
    [] ~timedOut[r] /\ ~killed /\ child[r] = "signal" -> "run_failed"
    [] OTHER -> IF pc[r] = "install" THEN "install_failed" ELSE "run_failed"

FinishStage(r) ==
  /\ up
  /\ pc[r] \in {"install", "test"}
  /\ Exited(r)
  /\ IF isolation THEN DropCgroup(r) ELSE UNCHANGED <<alive, cgroups>>
  /\ child' = [child EXCEPT ![r] = "unstarted"]
  /\ oom' = [oom EXCEPT ![r] = FALSE]
  /\ \E killed \in BOOLEAN :
       /\ WasOomKilled(r, killed)
       /\ \/ /\ StagePassed(r, killed)
             /\ Goto(r, IF pc[r] = "install" THEN "test" ELSE "report")
             /\ UNCHANGED response
          \/ /\ ~StagePassed(r, killed)
             /\ Respond(r, StageError(r, killed))
  /\ UNCHANGED <<machine, tree, reports, timedOut, ran, basis>>

\* wait() itself fails: kill_on_drop takes the child, the guard the rest.
WaitFails(r) ==
  /\ up
  /\ pc[r] \in {"install", "test"}
  /\ child[r] # "unstarted"
  /\ ~timedOut[r]
  /\ FailInternal(r, "wait")
  /\ IF isolation
     THEN DropCgroup(r)
     ELSE /\ \E left \in Survivors : alive' = [alive EXCEPT ![r] = @ \cap left]
          /\ UNCHANGED cgroups
  /\ child' = [child EXCEPT ![r] = "unstarted"]
  /\ oom' = [oom EXCEPT ![r] = FALSE]
  /\ UNCHANGED <<machine, tree, reports, timedOut, ran, basis>>

-----------------------------------------------------------------------------
(* resolve_reports, collect_reports and the end of grade_task              *)

\* No report, an unreadable or malformed one, one without test cases, or a
\* verdict read from all the files that are there.
ReadReports(r) ==
  /\ At(r, "report")
  /\ \/ Respond(r, "run_failed") /\ UNCHANGED <<ours, basis>>
     \/ /\ reports[RunId(r)] # {}
        /\ Respond(r, "run_failed")
        /\ Ours(r, "disk")
        /\ UNCHANGED basis
     \/ /\ reports[RunId(r)] # {}
        /\ Respond(r, "graded")
        /\ basis' = [basis EXCEPT ![r] = reports[RunId(r)]]
        /\ UNCHANGED ours
  /\ UNCHANGED <<machine, tree, reports, sandbox, ran>>

\* Drop of Workspace: a failure is only logged, and a helper of git that is
\* still writing makes remove_dir_all fail.
DropWorkspace(r) ==
  /\ At(r, "drop")
  /\ \/ /\ tree' = [tree EXCEPT ![RunId(r)] = {}]
        /\ reports' = [reports EXCEPT ![RunId(r)] = {}]
     \/ /\ "remove" \in Failures \/ "git" \in alive[r]
        /\ UNCHANGED <<tree, reports>>
  /\ Goto(r, "done")
  /\ UNCHANGED <<machine, sandbox, response, history>>

\* What outlived the child, or a git that was killed, ends by itself.
StragglersEnd(r) ==
  /\ child[r] # "running"
  /\ \E left \in SUBSET alive[r] : alive' = [alive EXCEPT ![r] = left]
  /\ UNCHANGED <<machine, pc, tree, reports, cgroups, child, timedOut, oom, response, history>>

-----------------------------------------------------------------------------
(* The worker dies and comes back.                                         *)

\* The worker is the container's first process: every process dies with it,
\* the workspaces and the cgroup directories stay.
Crash ==
  /\ up
  /\ crashes < MaxCrashes
  /\ up' = FALSE
  /\ crashes' = crashes + 1
  /\ alive' = [r \in Runs |-> {}]
  /\ pc' = [r \in Runs |-> IF pc[r] \in {"new", "done"} THEN pc[r] ELSE "lost"]
  /\ UNCHANGED <<isolation, tree, reports, cgroups, child, timedOut, oom, response, history>>

\* Mutant of ResetWorkDir: the work root is kept.
ResetNothing ==
  /\ ~up
  /\ up' = TRUE
  /\ UNCHANGED <<isolation, crashes, pc, tree, reports, sandbox, response, history>>

\* main starts again and empties the work root before it takes a task.
ResetWorkDir ==
  /\ ~up
  /\ up' = TRUE
  /\ tree' = [i \in RunIds |-> {}]
  /\ reports' = [i \in RunIds |-> {}]
  /\ UNCHANGED <<isolation, crashes, pc, sandbox, response, history>>

-----------------------------------------------------------------------------
\* The code's own steps.
Pipeline(r) ==
  \/ CreateDir(r)
  \/ PrepareRootfs(r)
  \/ CloneStudent(r)
  \/ CloneTests(r)
  \/ CheckSize(r)
  \/ MergeTrees(r)
  \/ RemoveHidden(r)
  \/ Launch(r)
  \/ FinishStage(r)
  \/ WaitFails(r)
  \/ ReadReports(r)
  \/ DropWorkspace(r)

\* The sandboxed processes and the kernel.
Environment(r) ==
  \/ WriteReport(r)
  \/ ChildExits(r)
  \/ OomKill(r)
  \/ StragglersEnd(r)

Next ==
  \/ \E r \in Runs : Pipeline(r) \/ TimeLimit(r) \/ Environment(r)
  \/ Crash
  \/ ResetWorkDir

Spec == Init /\ [][Next]_vars

\* The worker's steps and its timers happen and a dead container is restarted;
\* a command need not end, nor write a report.
Fairness ==
  /\ \A r \in Runs : WF_vars(Pipeline(r)) /\ WF_vars(TimeLimit(r))
  /\ WF_vars(ResetWorkDir)

FairSpec == Spec /\ Fairness

-----------------------------------------------------------------------------
(* Properties.                                                             *)

Graded(r) == response[r].status = "graded"

\* A run that is over has left no workspace, no cgroup and no process behind,
\* whichever way it ended (the drops of Workspace and CgroupGuard).
TornDown ==
  \A r \in Runs : pc[r] = "done" =>
    /\ tree[RunId(r)] = {}
    /\ alive[r] = {}
    /\ \A c \in cgroups : c[1] # RunId(r)

\* As long as a stage's command is alive, its workspace is there, complete and
\* without the hidden tests' checkout: no other run, teardown or restart takes
\* it away (prepare_project, Drop of Workspace, reset_work_dir).
SandboxSees ==
  \A r \in Runs : "main" \in alive[r] => tree[RunId(r)] = {"dir", "project"}

\* Who can leave a report where this language's reports are looked for.
ReportSources ==
  {"test"} \cup (IF ReportInProject THEN Preexisting
                 ELSE Preexisting \ {"checkout"})

\* A verdict rests on report files, and on files of this very run: no other run
\* or earlier delivery of the task leaves one there, and no checkout where the
\* report is a file in /out (resolve_reports, collect_reports, build_run_id).
VerdictFromOwnFiles ==
  \A r \in Runs : Graded(r) =>
    basis[r] # {} /\ basis[r] \subseteq {r} \X ReportSources

\* A verdict rests on what the runner wrote, and not on files of a checkout or
\* of the install stage (the comment on collect_reports).
VerdictFromThisRun ==
  \A r \in Runs : Graded(r) => basis[r] \subseteq {<<r, "test">>}

\* The reports are read at rest: with isolation nothing of the stages before is
\* alive then, so that nothing is still being written (the guard of the cgroup
\* is dropped before run_isolated returns, resolve_reports).
ReportsAtRest ==
  isolation => \A r \in Runs : pc[r] = "report" => alive[r] = {}

\* The status says how far the run came: nothing was executed before a clone
\* or merge failure, the suite never ran after install_failed, and a verdict
\* means that the suite ran (the table of statuses in README.md).
StatusMatchesRun ==
  \A r \in Runs :
    /\ response[r].status \in {"clone_failed", "merge_failed"} => ran[r] = {}
    /\ response[r].status = "install_failed" => "test" \notin ran[r]
    /\ Graded(r) => ran[r] = {"install", "test"}

\* internal_error is exactly the status of a run in which the worker's side
\* broke (the comment on GradeStatus::InternalError).  A namespace that cannot
\* be set up and a disk that fails while merging are answered otherwise.
FaultReported ==
  \A r \in Runs : pc[r] = "done" =>
    (response[r].status = "internal_error" <=> ours[r])

\* The workspaces of a worker that died are gone once it is back
\* (reset_work_dir).
LeftoversCleared ==
  up => \A r \in Runs : pc[r] = "lost" => tree[RunId(r)] = {}

\* Every run that starts ends, unless the worker dies, even if its commands
\* never do: this is what gives the permit back (the timeouts of git_clone and
\* run_isolated).
RunEnds ==
  \A r \in Runs : pc[r] # "new" ~> pc[r] \in {"done", "lost"}
=============================================================================
