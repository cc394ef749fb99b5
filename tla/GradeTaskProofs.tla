--------------------------- MODULE GradeTaskProofs ---------------------------
(***************************************************************************)
(* Theorems about GradeTask, for every number of executions and crashes    *)
(* and every combination of failures that a theorem does not exclude.      *)
(*                                                                         *)
(* A step of one run leaves the others alone (OthersSame), so the          *)
(* invariants are stated for one run and proved for its own steps.         *)
(***************************************************************************)
EXTENDS GradeTask, TLAPS

\* A step of run r itself.
Step(r) == Pipeline(r) \/ TimeLimit(r) \/ Environment(r)

-----------------------------------------------------------------------------
(* Types.                                                                  *)

\* build_run_id gives every run a name of its own.
LEMMA RunIdsAreRuns == RunIds = Runs
BY DEF RunIds, RunId

\* The worker starts with the types.
LEMMA InitType == Init => TypeOK
BY RunIdsAreRuns, GradeTaskAssumption
   DEF Init, TypeOK, Steps, NoResponse

\* Every error names a stage of the result.
LEMMA RespondType ==
  ASSUME TypeOK, NEW r \in Runs, NEW status \in Statuses,
         pc[r] \in Steps \ {"drop", "done", "lost"}, Respond(r, status)
  PROVE  /\ response' \in [Runs -> {NoResponse} \cup
                                    [status : Statuses, stage : Stages]]
         /\ pc' \in [Runs -> Steps]
<1>1. StageOf(pc[r]) \in Stages
  BY DEF StageOf, Stages, Steps
<1>2. [status |-> status, stage |-> StageOf(pc[r])] \in
        [status : Statuses, stage : Stages]
  BY <1>1
<1>3. response' = [response EXCEPT ![r] =
         [status |-> status, stage |-> StageOf(pc[r])]]
  BY DEF Respond
<1>4. pc' \in [Runs -> Steps]
  BY DEF Respond, Goto, TypeOK, Steps
<1>5. QED
  BY <1>2, <1>3, <1>4 DEF TypeOK

\* Every step of a run keeps the types.
LEMMA StepType ==
  ASSUME TypeOK, NEW r \in Runs, Step(r)
  PROVE  TypeOK'
<1> USE RunIdsAreRuns, GradeTaskAssumption
    DEF RunId, At, Goto, Ours, FailInternal, machine, sandbox, history
<1>1. CASE CreateDir(r)
  <2>1. /\ response' \in [Runs -> {NoResponse} \cup
                                [status : Statuses, stage : Stages]]
        /\ pc' \in [Runs -> Steps]
    BY <1>1, RespondType DEF CreateDir, TypeOK, Steps, Statuses
  <2>2. tree' \in [Runs -> SUBSET {"dir", "project", "hidden"}]
    BY <1>1 DEF CreateDir, TypeOK
  <2>3. ours' \in [Runs -> BOOLEAN]
    BY <1>1 DEF CreateDir, TypeOK
  <2>4. QED
    BY <1>1, <2>1, <2>2, <2>3 DEF CreateDir, TypeOK
<1>2. CASE PrepareRootfs(r)
  BY <1>2, RespondType DEF PrepareRootfs, TypeOK, Steps, Statuses
<1>3. CASE CloneStudent(r)
  <2>1. /\ response' \in [Runs -> {NoResponse} \cup
                                [status : Statuses, stage : Stages]]
        /\ pc' \in [Runs -> Steps]
    BY <1>3, RespondType DEF CloneStudent, CloneFails, TypeOK, Steps, Statuses
  <2>2. tree' \in [Runs -> SUBSET {"dir", "project", "hidden"}]
    BY <1>3 DEF CloneStudent, CloneFails, TypeOK
  <2>3. reports' \in [Runs -> SUBSET (Runs \X Origins)]
    BY <1>3 DEF CloneStudent, CloneFails, TypeOK, Origins
  <2>4. alive' \in [Runs -> SUBSET {"main", "helper", "git"}]
    BY <1>3 DEF CloneStudent, CloneFails, TypeOK
  <2>5. ours' \in [Runs -> BOOLEAN]
    BY <1>3 DEF CloneStudent, CloneFails, TypeOK
  <2>6. QED
    BY <1>3, <2>1, <2>2, <2>3, <2>4, <2>5 DEF CloneStudent, TypeOK
<1>4. CASE CloneTests(r)
  <2>1. /\ response' \in [Runs -> {NoResponse} \cup
                                [status : Statuses, stage : Stages]]
        /\ pc' \in [Runs -> Steps]
    BY <1>4, RespondType DEF CloneTests, CloneFails, TypeOK, Steps, Statuses
  <2>2. tree' \in [Runs -> SUBSET {"dir", "project", "hidden"}]
    BY <1>4 DEF CloneTests, CloneFails, TypeOK
  <2>3. reports' \in [Runs -> SUBSET (Runs \X Origins)]
    BY <1>4 DEF CloneTests, CloneFails, TypeOK, Origins
  <2>4. alive' \in [Runs -> SUBSET {"main", "helper", "git"}]
    BY <1>4 DEF CloneTests, CloneFails, TypeOK
  <2>5. ours' \in [Runs -> BOOLEAN]
    BY <1>4 DEF CloneTests, CloneFails, TypeOK
  <2>6. QED
    BY <1>4, <2>1, <2>2, <2>3, <2>4, <2>5 DEF CloneTests, TypeOK
<1>5. CASE CheckSize(r)
  BY <1>5, RespondType DEF CheckSize, TypeOK, Steps, Statuses
<1>6. CASE MergeTrees(r)
  BY <1>6, RespondType DEF MergeTrees, TypeOK, Steps, Statuses
<1>7. CASE RemoveHidden(r)
  <2>1. /\ response' \in [Runs -> {NoResponse} \cup
                                [status : Statuses, stage : Stages]]
        /\ pc' \in [Runs -> Steps]
    BY <1>7, RespondType DEF RemoveHidden, TypeOK, Steps, Statuses
  <2>2. tree' \in [Runs -> SUBSET {"dir", "project", "hidden"}]
    BY <1>7 DEF RemoveHidden, TypeOK
  <2>3. ours' \in [Runs -> BOOLEAN]
    BY <1>7 DEF RemoveHidden, TypeOK
  <2>4. QED
    BY <1>7, <2>1, <2>2, <2>3 DEF RemoveHidden, TypeOK
<1>8. CASE Launch(r)
  <2>1. /\ response' \in [Runs -> {NoResponse} \cup
                                [status : Statuses, stage : Stages]]
        /\ pc' \in [Runs -> Steps]
    BY <1>8, RespondType DEF Launch, TypeOK, Steps, Statuses
  <2>2. cgroups' \subseteq Runs \X {"install", "test"}
    BY <1>8 DEF Launch, TypeOK
  <2>3. alive' \in [Runs -> SUBSET {"main", "helper", "git"}]
    BY <1>8 DEF Launch, TypeOK
  <2>4. child' \in [Runs -> {"unstarted", "running", "ok", "nonzero", "signal",
                      "setup"}]
    BY <1>8 DEF Launch, TypeOK
  <2>5. timedOut' \in [Runs -> BOOLEAN]
    BY <1>8 DEF Launch, TypeOK
  <2>6. oom' \in [Runs -> BOOLEAN]
    BY <1>8 DEF Launch, TypeOK
  <2>7. ran' \in [Runs -> SUBSET {"install", "test"}]
    BY <1>8 DEF Launch, TypeOK
  <2>8. ours' \in [Runs -> BOOLEAN]
    BY <1>8 DEF Launch, TypeOK
  <2>9. QED
    BY <1>8, <2>1, <2>2, <2>3, <2>4, <2>5, <2>6, <2>7, <2>8 DEF Launch, TypeOK
<1>9. CASE FinishStage(r)
  <2>1. /\ response' \in [Runs -> {NoResponse} \cup
                                [status : Statuses, stage : Stages]]
        /\ pc' \in [Runs -> Steps]
    BY <1>9, RespondType DEF FinishStage, DropCgroup, StageError, TypeOK,
       Steps, Statuses
  <2>2. cgroups' \subseteq Runs \X {"install", "test"}
    BY <1>9 DEF FinishStage, DropCgroup, StageError, TypeOK
  <2>3. alive' \in [Runs -> SUBSET {"main", "helper", "git"}]
    BY <1>9 DEF FinishStage, DropCgroup, StageError, TypeOK
  <2>4. child' \in [Runs -> {"unstarted", "running", "ok", "nonzero", "signal",
                      "setup"}]
    BY <1>9 DEF FinishStage, DropCgroup, StageError, TypeOK
  <2>5. oom' \in [Runs -> BOOLEAN]
    BY <1>9 DEF FinishStage, DropCgroup, StageError, TypeOK
  <2>6. ours' \in [Runs -> BOOLEAN]
    BY <1>9 DEF FinishStage, WasOomKilled, TypeOK
  <2>7. QED
    BY <1>9, <2>1, <2>2, <2>3, <2>4, <2>5, <2>6 DEF FinishStage, TypeOK
<1>10. CASE WaitFails(r)
  <2>1. /\ response' \in [Runs -> {NoResponse} \cup
                                [status : Statuses, stage : Stages]]
        /\ pc' \in [Runs -> Steps]
    BY <1>10, RespondType DEF WaitFails, DropCgroup, Survivors, TypeOK, Steps,
       Statuses
  <2>2. cgroups' \subseteq Runs \X {"install", "test"}
    BY <1>10 DEF WaitFails, DropCgroup, Survivors, TypeOK
  <2>3. alive' \in [Runs -> SUBSET {"main", "helper", "git"}]
    BY <1>10 DEF WaitFails, DropCgroup, Survivors, TypeOK
  <2>4. child' \in [Runs -> {"unstarted", "running", "ok", "nonzero", "signal",
                      "setup"}]
    BY <1>10 DEF WaitFails, DropCgroup, Survivors, TypeOK
  <2>5. oom' \in [Runs -> BOOLEAN]
    BY <1>10 DEF WaitFails, DropCgroup, Survivors, TypeOK
  <2>6. ours' \in [Runs -> BOOLEAN]
    BY <1>10 DEF WaitFails, DropCgroup, Survivors, TypeOK
  <2>7. QED
    BY <1>10, <2>1, <2>2, <2>3, <2>4, <2>5, <2>6 DEF WaitFails, TypeOK
<1>11. CASE ReadReports(r)
  <2>1. /\ response' \in [Runs -> {NoResponse} \cup
                                [status : Statuses, stage : Stages]]
        /\ pc' \in [Runs -> Steps]
    BY <1>11, RespondType DEF ReadReports, TypeOK, Steps, Statuses
  <2>2. basis' \in [Runs -> SUBSET (Runs \X Origins)]
    BY <1>11 DEF ReadReports, TypeOK, Origins
  <2>3. ours' \in [Runs -> BOOLEAN]
    BY <1>11 DEF ReadReports, TypeOK
  <2>4. QED
    BY <1>11, <2>1, <2>2, <2>3 DEF ReadReports, TypeOK
<1>12. CASE DropWorkspace(r)
  BY <1>12, RespondType DEF DropWorkspace, TypeOK, Steps, Statuses
<1>13. CASE TimeLimit(r)
  <2>1. alive' \in [Runs -> SUBSET {"main", "helper", "git"}]
    BY <1>13 DEF TimeLimit, Survivors, TypeOK
  <2>2. child' \in [Runs -> {"unstarted", "running", "ok", "nonzero", "signal",
                      "setup"}]
    BY <1>13 DEF TimeLimit, Survivors, TypeOK
  <2>3. timedOut' \in [Runs -> BOOLEAN]
    BY <1>13 DEF TimeLimit, Survivors, TypeOK
  <2>4. QED
    BY <1>13, <2>1, <2>2, <2>3 DEF TimeLimit, TypeOK
<1>14. CASE WriteReport(r)
  <2>1. <<r, pc[r]>> \in Runs \X Origins
    BY <1>14 DEF WriteReport, Origins
  <2>2. reports' \in [Runs -> SUBSET (Runs \X Origins)]
    BY <1>14, <2>1 DEF WriteReport, TypeOK
  <2>3. QED
    BY <1>14, <2>2 DEF WriteReport, TypeOK
<1>15. CASE ChildExits(r)
  BY <1>15, RespondType DEF ChildExits, Survivors, TypeOK, Steps, Statuses
<1>16. CASE OomKill(r)
  <2>1. alive' \in [Runs -> SUBSET {"main", "helper", "git"}]
    BY <1>16 DEF OomKill, TypeOK
  <2>2. child' \in [Runs -> {"unstarted", "running", "ok", "nonzero", "signal",
                      "setup"}]
    BY <1>16 DEF OomKill, TypeOK
  <2>3. oom' \in [Runs -> BOOLEAN]
    BY <1>16 DEF OomKill, TypeOK
  <2>4. QED
    BY <1>16, <2>1, <2>2, <2>3 DEF OomKill, TypeOK
<1>17. CASE StragglersEnd(r)
  BY <1>17, RespondType DEF StragglersEnd, TypeOK, Steps, Statuses
<1>18. QED
  BY <1>1, <1>2, <1>3, <1>4, <1>5, <1>6, <1>7, <1>8, <1>9, <1>10, <1>11,
     <1>12, <1>13, <1>14, <1>15, <1>16, <1>17
     DEF Step, Pipeline, Environment

\* A crash of the worker keeps the types.
LEMMA CrashType == TypeOK /\ Crash => TypeOK'
<1> SUFFICES ASSUME TypeOK, Crash PROVE TypeOK'
  OBVIOUS
<1>1. crashes' \in 0..MaxCrashes
  BY GradeTaskAssumption DEF TypeOK, Crash
<1>2. pc' \in [Runs -> Steps]
  BY DEF TypeOK, Crash, Steps
<1>3. QED
  BY <1>1, <1>2 DEF TypeOK, Crash, history

\* reset_work_dir keeps the types.
LEMMA ResetType == TypeOK /\ ResetWorkDir => TypeOK'
BY RunIdsAreRuns DEF TypeOK, ResetWorkDir, sandbox, history, RunId

\* No step breaks the types.
LEMMA NextType == TypeOK /\ [Next]_vars => TypeOK'
<1> SUFFICES ASSUME TypeOK, [Next]_vars PROVE TypeOK'
  OBVIOUS
<1>1. CASE UNCHANGED vars
  BY <1>1 DEF vars, TypeOK
<1>2. CASE \E r \in Runs : Step(r)
  BY <1>2, StepType
<1>3. QED
  BY <1>1, <1>2, CrashType, ResetType DEF Next, Step

\* Every variable keeps its type.
THEOREM TypeCorrect == Spec => []TypeOK
<1>1. QED
  BY InitType, NextType, PTL DEF Spec

-----------------------------------------------------------------------------
(* A step of one run and the others.                                       *)

\* Nothing of run r changes.
Same(r) ==
  /\ pc'[r] = pc[r]
  /\ tree'[RunId(r)] = tree[RunId(r)]
  /\ reports'[RunId(r)] = reports[RunId(r)]
  /\ alive'[r] = alive[r]
  /\ child'[r] = child[r]
  /\ timedOut'[r] = timedOut[r]
  /\ oom'[r] = oom[r]
  /\ response'[r] = response[r]
  /\ ran'[r] = ran[r]
  /\ ours'[r] = ours[r]
  /\ basis'[r] = basis[r]
  /\ \A s : <<RunId(r), s>> \in cgroups' <=> <<RunId(r), s>> \in cgroups

\* The workspaces, cgroups and processes of different runs are different
\* (build_run_id).
LEMMA OthersSame ==
  ASSUME TypeOK, NEW q \in Runs, NEW r \in Runs, q # r, Step(q)
  PROVE  Same(r)
<1> USE RunIdsAreRuns
    DEF RunId, Goto, Ours, Respond, FailInternal, machine, sandbox, history,
        TypeOK, Same
<1>1. CASE CreateDir(q)
  BY <1>1 DEF CreateDir
<1>2. CASE PrepareRootfs(q)
  BY <1>2 DEF PrepareRootfs
<1>3. CASE CloneStudent(q)
  BY <1>3 DEF CloneStudent, CloneFails
<1>4. CASE CloneTests(q)
  BY <1>4 DEF CloneTests, CloneFails
<1>5. CASE CheckSize(q)
  BY <1>5 DEF CheckSize
<1>6. CASE MergeTrees(q)
  BY <1>6 DEF MergeTrees
<1>7. CASE RemoveHidden(q)
  BY <1>7 DEF RemoveHidden
<1>8. CASE Launch(q)
  <2>1. ASSUME NEW s
        PROVE  <<r, s>> \in cgroups' <=> <<r, s>> \in cgroups
    <3>1. <<r, s>> # <<q, pc[q]>>
      OBVIOUS
    <3>2. cgroups' \in {cgroups, cgroups \cup {<<q, pc[q]>>}}
      BY <1>8 DEF Launch
    <3>3. QED
      BY <3>1, <3>2
  <2>2. /\ pc'[r] = pc[r] /\ tree'[r] = tree[r] /\ reports'[r] = reports[r]
        /\ alive'[r] = alive[r] /\ child'[r] = child[r]
        /\ timedOut'[r] = timedOut[r] /\ oom'[r] = oom[r]
    BY <1>8 DEF Launch
  <2>3. /\ response'[r] = response[r] /\ ran'[r] = ran[r]
        /\ ours'[r] = ours[r] /\ basis'[r] = basis[r]
    BY <1>8 DEF Launch
  <2>4. QED
    BY <2>1, <2>2, <2>3
<1>9. CASE FinishStage(q)
  <2>1. ASSUME NEW s
        PROVE  <<r, s>> \in cgroups' <=> <<r, s>> \in cgroups
    <3>1. <<r, s>> # <<q, pc[q]>>
      OBVIOUS
    <3>2. cgroups' \in {cgroups, cgroups \ {<<q, pc[q]>>}}
      BY <1>9 DEF FinishStage, DropCgroup
    <3>3. QED
      BY <3>1, <3>2
  <2>2. /\ alive'[r] = alive[r]
        /\ child'[r] = child[r] /\ timedOut'[r] = timedOut[r]
        /\ oom'[r] = oom[r]
    <3>1. alive'[r] = alive[r]
      BY <1>9 DEF FinishStage, DropCgroup
    <3>2. child'[r] = child[r] /\ timedOut'[r] = timedOut[r] /\ oom'[r] = oom[r]
      BY <1>9 DEF FinishStage
    <3>3. QED
      BY <3>1, <3>2
  <2>3. /\ pc'[r] = pc[r] /\ response'[r] = response[r]
        /\ ours'[r] = ours[r]
    BY <1>9 DEF FinishStage, WasOomKilled
  <2>4. /\ tree'[r] = tree[r] /\ reports'[r] = reports[r]
        /\ ran'[r] = ran[r] /\ basis'[r] = basis[r]
    BY <1>9 DEF FinishStage
  <2>5. QED
    BY <2>1, <2>2, <2>3, <2>4
<1>10. CASE WaitFails(q)
  BY <1>10 DEF WaitFails, DropCgroup
<1>11. CASE ReadReports(q)
  BY <1>11 DEF ReadReports
<1>12. CASE DropWorkspace(q)
  BY <1>12 DEF DropWorkspace
<1>13. CASE TimeLimit(q)
  BY <1>13 DEF TimeLimit
<1>14. CASE WriteReport(q)
  BY <1>14 DEF WriteReport
<1>15. CASE ChildExits(q)
  BY <1>15 DEF ChildExits
<1>16. CASE OomKill(q)
  BY <1>16 DEF OomKill
<1>17. CASE StragglersEnd(q)
  BY <1>17 DEF StragglersEnd
<1>18. QED
  BY <1>1, <1>2, <1>3, <1>4, <1>5, <1>6, <1>7, <1>8, <1>9, <1>10, <1>11,
     <1>12, <1>13, <1>14, <1>15, <1>16, <1>17
     DEF Step, Pipeline, Environment

-----------------------------------------------------------------------------
(* What holds of one run.                                                  *)

\* The workspace is where the pipeline has left it, and a worker that died
\* left no run under way.
Placed(r) ==
  /\ pc[r] = "new" => tree[RunId(r)] = {}
  /\ pc[r] \in {"rootfs", "student"} => tree[RunId(r)] = {"dir"}
  /\ pc[r] = "tests" => tree[RunId(r)] = {"dir", "project"}
  /\ pc[r] \in {"size", "merge", "hide"} =>
       tree[RunId(r)] = {"dir", "project", "hidden"}
  /\ pc[r] \in {"install", "test", "report"} =>
       tree[RunId(r)] = {"dir", "project"}
  /\ ~up => pc[r] \in {"new", "done", "lost"}
  /\ up /\ pc[r] = "lost" => tree[RunId(r)] = {}

Before == {"new", "rootfs", "student", "tests", "size", "merge", "hide"}
Ended  == {"drop", "done", "lost"}

\* How far the execution came, at each step and by the status of the result.
Executed(r) ==
  /\ pc[r] \in Before => ran[r] = {} /\ child[r] = "unstarted"
  /\ pc[r] = "install" => ran[r] \subseteq {"install"}
  /\ pc[r] \in {"test", "report"} => "install" \in ran[r]
  /\ pc[r] = "report" => "test" \in ran[r]
  /\ pc[r] \in {"install", "test"} /\ child[r] # "unstarted" /\ ~oom[r] =>
       pc[r] \in ran[r]
  /\ pc[r] \notin Ended => response[r] = NoResponse
  /\ response[r].status \in {"clone_failed", "merge_failed"} => ran[r] = {}
  /\ response[r].status = "install_failed" => "test" \notin ran[r]
  /\ Graded(r) => ran[r] = {"install", "test"}

\* A command is alive only inside its stage, and nothing of a cgroup outlives
\* its stage.
Housed(r) ==
  /\ "main" \in alive[r] =>
       /\ pc[r] \in {"install", "test"}
       /\ child[r] # "unstarted"
       /\ isolation \/ child[r] = "running"
  /\ isolation /\ pc[r] = "report" => alive[r] = {}

\* Processes and cgroups belong to the stage that is open.
Clean(r) ==
  /\ alive[r] # {} => pc[r] \in {"install", "test"} /\ child[r] # "unstarted"
  /\ \A s : <<RunId(r), s>> \in cgroups =>
       \/ pc[r] = "lost"
       \/ s = pc[r] /\ pc[r] \in {"install", "test"} /\ child[r] # "unstarted"
  /\ pc[r] = "done" => tree[RunId(r)] = {}

\* Whoever writes a report file of the run is one of the sources.
Judged(r) ==
  /\ reports[RunId(r)] \subseteq {r} \X ReportSources
  /\ basis[r] \subseteq {r} \X ReportSources
  /\ Graded(r) => basis[r] # {}

\* A run's own step keeps where its files are.
LEMMA PlacedStep ==
  ASSUME TypeOK, NEW r \in Runs, Step(r), Placed(r)
  PROVE  Placed(r)'
<1> USE RunIdsAreRuns, GradeTaskAssumption
    DEF RunId, At, Goto, Ours, Respond, FailInternal, StageOf, TypeOK,
        machine, sandbox, history, Placed, Steps
<1>1. CASE CreateDir(r)
  BY <1>1 DEF CreateDir
<1>2. CASE PrepareRootfs(r)
  BY <1>2 DEF PrepareRootfs
<1>3. CASE CloneStudent(r)
  BY <1>3 DEF CloneStudent, CloneFails
<1>4. CASE CloneTests(r)
  BY <1>4 DEF CloneTests, CloneFails
<1>5. CASE CheckSize(r)
  BY <1>5 DEF CheckSize
<1>6. CASE MergeTrees(r)
  BY <1>6 DEF MergeTrees
<1>7. CASE RemoveHidden(r)
  BY <1>7 DEF RemoveHidden
<1>8. CASE Launch(r)
  BY <1>8 DEF Launch
<1>9. CASE FinishStage(r)
  BY <1>9 DEF FinishStage, DropCgroup, WasOomKilled, StageError,
     StagePassed, Succeeded, Exited
<1>10. CASE WaitFails(r)
  BY <1>10 DEF WaitFails, DropCgroup, Survivors
<1>11. CASE ReadReports(r)
  BY <1>11 DEF ReadReports
<1>12. CASE DropWorkspace(r)
  BY <1>12 DEF DropWorkspace
<1>13. CASE TimeLimit(r)
  BY <1>13 DEF TimeLimit, Survivors
<1>14. CASE WriteReport(r)
  BY <1>14 DEF WriteReport
<1>15. CASE ChildExits(r)
  BY <1>15 DEF ChildExits, Survivors
<1>16. CASE OomKill(r)
  BY <1>16 DEF OomKill
<1>17. CASE StragglersEnd(r)
  BY <1>17 DEF StragglersEnd
<1>18. QED
  BY <1>1, <1>2, <1>3, <1>4, <1>5, <1>6, <1>7, <1>8, <1>9, <1>10, <1>11,
     <1>12, <1>13, <1>14, <1>15, <1>16, <1>17
     DEF Step, Pipeline, Environment

\* A run's own step keeps what its commands have done.
LEMMA ExecutedStep ==
  ASSUME TypeOK, NEW r \in Runs, Step(r),
         Failures \cap {"setup", "events"} = {}, Executed(r)
  PROVE  Executed(r)'
<1> USE RunIdsAreRuns, GradeTaskAssumption
    DEF RunId, At, Goto, Ours, Respond, FailInternal, StageOf, TypeOK,
        machine, sandbox, history, Executed, Graded, Steps, Before, Ended,
        NoResponse
<1>1. CASE CreateDir(r)
  BY <1>1 DEF CreateDir
<1>2. CASE PrepareRootfs(r)
  BY <1>2 DEF PrepareRootfs
<1>3. CASE CloneStudent(r)
  BY <1>3 DEF CloneStudent, CloneFails
<1>4. CASE CloneTests(r)
  BY <1>4 DEF CloneTests, CloneFails
<1>5. CASE CheckSize(r)
  BY <1>5 DEF CheckSize
<1>6. CASE MergeTrees(r)
  BY <1>6 DEF MergeTrees
<1>7. CASE RemoveHidden(r)
  <2>1. ran' = ran /\ child' = child /\ oom' = oom /\ pc[r] = "hide"
    BY <1>7 DEF RemoveHidden
  <2>2. CASE pc'[r] = "install" /\ response' = response
    BY <2>1, <2>2
  <2>3. CASE pc'[r] = "drop" /\ response'[r].status = "internal_error"
    BY <2>1, <2>3
  <2>4. QED
    BY <1>7, <2>2, <2>3 DEF RemoveHidden
<1>8. CASE Launch(r)
  BY <1>8 DEF Launch
<1>9. CASE FinishStage(r)
  BY <1>9 DEF FinishStage, DropCgroup, WasOomKilled, StageError,
     StagePassed, Succeeded, Exited
<1>10. CASE WaitFails(r)
  BY <1>10 DEF WaitFails, DropCgroup, Survivors
<1>11. CASE ReadReports(r)
  BY <1>11 DEF ReadReports
<1>12. CASE DropWorkspace(r)
  BY <1>12 DEF DropWorkspace
<1>13. CASE TimeLimit(r)
  BY <1>13 DEF TimeLimit, Survivors
<1>14. CASE WriteReport(r)
  BY <1>14 DEF WriteReport
<1>15. CASE ChildExits(r)
  BY <1>15 DEF ChildExits, Survivors
<1>16. CASE OomKill(r)
  BY <1>16 DEF OomKill
<1>17. CASE StragglersEnd(r)
  BY <1>17 DEF StragglersEnd
<1>18. QED
  BY <1>1, <1>2, <1>3, <1>4, <1>5, <1>6, <1>7, <1>8, <1>9, <1>10, <1>11,
     <1>12, <1>13, <1>14, <1>15, <1>16, <1>17
     DEF Step, Pipeline, Environment

\* A run's own step keeps what it has to clean up.
LEMMA HousedStep ==
  ASSUME TypeOK, NEW r \in Runs, Step(r),
         Failures \cap {"kill", "drain"} = {}, Housed(r)
  PROVE  Housed(r)'
<1> USE RunIdsAreRuns, GradeTaskAssumption
    DEF RunId, At, Goto, Ours, Respond, FailInternal, StageOf, TypeOK,
        machine, sandbox, history, Housed
<1>1. CASE CreateDir(r)
  BY <1>1 DEF CreateDir
<1>2. CASE PrepareRootfs(r)
  BY <1>2 DEF PrepareRootfs
<1>3. CASE CloneStudent(r)
  BY <1>3 DEF CloneStudent, CloneFails
<1>4. CASE CloneTests(r)
  BY <1>4 DEF CloneTests, CloneFails
<1>5. CASE CheckSize(r)
  BY <1>5 DEF CheckSize
<1>6. CASE MergeTrees(r)
  BY <1>6 DEF MergeTrees
<1>7. CASE RemoveHidden(r)
  BY <1>7 DEF RemoveHidden
<1>8. CASE Launch(r)
  BY <1>8 DEF Launch
<1>9. CASE FinishStage(r)
  BY <1>9 DEF FinishStage, DropCgroup, WasOomKilled, StageError,
     StagePassed, Succeeded, Exited
<1>10. CASE WaitFails(r)
  BY <1>10 DEF WaitFails, DropCgroup, Survivors
<1>11. CASE ReadReports(r)
  BY <1>11 DEF ReadReports
<1>12. CASE DropWorkspace(r)
  BY <1>12 DEF DropWorkspace
<1>13. CASE TimeLimit(r)
  BY <1>13 DEF TimeLimit, Survivors
<1>14. CASE WriteReport(r)
  BY <1>14 DEF WriteReport
<1>15. CASE ChildExits(r)
  BY <1>15 DEF ChildExits, Survivors
<1>16. CASE OomKill(r)
  BY <1>16 DEF OomKill
<1>17. CASE StragglersEnd(r)
  <2>1. PICK left \in SUBSET alive[r] : alive' = [alive EXCEPT ![r] = left]
    BY <1>17 DEF StragglersEnd
  <2>2. UNCHANGED <<isolation, pc, child>>
    BY <1>17 DEF StragglersEnd
  <2>3. QED
    BY <2>1, <2>2
<1>18. QED
  BY <1>1, <1>2, <1>3, <1>4, <1>5, <1>6, <1>7, <1>8, <1>9, <1>10, <1>11,
     <1>12, <1>13, <1>14, <1>15, <1>16, <1>17
     DEF Step, Pipeline, Environment

\* A run's own step keeps what its sandbox sees and leaves.
LEMMA CleanStep ==
  ASSUME TypeOK, NEW r \in Runs, Step(r),
         Isolations = {TRUE}, Placed(r),
         Failures \cap {"rootfs", "git", "kill", "drain", "remove"} = {},
         Clean(r)
  PROVE  Clean(r)'
<1> USE RunIdsAreRuns, GradeTaskAssumption
    DEF RunId, At, Goto, Ours, Respond, FailInternal, StageOf, TypeOK,
        machine, sandbox, history, Clean, Placed
<1>1. CASE CreateDir(r)
  BY <1>1 DEF CreateDir
<1>2. CASE PrepareRootfs(r)
  BY <1>2 DEF PrepareRootfs
<1>3. CASE CloneStudent(r)
  BY <1>3 DEF CloneStudent, CloneFails
<1>4. CASE CloneTests(r)
  BY <1>4 DEF CloneTests, CloneFails
<1>5. CASE CheckSize(r)
  BY <1>5 DEF CheckSize
<1>6. CASE MergeTrees(r)
  BY <1>6 DEF MergeTrees
<1>7. CASE RemoveHidden(r)
  BY <1>7 DEF RemoveHidden
<1>8. CASE Launch(r)
  BY <1>8 DEF Launch
<1>9. CASE FinishStage(r)
  BY <1>9 DEF FinishStage, DropCgroup, WasOomKilled, StageError,
     StagePassed, Succeeded, Exited
<1>10. CASE WaitFails(r)
  BY <1>10 DEF WaitFails, DropCgroup, Survivors
<1>11. CASE ReadReports(r)
  BY <1>11 DEF ReadReports
<1>12. CASE DropWorkspace(r)
  BY <1>12 DEF DropWorkspace
<1>13. CASE TimeLimit(r)
  BY <1>13 DEF TimeLimit, Survivors
<1>14. CASE WriteReport(r)
  BY <1>14 DEF WriteReport
<1>15. CASE ChildExits(r)
  BY <1>15 DEF ChildExits, Survivors
<1>16. CASE OomKill(r)
  BY <1>16 DEF OomKill
<1>17. CASE StragglersEnd(r)
  <2>1. PICK left \in SUBSET alive[r] : alive' = [alive EXCEPT ![r] = left]
    BY <1>17 DEF StragglersEnd
  <2>2. /\ pc'[r] = pc[r] /\ child'[r] = child[r] /\ tree'[r] = tree[r]
        /\ cgroups' = cgroups
    BY <1>17 DEF StragglersEnd
  <2>3. QED
    BY <2>1, <2>2
<1>18. QED
  BY <1>1, <1>2, <1>3, <1>4, <1>5, <1>6, <1>7, <1>8, <1>9, <1>10, <1>11,
     <1>12, <1>13, <1>14, <1>15, <1>16, <1>17
     DEF Step, Pipeline, Environment

\* A run's own step keeps where its report comes from.
LEMMA JudgedStep ==
  ASSUME TypeOK, NEW r \in Runs, Step(r),
         Judged(r)
  PROVE  Judged(r)'
<1> USE RunIdsAreRuns, GradeTaskAssumption
    DEF RunId, At, Goto, Ours, Respond, FailInternal, StageOf, TypeOK,
        machine, sandbox, history, Judged, Graded
<1>1. CASE CreateDir(r)
  BY <1>1 DEF CreateDir
<1>2. CASE PrepareRootfs(r)
  BY <1>2 DEF PrepareRootfs
<1>3. CASE CloneStudent(r)
  <2>1. reports'[r] \subseteq {r} \X ReportSources
    BY <1>3 DEF CloneStudent, CloneFails, ReportSources
  <2>2. basis' = basis /\ (Graded(r)' => Graded(r))
    BY <1>3 DEF CloneStudent, CloneFails
  <2>3. QED
    BY <2>1, <2>2
<1>4. CASE CloneTests(r)
  BY <1>4 DEF CloneTests, CloneFails
<1>5. CASE CheckSize(r)
  BY <1>5 DEF CheckSize
<1>6. CASE MergeTrees(r)
  BY <1>6 DEF MergeTrees
<1>7. CASE RemoveHidden(r)
  BY <1>7 DEF RemoveHidden
<1>8. CASE Launch(r)
  BY <1>8 DEF Launch
<1>9. CASE FinishStage(r)
  BY <1>9 DEF FinishStage, DropCgroup, WasOomKilled, StageError,
     StagePassed, Succeeded, Exited
<1>10. CASE WaitFails(r)
  BY <1>10 DEF WaitFails, DropCgroup, Survivors
<1>11. CASE ReadReports(r)
  BY <1>11 DEF ReadReports
<1>12. CASE DropWorkspace(r)
  BY <1>12 DEF DropWorkspace
<1>13. CASE TimeLimit(r)
  BY <1>13 DEF TimeLimit, Survivors
<1>14. CASE WriteReport(r)
  <2>1. pc[r] \in ReportSources
    BY <1>14 DEF WriteReport, Steps, ReportSources
  <2>2. reports'[r] \subseteq reports[r] \cup {<<r, pc[r]>>}
    BY <1>14, <2>1 DEF WriteReport
  <2>3. UNCHANGED <<basis, response>>
    BY <1>14 DEF WriteReport
  <2>4. QED
    BY <2>1, <2>2, <2>3
<1>15. CASE ChildExits(r)
  BY <1>15 DEF ChildExits, Survivors
<1>16. CASE OomKill(r)
  BY <1>16 DEF OomKill
<1>17. CASE StragglersEnd(r)
  BY <1>17 DEF StragglersEnd
<1>18. QED
  BY <1>1, <1>2, <1>3, <1>4, <1>5, <1>6, <1>7, <1>8, <1>9, <1>10, <1>11,
     <1>12, <1>13, <1>14, <1>15, <1>16, <1>17
     DEF Step, Pipeline, Environment

-----------------------------------------------------------------------------
(* The inductive invariant.                                                *)

\* What a theorem assumes of the worker's side.
ExecutionsSeen   == Failures \cap {"setup", "events"} = {}
CgroupsEmpty     == Failures \cap {"kill", "drain"} = {}
TeardownWorks    == /\ Isolations = {TRUE}
                    /\ Failures \cap {"rootfs", "git", "kill", "drain",
                                      "remove"} = {}

RunInv(r) ==
  /\ Placed(r)
  /\ ExecutionsSeen => Executed(r)
  /\ CgroupsEmpty => Housed(r)
  /\ TeardownWorks => Clean(r)
  /\ Judged(r)

IInv == TypeOK /\ \A r \in Runs : RunInv(r)

\* The worker starts in the invariant.
LEMMA InitInv == Init => IInv
<1> SUFFICES ASSUME Init, NEW r \in Runs PROVE RunInv(r)
  BY InitType DEF IInv
<1> USE RunIdsAreRuns DEF Init, RunId
<1>1. Placed(r) /\ Housed(r) /\ Clean(r) /\ Judged(r)
  BY DEF Placed, Housed, Clean, Judged, Graded, NoResponse
<1>2. Executed(r)
  BY DEF Executed, Before, Ended, Graded, NoResponse
<1>3. QED
  BY <1>1, <1>2 DEF RunInv

\* A step of a run keeps that run's part of the invariant.
LEMMA OwnStep ==
  ASSUME TypeOK, NEW r \in Runs, Step(r), RunInv(r)
  PROVE  RunInv(r)'
<1>1. Placed(r)'
  BY PlacedStep DEF RunInv
<1>2. ExecutionsSeen => Executed(r)'
  BY ExecutedStep DEF RunInv, ExecutionsSeen
<1>3. CgroupsEmpty => Housed(r)'
  BY HousedStep DEF RunInv, CgroupsEmpty
<1>4. TeardownWorks => Clean(r)'
  BY CleanStep DEF RunInv, TeardownWorks
<1>5. Judged(r)'
  BY JudgedStep DEF RunInv
<1>6. QED
  BY <1>1, <1>2, <1>3, <1>4, <1>5
     DEF RunInv, ExecutionsSeen, CgroupsEmpty, TeardownWorks

\* A step of a run does not change whether the worker is up.
LEMMA MachineSame ==
  ASSUME NEW q \in Runs, Step(q)
  PROVE  UNCHANGED machine
<1>1. Pipeline(q) => UNCHANGED machine
  BY DEF Pipeline, CreateDir, PrepareRootfs, CloneStudent, CloneTests,
         CheckSize, MergeTrees, RemoveHidden, Launch, FinishStage, WaitFails,
         ReadReports, DropWorkspace
<1>2. TimeLimit(q) \/ Environment(q) => UNCHANGED machine
  BY DEF TimeLimit, Environment, WriteReport, ChildExits, OomKill,
         StragglersEnd
<1>3. QED
  BY <1>1, <1>2 DEF Step

\* A step of a run keeps the other runs' parts of the invariant.
LEMMA OtherStep ==
  ASSUME NEW r \in Runs, Same(r), UNCHANGED machine, RunInv(r)
  PROVE  RunInv(r)'
<1> USE DEF Same, machine
<1>1. Placed(r)'
  BY DEF RunInv, Placed
<1>2. ExecutionsSeen => Executed(r)'
  BY DEF RunInv, Executed, Graded
<1>3. CgroupsEmpty => Housed(r)'
  BY DEF RunInv, Housed
<1>4. TeardownWorks => Clean(r)'
  BY DEF RunInv, Clean
<1>5. Judged(r)'
  BY DEF RunInv, Judged, Graded
<1>6. QED
  BY <1>1, <1>2, <1>3, <1>4, <1>5
     DEF RunInv, ExecutionsSeen, CgroupsEmpty, TeardownWorks

\* A crash keeps every run's part of the invariant.
LEMMA CrashStep ==
  ASSUME TypeOK, Crash, NEW r \in Runs, RunInv(r)
  PROVE  RunInv(r)'
<1> USE DEF Crash, history
<1>1. /\ pc'[r] = (IF pc[r] \in {"new", "done"} THEN pc[r] ELSE "lost")
      /\ alive'[r] = {}
  OBVIOUS
<1>2. Placed(r)'
  BY <1>1 DEF RunInv, Placed
<1>3. ExecutionsSeen => Executed(r)'
  BY <1>1 DEF RunInv, Executed, Graded, Before, Ended
<1>4. CgroupsEmpty => Housed(r)'
  BY <1>1 DEF Housed
<1>5. TeardownWorks => Clean(r)'
  BY <1>1 DEF RunInv, Clean
<1>6. Judged(r)'
  BY DEF RunInv, Judged, Graded
<1>7. QED
  BY <1>2, <1>3, <1>4, <1>5, <1>6
     DEF RunInv, ExecutionsSeen, CgroupsEmpty, TeardownWorks

\* reset_work_dir keeps every run's part of the invariant.
LEMMA ResetStep ==
  ASSUME TypeOK, ResetWorkDir, NEW r \in Runs, RunInv(r)
  PROVE  RunInv(r)'
<1> USE RunIdsAreRuns DEF ResetWorkDir, sandbox, history, RunId
<1>1. tree'[r] = {} /\ reports'[r] = {}
  OBVIOUS
<1>2. Placed(r)'
  BY <1>1 DEF RunInv, Placed
<1>3. ExecutionsSeen => Executed(r)'
  BY DEF RunInv, Executed, Graded
<1>4. CgroupsEmpty => Housed(r)'
  BY DEF RunInv, Housed
<1>5. TeardownWorks => Clean(r)'
  BY <1>1 DEF RunInv, Clean
<1>6. Judged(r)'
  BY <1>1 DEF RunInv, Judged, Graded
<1>7. QED
  BY <1>2, <1>3, <1>4, <1>5, <1>6
     DEF RunInv, ExecutionsSeen, CgroupsEmpty, TeardownWorks

\* No step breaks the invariant.
LEMMA NextInv == IInv /\ [Next]_vars => IInv'
<1> SUFFICES ASSUME IInv, [Next]_vars, NEW r \in Runs PROVE RunInv(r)'
  BY NextType DEF IInv
<1>1. TypeOK /\ RunInv(r)
  BY DEF IInv
<1>2. CASE UNCHANGED vars
  <2>1. Same(r) /\ UNCHANGED machine
    BY <1>2 DEF vars, Same, machine
  <2>2. QED
    BY <1>1, <2>1, OtherStep
<1>3. ASSUME NEW q \in Runs, Step(q) PROVE RunInv(r)'
  <2>1. CASE q = r
    BY <1>1, <1>3, <2>1, OwnStep
  <2>2. CASE q # r
    BY <1>1, <1>3, <2>2, OthersSame, MachineSame, OtherStep
  <2>3. QED
    BY <2>1, <2>2
<1>4. CASE Crash
  BY <1>1, <1>4, CrashStep
<1>5. CASE ResetWorkDir
  BY <1>1, <1>5, ResetStep
<1>6. QED
  BY <1>2, <1>3, <1>4, <1>5 DEF Next, Step

\* The invariant holds in every state.
LEMMA Invariance == Spec => []IInv
<1>1. QED
  BY InitInv, NextInv, PTL DEF Spec

-----------------------------------------------------------------------------
(* Theorems.                                                               *)

\* Whatever fails, the workspaces of a worker that died are gone once it is
\* back (reset_work_dir).
THEOREM LeftoversAreCleared == Spec => []LeftoversCleared
<1>1. IInv => LeftoversCleared
  BY DEF IInv, RunInv, Placed, LeftoversCleared
<1>2. QED
  BY <1>1, Invariance, PTL

\* As long as cgroups can be killed and drained, a command never runs in a
\* workspace that is gone, incomplete or still has the hidden tests' checkout.
THEOREM SandboxesSee == CgroupsEmpty => (Spec => []SandboxSees)
<1> SUFFICES ASSUME CgroupsEmpty PROVE Spec => []SandboxSees
  OBVIOUS
<1>1. IInv => SandboxSees
  BY DEF IInv, RunInv, Placed, Housed, SandboxSees
<1>2. QED
  BY <1>1, Invariance, PTL

\* With isolation, and if nothing fails after which the code leaves something
\* behind, a run that is over has left nothing, on whichever path.
THEOREM TornDownOnEveryPath == TeardownWorks => (Spec => []TornDown)
<1> SUFFICES ASSUME TeardownWorks PROVE Spec => []TornDown
  OBVIOUS
<1>1. ASSUME IInv, NEW r \in Runs, pc[r] = "done"
      PROVE  tree[RunId(r)] = {} /\ alive[r] = {}
  BY <1>1 DEF IInv, RunInv, Clean
<1>2. ASSUME IInv, NEW r \in Runs, pc[r] = "done", NEW c \in cgroups
      PROVE  c[1] # RunId(r)
  <2>1. c = <<c[1], c[2]>>
    BY <1>2 DEF IInv, TypeOK
  <2>2. QED
    BY <1>2, <2>1 DEF IInv, RunInv, Clean
<1>3. IInv => TornDown
  BY <1>1, <1>2 DEF TornDown
<1>4. QED
  BY <1>3, Invariance, PTL

\* If the namespaces can be set up and the OOM kills read, a status says how far
\* the run came.
THEOREM StatusesMatch == ExecutionsSeen => (Spec => []StatusMatchesRun)
<1> SUFFICES ASSUME ExecutionsSeen PROVE Spec => []StatusMatchesRun
  OBVIOUS
<1>1. IInv => StatusMatchesRun
  BY DEF IInv, RunInv, Executed, StatusMatchesRun
<1>2. QED
  BY <1>1, Invariance, PTL

\* Whatever fails, and whoever else writes reports, a verdict is read from
\* files, and from files of its own run: never from those of another run or of
\* an earlier delivery, and never from those of a checkout if the report is a
\* file in /out.
THEOREM VerdictsAreOwn == Spec => []VerdictFromOwnFiles
<1>1. IInv => VerdictFromOwnFiles
  BY DEF IInv, RunInv, Judged, VerdictFromOwnFiles
<1>2. QED
  BY <1>1, Invariance, PTL

\* As long as cgroups can be killed and drained, with isolation the reports are
\* read when nothing of the run is alive.
THEOREM ReportsAreAtRest == CgroupsEmpty => (Spec => []ReportsAtRest)
<1> SUFFICES ASSUME CgroupsEmpty PROVE Spec => []ReportsAtRest
  OBVIOUS
<1>1. IInv => ReportsAtRest
  BY DEF IInv, RunInv, Housed, ReportsAtRest
<1>2. QED
  BY <1>1, Invariance, PTL
=============================================================================
