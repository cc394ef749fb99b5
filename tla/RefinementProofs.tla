--------------------------- MODULE RefinementProofs ---------------------------
(***************************************************************************)
(* Sandbox implements the stage of GradeTask: every step of the worker,    *)
(* the forked processes and the kernel is one step of grade_task's view of *)
(* the stage, or none, for the install stage and for the test stage.       *)
(***************************************************************************)
EXTENDS SandboxProofs

-----------------------------------------------------------------------------
(* What the mapping needs to know of a stage, beyond Inv and Closed.       *)

\* The worker has an outcome of the child it waited for.
Settled ==
  worker \in {"outcome", "drop", "drain", "done"} /\ result # "internal"

\* The setup is over when spawn returns, and by then the child is one that
\* GradeTask sees.
Spawned ==
  /\ \A p \in Procs : Setting(p) => worker = "spawn"
  /\ worker = "spawn" => at[Child] # "none"
  /\ at["reaper"] = "reap" => at["command"] # "none"
  /\ worker = "spawn" /\ at["command"] = "dying" => end["reaper"] = "oom"
  /\ worker \in {"wait", "killed"} \/ Settled => Launched
  /\ worker # "dead" =>
       \A p \in {"reaper", "command"} : at[p] = "over" => end[p] # "none"
  /\ ~ran => at["helper"] = "none"
  /\ ran => end["command"] \notin {"noexec", "setup"}
  /\ ~isolated => at["command"] \notin DOMAIN NextStep \cup {"fork"}

\* Nothing but the time limit, or an error of wait(), kills the child, and the
\* time limit leaves nothing of the cgroup running.
Timed ==
  /\ worker \in Early \cup {"spawn", "wait"} => ~timedOut
  /\ worker = "killed" => timedOut
  /\ timedOut => \A p \in (IF isolated THEN Procs ELSE {"command"}) :
       at[p] \in {"none", "dying", "over"}
  /\ at[Child] = "dying" \/ end[Child] = "signal" =>
       timedOut \/ result = "internal"
  /\ Settled => result = IF timedOut THEN "signal" ELSE end[Child]

\* The OOM count is that of the three processes, and does not change after
\* the worker has read it, or has failed to.
Counted ==
  /\ oom => isolated /\ \E p \in Procs : end[p] = "oom"
  /\ worker \in {"drop", "drain", "done"} /\ result # "internal" =>
       oomKilled = oom \/ unread
  /\ unread => /\ isolated /\ "events" \in Failures /\ oomKilled = FALSE
               /\ worker \in {"drop", "drain", "done", "dead"}

\* The helper does not outlive the pid namespace's init, nor a reaper that
\* the OOM killer has not taken.
Reaped ==
  /\ isolated /\ worker # "dead" /\ at["command"] = "over" =>
       at["helper"] \in {"none", "over"}
  /\ isolated /\ worker # "dead" /\ result # "internal"
       /\ end["reaper"] \notin {"none", "oom"} =>
     at["helper"] # "run"
  /\ result = "internal" /\ ~isolated => worker = "done"

IInv == Inv /\ Closed /\ Spawned /\ Timed /\ Counted /\ Reaped

\* The parts of IInv that a step is shown to keep here.
Kept == Spawned' /\ Timed' /\ Counted' /\ Reaped'

\* Before the stage begins there is nothing to know.
LEMMA InitIInv == Init => IInv
<1> SUFFICES ASSUME Init PROVE IInv
  OBVIOUS
<1>1. Inv
  BY InitInv
<1>2. Closed
  BY DEF Init, Closed
<1>3. Spawned /\ Timed /\ Counted /\ Reaped
  BY DEF Init, Spawned, Timed, Counted, Reaped, Settled, Procs, Child, Setting,
     NextStep
<1>4. QED
  BY <1>1, <1>2, <1>3 DEF IInv

\* Every step of Next keeps them: setup steps happen before spawn returns,
\* kills after, and a process that has ended changes nothing any more.
LEMMA KeptStep ==
  ASSUME Container, "kill" \notin Failures, IInv, Next
  PROVE  Kept
<1> USE DEF IInv, Inv, Kept, Settled, control, outcome, WorkerTo, Alive, Child,
        NextStep, Procs, Early, Launched, Setting
<1>0. TypeOK /\ Forks /\ Waited /\ Closed /\ Joined /\ Orphans
  OBVIOUS
<1> USE <1>0 DEF TypeOK, Forks, ReaperSteps, CommandSteps, HelperSteps
<1>1. CASE GlobalInit
  BY <1>1 DEF GlobalInit, processes, Spawned, Timed, Counted, Reaped
<1>2. CASE CreateGuard
  <2>1. Spawned'
    BY <1>2 DEF CreateGuard, Internal, processes, Spawned
  <2>2. Timed'
    BY <1>2 DEF CreateGuard, Internal, processes, Timed
  <2>3. Counted'
    BY <1>2 DEF CreateGuard, Internal, processes, Counted
  <2>4. Reaped'
    BY <1>2 DEF CreateGuard, processes, Reaped, Closed
  <2>5. QED
    BY <2>1, <2>2, <2>3, <2>4
<1>3. CASE Prepare
  <2>1. Spawned'
    BY <1>3 DEF Prepare, Internal, FirstStep, Spawned
  <2>2. Timed'
    BY <1>3 DEF Prepare, Internal, FirstStep, Timed
  <2>3. Counted'
    BY <1>3 DEF Prepare, Internal, Counted
  <2>4. Reaped'
    BY <1>3 DEF Prepare, Internal, Reaped, Closed
  <2>5. QED
    BY <2>1, <2>2, <2>3, <2>4
<1>4. CASE SpawnReturns
  <2>1. Spawned'
    <3>1. worker = "spawn" /\ ~PipeOpen /\ UNCHANGED processes
      BY <1>4 DEF SpawnReturns
    <3>2. CASE end["command"] = "noexec"
      BY <1>4, <3>1, <3>2 DEF SpawnReturns, Internal, processes, Spawned
    <3>3. CASE end["command"] # "noexec"
      <4>1. at["command"] \in {"run", "dying"} => ran
        BY <3>1 DEF PipeOpen, Codes
      <4>2. at["command"] = "over" => end["command"] \notin {"none", "noexec"}
        BY <3>1, <3>3 DEF Spawned
      <4>3. at["reaper"] = "over" => end["reaper"] # "none"
        BY <3>1 DEF Spawned
      <4>4. at["command"] \in {"none", "run", "dying", "over"}
        BY <3>1 DEF PipeOpen
      <4>5. at["command"] = "none" => at["reaper"] = "over"
        BY <3>1 DEF PipeOpen, Spawned, Timed, Waited
      <4>6. Launched
        BY <4>1, <4>2, <4>3, <4>4, <4>5
      <4>7. worker' = "wait" /\ UNCHANGED <<isolated, ran, at, end>>
        BY <1>4, <3>1, <3>3 DEF SpawnReturns, processes
      <4>8. QED
        BY <3>1, <4>6, <4>7 DEF Spawned, PipeOpen
    <3>4. QED
      BY <3>2, <3>3
  <2>2. Timed'
    BY <1>4 DEF SpawnReturns, Internal, processes, Timed
  <2>3. Counted'
    BY <1>4 DEF SpawnReturns, Internal, processes, Counted
  <2>4. Reaped'
    BY <1>4 DEF SpawnReturns, Internal, processes, Reaped, Closed
  <2>5. QED
    BY <2>1, <2>2, <2>3, <2>4
<1>5. CASE WaitDone
  <2>1. Spawned'
    BY <1>5 DEF WaitDone, processes, Spawned
  <2>2. Timed'
    <3>1. worker = "wait" /\ result = "none" /\ ~timedOut
      BY <1>5 DEF WaitDone, Waited, Timed
    <3>2. end[Child] # "signal" /\ at[Child] = "over"
      BY <1>5, <3>1 DEF WaitDone, Timed
    <3>3. worker' = "outcome" /\ result' = end[Child]
      BY <1>5 DEF WaitDone
    <3>4. UNCHANGED <<isolated, at, end, timedOut>>
      BY <1>5 DEF WaitDone, processes
    <3>5. QED
      BY <3>1, <3>2, <3>3, <3>4 DEF Timed
  <2>3. Counted'
    BY <1>5 DEF WaitDone, processes, Counted
  <2>4. Reaped'
    BY <1>5 DEF WaitDone, processes, Ends, Reaped, Waited
  <2>5. QED
    BY <2>1, <2>2, <2>3, <2>4
<1>6. CASE WaitFails
  BY <1>6 DEF WaitFails, Internal, Kill, Spawned, Timed, Counted, Reaped,
     Closed
<1>7. CASE KilledExits
  BY <1>7 DEF KilledExits, processes, Spawned, Timed, Counted, Reaped
<1>8. CASE ReadOutcome
  BY <1>8 DEF ReadOutcome, processes, Spawned, Timed, Counted, Reaped
<1>9. CASE DropKill
  BY <1>9 DEF DropKill, KillAll, Kill, Spawned, Timed, Counted, Reaped, Waited
<1>10. CASE DropDrain
  BY <1>10 DEF DropDrain, processes, Spawned, Timed, Counted, Reaped
<1>11. CASE TimeLimit
  BY <1>11 DEF TimeLimit, KillAll, KillSession, Kill, Spawned, Timed, Counted,
     Reaped, Joined
<1>12. CASE Fork
  BY <1>12 DEF Fork, Spawned, Timed, Counted, Reaped
<1>13. CASE Exec
  <2>1. Spawned'
    BY <1>13 DEF Exec, Ended, Closed, Unstarted, Spawned
  <2>2. Timed'
    BY <1>13 DEF Exec, Ended, Spawned, Timed
  <2>3. Counted'
    BY <1>13 DEF Exec, Ended, Counted
  <2>4. Reaped'
    BY <1>13 DEF Exec, Ended, Reaped
  <2>5. QED
    BY <2>1, <2>2, <2>3, <2>4
<1>14. CASE Reap
  <2>1. Spawned'
    BY <1>14 DEF Reap, Ended, ReaperCode, Spawned
  <2>2. Timed'
    BY <1>14 DEF Reap, Ended, ReaperCode, Timed, Waited
  <2>3. Counted'
    BY <1>14 DEF Reap, Ended, Counted
  <2>4. Reaped'
    BY <1>14 DEF Reap, Ended, Reaped
  <2>5. QED
    BY <2>1, <2>2, <2>3, <2>4
<1>15. CASE StartHelper
  <2>1. Spawned'
    BY <1>15 DEF StartHelper, Spawned, Codes
  <2>2. Timed'
    BY <1>15 DEF StartHelper, Timed
  <2>3. Counted'
    BY <1>15 DEF StartHelper, Counted
  <2>4. Reaped'
    BY <1>15 DEF StartHelper, Reaped, Orphans
  <2>5. QED
    BY <2>1, <2>2, <2>3, <2>4
<1>16. CASE CommandExits
  <2>1. Spawned'
    BY <1>16 DEF CommandExits, Ended, Spawned
  <2>2. Timed'
    BY <1>16 DEF CommandExits, Ended, Timed, Waited
  <2>3. Counted'
    BY <1>16 DEF CommandExits, Ended, Counted
  <2>4. Reaped'
    BY <1>16 DEF CommandExits, Ended, Reaped
  <2>5. QED
    BY <2>1, <2>2, <2>3, <2>4
<1>17. CASE Crash
  BY <1>17 DEF Crash, Spawned, Timed, Counted, Reaped
<1>18. ASSUME NEW p \in Procs, SetupStep(p) PROVE Kept
  BY <1>18 DEF SetupStep, Spawned, Timed, Counted, Reaped
<1>19. ASSUME NEW p \in Procs, SetupFails(p) PROVE Kept
  <2>1. Spawned'
    BY <1>19 DEF SetupFails, Ended, Closed, Unstarted, Spawned
  <2>2. Timed'
    BY <1>19 DEF SetupFails, Ended, Spawned, Timed
  <2>3. Counted'
    BY <1>19 DEF SetupFails, Ended, Counted
  <2>4. Reaped'
    BY <1>19 DEF SetupFails, Ended, Reaped
  <2>5. QED
    BY <2>1, <2>2, <2>3, <2>4
<1>20. ASSUME NEW p \in Procs, Die(p) PROVE Kept
  <2>1. Spawned'
    BY <1>20 DEF Die, Ended, Spawned, Timed, Waited
  <2>2. Timed'
    BY <1>20 DEF Die, Ended, Timed
  <2>3. Counted'
    BY <1>20 DEF Die, Ended, Counted
  <2>4. Reaped'
    BY <1>20 DEF Die, Ended, Timed, Reaped
  <2>5. QED
    BY <2>1, <2>2, <2>3, <2>4
<1>21. ASSUME NEW p \in Procs, OomKill(p) PROVE Kept
  <2>1. Spawned'
    BY <1>21 DEF OomKill, Ended, Spawned
  <2>2. Timed'
    BY <1>21 DEF OomKill, Ended, Timed, Waited
  <2>3. Counted'
    BY <1>21 DEF OomKill, Ended, Spawned, Counted, Reaped, Waited, Orphans
  <2>4. Reaped'
    BY <1>21 DEF OomKill, Ended, Reaped
  <2>5. QED
    BY <2>1, <2>2, <2>3, <2>4
<1>22. QED
  BY <1>1, <1>2, <1>3, <1>4, <1>5, <1>6, <1>7, <1>8, <1>9, <1>10, <1>11,
     <1>12, <1>13, <1>14, <1>15, <1>16, <1>17, <1>18, <1>19, <1>20, <1>21
  DEF Next, Worker, Forked

-----------------------------------------------------------------------------
(* Steps of GradeTask, in terms of what it sees of a stage.                *)

\* The stages of grade_task that run_sandboxed runs.
TwoStages == {"install", "test"}

\* The variables of GradeTask that a stage cannot touch are as they were.
Frame == isolated' = isolated /\ (worker' = "dead" <=> worker = "dead")

\* grade_task sees nothing of the step.
Unmoved(s) ==
  /\ Frame
  /\ UNCHANGED <<StepSeen(s), ResponseSeen(s), CgroupsSeen(s), AliveSeen,
                 ChildSeen, timedOut, OomSeen, RanSeen(s), OursSeen>>

\* Then no variable of GradeTask changes.
LEMMA Stutters ==
  ASSUME NEW s \in TwoStages, Unmoved(s)
  PROVE  UNCHANGED Caller(s)!vars
BY DEF Unmoved, Frame, Caller!vars, Of

\* The actions of GradeTask that a stage can take part in are steps of it.
LEMMA Pipes ==
  ASSUME NEW s \in TwoStages,
         \/ Caller(s)!Launch("run")
         \/ Caller(s)!FinishStage("run")
         \/ Caller(s)!WaitFails("run")
         \/ Caller(s)!TimeLimit("run")
         \/ Caller(s)!ChildExits("run")
         \/ Caller(s)!OomKill("run")
         \/ Caller(s)!StragglersEnd("run")
         \/ Caller(s)!Crash
  PROVE  Caller(s)!Next
BY DEF Caller!Next, Caller!Pipeline, Caller!Environment

\* Processes end that are not the child.
Straggle(s) ==
  /\ Frame
  /\ ChildSeen # "running" /\ AliveSeen' \subseteq AliveSeen
  /\ UNCHANGED <<StepSeen(s), ResponseSeen(s), CgroupsSeen(s),
                 ChildSeen, timedOut, OomSeen, RanSeen(s), OursSeen>>

\* A process that ends besides the child is a StragglersEnd.
LEMMA Straggles ==
  ASSUME NEW s \in TwoStages, Straggle(s)
  PROVE  Caller(s)!StragglersEnd("run")
BY DEF Straggle, Frame, Caller!StragglersEnd, Caller!machine, Caller!history,
   Of

\* The child of the stage is not there yet.
Launching(s) ==
  /\ Frame /\ worker # "dead"
  /\ StepSeen(s) = s
  /\ ChildSeen = "unstarted"
  /\ timedOut' = FALSE

\* An error of the worker's own before there is a child.
Refuse(s) ==
  /\ Launching(s)
  /\ OursSeen'
  /\ ResponseSeen(s)' = [status |-> "internal_error", stage |-> s]
  /\ StepSeen(s)' = "drop"
  /\ UNCHANGED <<CgroupsSeen(s), AliveSeen, ChildSeen, RanSeen(s), OomSeen>>

\* Such an error is the first disjunct of Launch.
LEMMA Refuses ==
  ASSUME NEW s \in TwoStages, Refuse(s)
  PROVE  Caller(s)!Launch("run")
<1>1. Caller(s)!FailInternal("run", "cgroup")
  BY DEF TwoStages, Refuse, Launching, Caller!FailInternal, Caller!Ours,
     Caller!Respond, Caller!Goto, Caller!StageOf, Of
<1>2. QED
  BY <1>1 DEF TwoStages, Refuse, Launching, Frame, Caller!Launch,
     Caller!machine, Of

\* spawn has started a child that ends before exec.
Start(s) ==
  /\ Launching(s) /\ isolated
  /\ \/ ChildSeen' = "setup" /\ OursSeen' = TRUE
        /\ UNCHANGED OomSeen
     \/ /\ ChildSeen' \in {"setup", "signal"} /\ OomSeen' = TRUE
        /\ OursSeen' = TRUE \/ UNCHANGED OursSeen
  /\ CgroupsSeen(s)' = CgroupsSeen(s) \cup {<<"run", s>>}
  /\ UNCHANGED <<StepSeen(s), ResponseSeen(s), AliveSeen, RanSeen(s)>>

\* A child that ends before exec is the second disjunct of Launch.
LEMMA Starts ==
  ASSUME NEW s \in TwoStages, Start(s)
  PROVE  Caller(s)!Launch("run")
BY DEF TwoStages, Start, Launching, Frame, Caller!Launch, Caller!Ours,
   Caller!machine, Caller!RunId, Of

\* The command is executed.
Run(s) ==
  /\ Launching(s)
  /\ \/ ChildSeen' = "running" /\ UNCHANGED OomSeen
     \/ isolated /\ ChildSeen' = "signal" /\ OomSeen' = TRUE
  /\ CgroupsSeen(s)' = IF isolated THEN CgroupsSeen(s) \cup {<<"run", s>>}
                       ELSE CgroupsSeen(s)
  /\ AliveSeen' = AliveSeen \cup {"main", "helper"}
  /\ RanSeen(s)' = RanSeen(s) \cup {s}
  /\ UNCHANGED <<StepSeen(s), ResponseSeen(s), OursSeen>>

\* An exec is the third disjunct of Launch.
LEMMA Runs ==
  ASSUME NEW s \in TwoStages, Run(s)
  PROVE  Caller(s)!Launch("run")
BY DEF TwoStages, Run, Launching, Frame, Caller!Launch, Caller!machine,
   Caller!RunId, Of

\* A child is going on.
Going(s) ==
  /\ Frame /\ worker # "dead"
  /\ UNCHANGED <<StepSeen(s), ResponseSeen(s), CgroupsSeen(s), RanSeen(s),
                 OursSeen>>

\* What may be left of the processes (Survivors of GradeTask).
Left == IF isolated THEN {{}} ELSE SUBSET {"helper"}

\* The child exits by itself.
Exit(s) ==
  /\ Going(s)
  /\ ChildSeen = "running"
  /\ ChildSeen' \in {"ok", "nonzero"}
  /\ \E left \in Left : AliveSeen' = AliveSeen \cap left
  /\ UNCHANGED <<timedOut, OomSeen>>

\* An exit of the child is a ChildExits.
LEMMA Exits ==
  ASSUME NEW s \in TwoStages, Exit(s)
  PROVE  Caller(s)!ChildExits("run")
BY DEF Left, Exit, Going, Frame, Caller!ChildExits, Caller!Survivors,
   Caller!machine, Caller!history, Of

\* The OOM killer takes the child, or something else of the stage.
Oom(s) ==
  /\ Going(s) /\ isolated
  /\ OomSeen' = TRUE
  /\ \/ ChildSeen = "running" /\ UNCHANGED <<ChildSeen, AliveSeen>>
     \/ /\ ChildSeen \in {"running", "setup"}
        /\ ChildSeen' = "signal"
        /\ AliveSeen' \subseteq AliveSeen
  /\ AliveSeen \subseteq {"main", "helper"}
  /\ UNCHANGED timedOut

\* An OOM kill that the cgroup counts is an OomKill.
LEMMA Ooms ==
  ASSUME NEW s \in TwoStages, Oom(s)
  PROVE  Caller(s)!OomKill("run")
<1> USE DEF Oom, Going, Frame, Of, Caller!machine, Caller!history
<1>1. CASE ChildSeen = "running" /\ UNCHANGED <<ChildSeen, AliveSeen>>
  <2>1. AliveSeen' = AliveSeen \cap ({"main"} \cup {"helper"})
    BY <1>1
  <2>2. Of(AliveSeen)' = [Of(AliveSeen) EXCEPT !["run"] =
                            @ \cap ({"main"} \cup {"helper"})]
    BY <2>1
  <2>3. {"helper"} \in SUBSET {"helper"}
    OBVIOUS
  <2>4. QED
    BY <1>1, <2>2, <2>3 DEF Caller!OomKill
<1>2. CASE /\ ChildSeen \in {"running", "setup"}
           /\ ChildSeen' = "signal"
           /\ AliveSeen' \subseteq AliveSeen
  <2>1. AliveSeen' \in SUBSET {"main", "helper"}
    BY <1>2
  <2>2. Of(AliveSeen)' = [Of(AliveSeen) EXCEPT !["run"] = @ \cap AliveSeen']
    BY <1>2
  <2>3. QED
    BY <1>2, <2>1, <2>2 DEF Caller!OomKill
<1>3. QED
  BY <1>1, <1>2

\* The time limit fires.
Limit(s) ==
  /\ Going(s)
  /\ StepSeen(s) = s
  /\ ChildSeen # "unstarted"
  /\ timedOut = FALSE /\ timedOut' = TRUE
  /\ ChildSeen' = IF ChildSeen = "running" THEN "signal" ELSE ChildSeen
  /\ \E left \in Left : AliveSeen' = AliveSeen \cap left
  /\ UNCHANGED OomSeen

\* A time limit that kills all it can reach is a TimeLimit.
LEMMA Limits ==
  ASSUME NEW s \in TwoStages, Limit(s)
  PROVE  Caller(s)!TimeLimit("run")
BY DEF TwoStages, Left, Limit, Going, Frame, Caller!TimeLimit,
   Caller!Survivors, Caller!machine, Caller!history, Of

\* The outcome of a child that has ended reaches grade_task, with the OOM kills
\* if they can be read.
Finish(s, killed) ==
  /\ Frame /\ worker # "dead"
  /\ StepSeen(s) = s
  /\ ChildSeen \notin {"unstarted", "running"}
  /\ IF isolated THEN /\ AliveSeen' = {}
                      /\ CgroupsSeen(s)' = CgroupsSeen(s) \ {<<"run", s>>}
                 ELSE UNCHANGED <<AliveSeen, CgroupsSeen(s)>>
  /\ ChildSeen' = "unstarted"
  /\ OomSeen' = FALSE
  /\ UNCHANGED <<timedOut, RanSeen(s)>>
  /\ \/ killed = OomSeen /\ UNCHANGED OursSeen
     \/ isolated /\ "events" \in Failures /\ ~killed /\ OursSeen'

\* StagePassed and StageError of GradeTask.
Passes(s, killed) ==
  /\ ~timedOut /\ ~killed
  /\ s = "install" => ChildSeen = "ok"

Error(s, killed) ==
  CASE timedOut -> "timeout"
    [] ~timedOut /\ killed -> "memory_limit_exceeded"
    [] ~timedOut /\ ~killed /\ ChildSeen = "signal" -> "run_failed"
    [] OTHER -> IF s = "install" THEN "install_failed" ELSE "run_failed"

\* grade_task goes on with the outcome,
Pass(s, killed) ==
  /\ Finish(s, killed)
  /\ Passes(s, killed)
  /\ StepSeen(s)' = IF s = "install" THEN "test" ELSE "report"
  /\ UNCHANGED ResponseSeen(s)

\* or answers it.
Fail(s, killed) ==
  /\ Finish(s, killed)
  /\ ~Passes(s, killed)
  /\ StepSeen(s)' = "drop"
  /\ ResponseSeen(s)' = [status |-> Error(s, killed), stage |-> s]

\* Either is a FinishStage that tears the stage down.
LEMMA Finishes ==
  ASSUME NEW s \in TwoStages, NEW killed \in BOOLEAN,
         Pass(s, killed) \/ Fail(s, killed)
  PROVE  Caller(s)!FinishStage("run")
<1> USE DEF TwoStages, Finish, Frame, Of
<1>1. Caller(s)!WasOomKilled("run", killed)
  BY DEF Pass, Fail, Caller!WasOomKilled, Caller!Ours
<1>2. CASE Pass(s, killed)
  BY <1>1, <1>2 DEF Pass, Passes, Caller!FinishStage, Caller!DropCgroup,
     Caller!Exited, Caller!StagePassed, Caller!Succeeded, Caller!Goto,
     Caller!RunId, Caller!machine
<1>3. CASE Fail(s, killed)
  <2>1. Caller(s)!Respond("run", Caller(s)!StageError("run", killed))
    BY <1>3 DEF Fail, Error, Caller!Respond, Caller!StageError, Caller!StageOf,
       Caller!Goto
  <2>2. QED
    BY <1>1, <1>3, <2>1 DEF Fail, Passes, Caller!FinishStage,
       Caller!DropCgroup, Caller!Exited, Caller!StagePassed, Caller!Succeeded,
       Caller!RunId, Caller!machine
<1>4. QED
  BY <1>2, <1>3

\* wait() fails.
GiveUp(s) ==
  /\ Frame /\ worker # "dead"
  /\ StepSeen(s) = s
  /\ ChildSeen # "unstarted"
  /\ timedOut = FALSE
  /\ OursSeen'
  /\ ResponseSeen(s)' = [status |-> "internal_error", stage |-> s]
  /\ StepSeen(s)' = "drop"
  /\ IF isolated THEN /\ AliveSeen' = {}
                      /\ CgroupsSeen(s)' = CgroupsSeen(s) \ {<<"run", s>>}
                 ELSE /\ \E left \in Left : AliveSeen' = AliveSeen \cap left
                      /\ UNCHANGED CgroupsSeen(s)
  /\ ChildSeen' = "unstarted"
  /\ OomSeen' = FALSE
  /\ UNCHANGED <<timedOut, RanSeen(s)>>

\* An error of wait() is a WaitFails.
LEMMA GivesUp ==
  ASSUME NEW s \in TwoStages, GiveUp(s)
  PROVE  Caller(s)!WaitFails("run")
<1> USE DEF TwoStages, GiveUp, Frame, Of
<1>1. Caller(s)!FailInternal("run", "wait")
  BY DEF Caller!FailInternal, Caller!Ours, Caller!Respond, Caller!Goto,
     Caller!StageOf
<1>2. QED
  BY <1>1 DEF Left, Caller!WaitFails, Caller!DropCgroup, Caller!Survivors,
     Caller!RunId, Caller!machine

\* The worker dies, and its container with it.
Vanish(s) ==
  /\ isolated' = isolated
  /\ worker # "dead" /\ worker' = "dead"
  /\ StepSeen(s) \notin {"new", "done"}
  /\ StepSeen(s)' = "lost"
  /\ AliveSeen' = {}
  /\ UNCHANGED <<ResponseSeen(s), CgroupsSeen(s), ChildSeen, timedOut, OomSeen,
                 RanSeen(s), OursSeen>>

\* The death of the worker is a Crash.
LEMMA Vanishes ==
  ASSUME NEW s \in TwoStages, Vanish(s)
  PROVE  Caller(s)!Crash
BY DEF Vanish, Caller!Crash, Caller!history, Of

-----------------------------------------------------------------------------
(* Steps of Sandbox, as grade_task sees them.                              *)

\* The response before there is one.
NoAnswer == [status |-> "none", stage |-> "clone"]

\* What grade_task sees of a stage that has started no child.
LEMMA NotYet ==
  ASSUME NEW s \in TwoStages, worker # "dead", ~Over, ~Launched
  PROVE  /\ StepSeen(s) = s
         /\ ResponseSeen(s) = NoAnswer
         /\ CgroupsSeen(s) = {}
         /\ ChildSeen = "unstarted"
         /\ OomSeen = FALSE
BY DEF StepSeen, ResponseSeen, CgroupsSeen, ChildSeen, OomSeen, NoAnswer

\* What it sees after an error.
LEMMA Erred ==
  ASSUME NEW s \in TwoStages, worker' # "dead", result' = "internal"
  PROVE  /\ StepSeen(s)' = "drop"
         /\ ResponseSeen(s)' = [status |-> "internal_error", stage |-> s]
         /\ CgroupsSeen(s)' = {}
         /\ ChildSeen' = "unstarted"
         /\ OomSeen' = FALSE
         /\ OursSeen' = TRUE
<1>1. Over' /\ StatusSeen(s)' = "internal_error"
  BY DEF Over, StatusSeen
<1>2. QED
  BY <1>1 DEF StepSeen, ResponseSeen, CgroupsSeen, ChildSeen, OomSeen, OursSeen

\* An error before there is a child.
LEMMA Refused ==
  ASSUME NEW s \in TwoStages, worker # "dead", worker' # "dead",
         ~Over, ~Launched, result' = "internal",
         isolated' = isolated, ran' = ran, timedOut' = FALSE,
         at["command"] # "run", at["helper"] = "none",
         at'["command"] # "run", at'["helper"] = "none"
  PROVE  Refuse(s)
<1>1. AliveSeen = {} /\ AliveSeen' = {}
  BY NotYet, Erred DEF AliveSeen, HelperSeen
<1>2. UNCHANGED RanSeen(s)
  BY DEF RanSeen
<1>3. Frame /\ Launching(s)
  BY NotYet DEF Frame, Launching
<1>4. QED
  BY <1>1, <1>2, <1>3, NotYet, Erred DEF Refuse

\* What it sees of a child.
LEMMA Seen ==
  ASSUME NEW s \in TwoStages, worker # "dead", ~Over, Launched, oom \in BOOLEAN
  PROVE  /\ StepSeen(s) = s
         /\ ResponseSeen(s) = NoAnswer
         /\ CgroupsSeen(s) = IF cgroup THEN {<<"run", s>>} ELSE {}
         /\ OomSeen = oom
         /\ ChildSeen = IF end["reaper"] = "oom" THEN "signal"
                        ELSE IF ~ran THEN "setup"
                        ELSE IF end[Child] # "none" THEN end[Child]
                        ELSE IF timedOut THEN "signal" ELSE "running"
BY DEF StepSeen, ResponseSeen, NoAnswer, CgroupsSeen, OomSeen, ChildSeen

\* What it sees of a child after a step.
LEMMA SeenNext ==
  ASSUME NEW s \in TwoStages, worker' # "dead", ~Over', Launched',
         oom' \in BOOLEAN
  PROVE  /\ StepSeen(s)' = s
         /\ ResponseSeen(s)' = NoAnswer
         /\ CgroupsSeen(s)' = IF cgroup' THEN {<<"run", s>>} ELSE {}
         /\ OomSeen' = oom'
         /\ ChildSeen' = IF end'["reaper"] = "oom" THEN "signal"
                        ELSE IF ~ran' THEN "setup"
                        ELSE IF end'[Child'] # "none" THEN end'[Child']
                        ELSE IF timedOut' THEN "signal" ELSE "running"
BY DEF StepSeen, ResponseSeen, NoAnswer, CgroupsSeen, OomSeen, ChildSeen

\* No process comes to life.
Shrinks ==
  /\ at'["command"] = "run" => at["command"] = "run"
  /\ HelperSeen' => HelperSeen

\* Then nothing comes to life for grade_task, unless its child is started.
LEMMA Dwindles ==
  ASSUME Frame, worker # "dead", Over' <=> Over, ChildSeen' # "running", Shrinks
  PROVE  AliveSeen' \subseteq AliveSeen
BY DEF Frame, Shrinks, AliveSeen

\* The processes grade_task can see.
LEMMA Lives ==
  AliveSeen \subseteq {"main", "helper"}
BY DEF AliveSeen

\* Without isolation, the end of the command leaves at most its helper.
LEMMA Leaves ==
  ASSUME Frame, worker # "dead", ~isolated, ChildSeen' # "running",
         at'["command"] # "run", at'["helper"] = "run" => at["helper"] = "run"
  PROVE  \E left \in Left : AliveSeen' = AliveSeen \cap left
<1> DEFINE left == IF at'["helper"] = "run" THEN {"helper"} ELSE {}
<1>1. left \in Left
  BY DEF Left
<1>2. AliveSeen' = AliveSeen \cap left
  BY DEF Frame, AliveSeen, HelperSeen
<1>3. QED
  BY <1>1, <1>2

\* grade_task goes on with the outcome, or answers it.
LEMMA Finished ==
  ASSUME NEW s \in TwoStages, IInv, worker \in {"outcome", "drain"},
         worker' = "done", result # "internal",
         oomKilled' = oom \/ unread',
         unread' => isolated /\ "events" \in Failures /\ oomKilled' = FALSE,
         UNCHANGED <<isolated, at, end, ran, timedOut, result, oom>>
  PROVE  \E killed \in BOOLEAN : Pass(s, killed) \/ Fail(s, killed)
<1> DEFINE killed == oomKilled'
<1>1. /\ Launched /\ ~Over /\ Over' /\ Frame /\ worker # "dead"
      /\ end[Child] \notin {"none", "unstarted", "running"}
  BY DEF IInv, Inv, Spawned, Settled, Over, Frame, Waited, TypeOK, Ends, Child,
     Procs
<1>2. /\ oom \in BOOLEAN /\ timedOut \in BOOLEAN
      /\ timedOut => result = "signal"
      /\ ~timedOut => result = end[Child] /\ result # "signal"
      /\ "oom" \in {end["reaper"], end["command"]} => oom
      /\ end[Child] = "ok" => ran /\ end["reaper"] # "oom"
  BY DEF IInv, Inv, Timed, Settled, Codes, TypeOK, Child, Forks, Procs
<1>3. cgroup <=> isolated
  BY DEF IInv, Inv, Guarded, Closed
<1>4. /\ ChildSeen \notin {"unstarted", "running"}
      /\ ChildSeen' = "unstarted" /\ OomSeen' = FALSE /\ OomSeen = oom
      /\ StepSeen(s) = s /\ ResponseSeen(s) = NoAnswer
  BY <1>1, <1>2, Seen DEF ChildSeen, OomSeen
<1>5. /\ UNCHANGED <<timedOut, RanSeen(s)>>
      /\ \/ killed = OomSeen /\ UNCHANGED OursSeen
         \/ isolated /\ "events" \in Failures /\ ~killed /\ OursSeen'
  BY <1>1, <1>4 DEF RanSeen, OursSeen
<1>6. IF isolated THEN /\ AliveSeen' = {}
                       /\ CgroupsSeen(s)' = CgroupsSeen(s) \ {<<"run", s>>}
                  ELSE UNCHANGED <<AliveSeen, CgroupsSeen(s)>>
  <2>1. CASE isolated
    BY <1>1, <1>3, <2>1 DEF AliveSeen, CgroupsSeen, ChildSeen
  <2>2. CASE ~isolated
    BY <1>1, <1>3, <1>4, <2>2 DEF AliveSeen, CgroupsSeen, HelperSeen
  <2>3. QED
    BY <2>1, <2>2
<1>7. Finish(s, killed)
  BY <1>1, <1>4, <1>5, <1>6 DEF Finish
<1>8. CASE Passes(s, killed)
  <2>1. s = "install" => result = "ok"
    BY <1>1, <1>2, <1>4, <1>8, Seen DEF Passes
  <2>2. StatusSeen(s)' = "passed"
    BY <1>2, <1>4, <1>8, <2>1 DEF Passes, StatusSeen, TwoStages
  <2>3. Pass(s, killed)
    BY <1>1, <1>4, <1>7, <1>8, <2>2 DEF Pass, StepSeen, ResponseSeen, NoAnswer
  <2>4. QED
    BY <1>2, <2>3
<1>9. CASE ~Passes(s, killed)
  <2>1. StatusSeen(s)' = Error(s, killed) /\ Error(s, killed) # "passed"
    <3>1. CASE timedOut \/ killed
      BY <1>2, <1>4, <3>1 DEF StatusSeen, Error
    <3>2. CASE ~timedOut /\ ~killed
      <4>1. s = "install" /\ ChildSeen # "ok"
        BY <1>2, <1>4, <1>9, <3>2 DEF Passes, TwoStages
      <4>2. /\ result # "ok"
            /\ result \in {"signal", "oom"} <=> ChildSeen = "signal"
        BY <1>1, <1>2, <3>2, <4>1, Seen DEF Child
      <4>3. QED
        BY <1>2, <1>4, <3>2, <4>1, <4>2 DEF StatusSeen, Error
    <3>3. QED
      BY <1>2, <3>1, <3>2
  <2>2. Fail(s, killed)
    BY <1>1, <1>4, <1>7, <1>9, <2>1 DEF Fail, StepSeen, ResponseSeen
  <2>3. QED
    BY <1>2, <2>2
<1>10. QED
  BY <1>8, <1>9

\* Every step of Sandbox is one of these steps, for both stages.
LEMMA Moves ==
  ASSUME Container, "kill" \notin Failures, IInv, IInv', Next,
         NEW s \in TwoStages
  PROVE  \/ Unmoved(s) \/ Straggle(s) \/ Refuse(s) \/ Start(s)
         \/ Run(s) \/ Exit(s) \/ Oom(s) \/ Limit(s)
         \/ \E killed \in BOOLEAN : Pass(s, killed) \/ Fail(s, killed)
         \/ GiveUp(s) \/ Vanish(s)
<1> USE DEF IInv, Inv, control, outcome, WorkerTo, Child, NextStep, Procs
<1>0. TypeOK /\ Forks
  OBVIOUS
<1> USE <1>0 DEF TypeOK, Forks
<1>1. CASE GlobalInit
  <2>1. Unmoved(s)
    BY <1>1 DEF Unmoved, Frame, GlobalInit, processes, StepSeen, ResponseSeen,
       CgroupsSeen, AliveSeen, ChildSeen, OomSeen, RanSeen, OursSeen, Over,
       Launched, HelperSeen, StatusSeen
  <2>2. QED
    BY <2>1
<1>2. CASE CreateGuard
  <2>0. /\ worker # "dead" /\ ~Over /\ ~Launched /\ ~ran /\ timedOut = FALSE
        /\ at["command"] = "none" /\ at["helper"] = "none"
        /\ UNCHANGED <<at, end, ran, isolated>>
    BY <1>2 DEF CreateGuard, processes, Over, Launched, Waited, Timed, Early,
       Closed, Unstarted
  <2>1. CASE result' = "internal"
    BY <1>2, <2>0, <2>1, Refused DEF CreateGuard, Internal
  <2>2. CASE result' # "internal"
    BY <1>2, <2>0, <2>2 DEF CreateGuard, Internal, Unmoved, Frame, StepSeen,
       ResponseSeen, CgroupsSeen, AliveSeen, ChildSeen, OomSeen, RanSeen,
       OursSeen, Over, Launched, HelperSeen
  <2>3. QED
    BY <2>1, <2>2
<1>3. CASE Prepare
  <2>0. /\ worker # "dead" /\ ~Over /\ ~Launched /\ ~ran /\ timedOut = FALSE
        /\ at["command"] = "none" /\ at["helper"] = "none"
        /\ UNCHANGED <<end, ran, isolated>>
    BY <1>3 DEF Prepare, Over, Launched, Waited, Timed, Early, Closed,
       Unstarted
  <2>1. CASE result' = "internal"
    BY <1>3, <2>0, <2>1, Refused DEF Prepare, Internal, Closed
  <2>2. CASE result' # "internal"
    <3>1. ~Over' /\ ~Launched' /\ UNCHANGED <<unread, timedOut, result>>
      BY <1>3, <2>0, <2>2 DEF Prepare, Internal, Over, Launched
    <3>2. QED
      BY <1>3, <2>0, <2>2, <3>1 DEF Prepare, Internal, Unmoved, Frame,
         StepSeen, ResponseSeen, CgroupsSeen, AliveSeen, ChildSeen, OomSeen,
         RanSeen, OursSeen, HelperSeen
  <2>3. QED
    BY <2>1, <2>2
<1>4. CASE SpawnReturns
  <2>0. /\ worker # "dead" /\ ~Over /\ timedOut = FALSE
        /\ UNCHANGED <<at, end, ran, isolated, timedOut>>
    BY <1>4 DEF SpawnReturns, Internal, processes, Over, Waited, Timed
  <2>1. CASE end["command"] = "noexec"
    <3>1. ~ran /\ at["command"] = "over" /\ at["helper"] = "none"
      BY <1>4, <2>1 DEF SpawnReturns, Spawned
    <3>2. ~Launched
      BY <2>1, <3>1 DEF Launched
    <3>3. result' = "internal" /\ worker' # "dead"
      BY <1>4, <2>1 DEF SpawnReturns, Internal
    <3>4. QED
      BY <2>0, <3>1, <3>2, <3>3, Refused
  <2>2. CASE end["command"] # "noexec"
    BY <1>4, <2>0, <2>2 DEF SpawnReturns, processes, Unmoved, Frame, StepSeen,
       ResponseSeen, CgroupsSeen, AliveSeen, ChildSeen, OomSeen, RanSeen,
       OursSeen, Over, Launched, HelperSeen
  <2>3. QED
    BY <2>1, <2>2
<1>5. CASE WaitDone
  <2>1. result' # "internal" /\ result = "none"
    BY <1>5 DEF WaitDone, Ends, Waited
  <2>2. QED
    BY <1>5, <2>1 DEF WaitDone, processes, Unmoved, Frame, StepSeen,
       ResponseSeen, CgroupsSeen, AliveSeen, ChildSeen, OomSeen, RanSeen,
       OursSeen, Over, Launched, HelperSeen
<1>6. CASE WaitFails
  <2>1. /\ worker = "wait" /\ worker' # "dead" /\ result' = "internal"
        /\ result = "none" /\ timedOut = FALSE
        /\ UNCHANGED <<isolated, ran, cgroup, end, oom, timedOut>>
        /\ Launched /\ Kill({Child})
    BY <1>6 DEF WaitFails, Internal, Waited, Timed, Spawned
  <2>2. ~Over
    BY <2>1 DEF Over
  <2>3. StepSeen(s) = s /\ ResponseSeen(s) = NoAnswer /\ ChildSeen # "unstarted"
    BY <2>1, <2>2, Seen DEF Ends
  <2>4. CgroupsSeen(s) = IF isolated THEN {<<"run", s>>} ELSE {}
    BY <2>1, <2>2 DEF CgroupsSeen, Guarded, Closed
  <2>5. IF isolated THEN AliveSeen' = {} 
        ELSE \E left \in Left : AliveSeen' = AliveSeen \cap left
    <3>1. CASE isolated
      BY <2>1, <3>1 DEF AliveSeen, ChildSeen, Over
    <3>2. CASE ~isolated
      <4>1. /\ at'["command"] # "run"
            /\ at'["helper"] = "run" => at["helper"] = "run"
        BY <2>1, <3>2 DEF Kill, Alive
      <4>2. QED
        BY <2>1, <3>2, <4>1, Leaves, Erred DEF Frame
    <3>3. QED
      BY <3>1, <3>2
  <2>6. UNCHANGED RanSeen(s)
    BY <2>1 DEF RanSeen
  <2>7. GiveUp(s)
    BY <2>1, <2>2, <2>3, <2>4, <2>5, <2>6, Erred DEF GiveUp, Frame
  <2>8. QED
    BY <2>7
<1>7. CASE KilledExits
  <2>1. result' # "internal" /\ result = "none"
    BY <1>7 DEF KilledExits, Waited
  <2>2. QED
    BY <1>7, <2>1 DEF KilledExits, processes, Unmoved, Frame, StepSeen,
       ResponseSeen, CgroupsSeen, AliveSeen, ChildSeen, OomSeen, RanSeen,
       OursSeen, Over, Launched, HelperSeen
<1>8. CASE ReadOutcome
  <2>1. /\ worker = "outcome" /\ result # "internal" /\ unread = FALSE
        /\ oomKilled' = oom \/ unread'
        /\ unread' => isolated /\ "events" \in Failures /\ oomKilled' = FALSE
        /\ UNCHANGED <<isolated, processes, timedOut, result, cgroup>>
    BY <1>8 DEF ReadOutcome, Closed, Counted
  <2>2. CASE isolated
    BY <1>8, <2>1, <2>2 DEF ReadOutcome, processes, Unmoved, Frame, StepSeen,
       ResponseSeen, CgroupsSeen, AliveSeen, ChildSeen, OomSeen, RanSeen,
       OursSeen, Over, Launched, HelperSeen
  <2>3. CASE ~isolated
    BY <1>8, <2>1, <2>3, Finished DEF ReadOutcome, processes
  <2>4. QED
    BY <2>2, <2>3
<1>9. CASE DropKill
  <2>1. /\ worker = "drop" /\ worker' = "drain" /\ isolated /\ Kill(members)
        /\ UNCHANGED <<isolated, cgroup, end, oom, ran, unread, timedOut,
                       oomKilled, result>>
    BY <1>9 DEF DropKill, KillAll, Closed
  <2>2. CASE result = "internal"
    BY <2>1, <2>2 DEF Unmoved, Frame, StepSeen, ResponseSeen, CgroupsSeen,
       AliveSeen, ChildSeen, OomSeen, RanSeen, OursSeen, Over, StatusSeen
  <2>3. CASE result # "internal"
    <3>1. ~Over /\ ~Over' /\ Launched /\ Frame
      BY <2>1, <2>3 DEF Over, Spawned, Settled, Frame
    <3>2. end[Child] # "none"
      BY <2>1, <2>3 DEF Spawned, Waited
    <3>3. Launched'
      BY <2>1, <3>1 DEF Launched, Kill, Alive
    <3>4. Shrinks
      BY <2>1 DEF Shrinks, HelperSeen, Kill, Alive
    <3>5. /\ ChildSeen # "running"
          /\ UNCHANGED <<StepSeen(s), ResponseSeen(s), CgroupsSeen(s),
                         ChildSeen, OomSeen>>
      BY <2>1, <3>1, <3>2, <3>3, Seen, SeenNext DEF Ends
    <3>6. UNCHANGED <<RanSeen(s), OursSeen>>
      BY <2>1 DEF RanSeen, OursSeen, Over
    <3>7. Straggle(s)
      BY <2>1, <3>1, <3>4, <3>5, <3>6, Dwindles DEF Straggle
    <3>8. QED
      BY <3>7
  <2>4. QED
    BY <2>2, <2>3
<1>10. CASE DropDrain
  <2>1. /\ worker = "drain" /\ worker' = "done" /\ isolated
        /\ UNCHANGED <<isolated, processes, unread, timedOut, oomKilled,
                       result>>
    BY <1>10 DEF DropDrain, Closed
  <2>2. CASE result = "internal"
    BY <2>1, <2>2 DEF processes, Unmoved, Frame, StepSeen, ResponseSeen,
       CgroupsSeen, AliveSeen, ChildSeen, OomSeen, RanSeen, OursSeen, Over,
       StatusSeen
  <2>3. CASE result # "internal"
    <3>1. /\ oomKilled = oom \/ unread
          /\ unread => isolated /\ "events" \in Failures /\ oomKilled = FALSE
      BY <2>1, <2>3 DEF Counted
    <3>2. QED
      BY <2>1, <2>3, <3>1, Finished DEF processes
  <2>4. QED
    BY <2>2, <2>3
<1>11. CASE TimeLimit
  <2>1. /\ worker = "wait" /\ worker' = "killed" /\ result = "none"
        /\ timedOut = FALSE /\ timedOut' = TRUE
        /\ UNCHANGED <<isolated, cgroup, members, end, oom, ran, unread,
                       oomKilled, result>>
        /\ Launched
        /\ IF isolated THEN Kill(members) ELSE KillSession
    BY <1>11 DEF TimeLimit, KillAll, Waited, Timed, Spawned
  <2>2. ~Over /\ ~Over' /\ Frame
    BY <2>1 DEF Over, Frame
  <2>3. Launched'
    BY <2>1 DEF Launched, Kill, KillSession, Alive
  <2>4. /\ StepSeen(s) = s
        /\ ChildSeen # "unstarted" /\ ChildSeen' # "running"
        /\ ChildSeen' = IF ChildSeen = "running" THEN "signal" ELSE ChildSeen
        /\ UNCHANGED <<StepSeen(s), ResponseSeen(s), CgroupsSeen(s), OomSeen>>
    BY <2>1, <2>2, <2>3, Seen, SeenNext DEF Ends
  <2>5. \E left \in Left : AliveSeen' = AliveSeen \cap left
    <3>1. CASE isolated
      <4>1. \A p \in Procs : at'[p] # "run"
        BY <2>1, <3>1 DEF Kill, Alive, Joined
      <4>2. AliveSeen' = {}
        BY <2>4, <4>1 DEF AliveSeen, HelperSeen
      <4>3. QED
        BY <3>1, <4>2 DEF Left
    <3>2. CASE ~isolated
      <4>1. /\ at'["command"] # "run"
            /\ at'["helper"] = "run" => at["helper"] = "run"
        BY <2>1, <3>2 DEF KillSession, Kill, Alive
      <4>2. QED
        BY <2>1, <2>2, <2>4, <3>2, <4>1, Leaves
    <3>3. QED
      BY <3>1, <3>2
  <2>6. UNCHANGED <<RanSeen(s), OursSeen>>
    BY <2>1 DEF RanSeen, OursSeen, Over
  <2>7. Limit(s)
    BY <2>1, <2>2, <2>4, <2>5, <2>6 DEF Limit, Going
  <2>8. QED
    BY <2>7
<1>12. CASE Fork
  <2>1. Unmoved(s)
    BY <1>12 DEF Fork, Unmoved, Frame, StepSeen, ResponseSeen, CgroupsSeen,
       AliveSeen, ChildSeen, OomSeen, RanSeen, OursSeen, Over, Launched,
       HelperSeen, StatusSeen
  <2>2. QED
    BY <2>1
<1>13. CASE Exec
  <2>1. /\ at["command"] = "exec" /\ worker = "spawn"
        /\ UNCHANGED <<isolated, worker, cgroup, oom, unread, timedOut,
                       oomKilled, result>>
    BY <1>13 DEF Exec, Spawned, Setting
  <2>2. /\ ~ran /\ result = "none" /\ timedOut = FALSE
        /\ at["helper"] = "none" /\ end["command"] = "none"
    BY <2>1 DEF Closed, Unstarted, Waited, Timed, Spawned
  <2>3. ~Over /\ ~Over' /\ Frame /\ ~Launched
    BY <2>1, <2>2 DEF Over, Frame, Launched
  <2>4. AliveSeen = {}
    BY <2>1, <2>2, <2>3, NotYet DEF AliveSeen, HelperSeen
  <2>5. CASE ran' = TRUE /\ at' = [at EXCEPT !["command"] = "run"] /\ end' = end
    <3>1. Launched' /\ at'["command"] = "run" /\ at'["helper"] = "none"
      BY <2>1, <2>2, <2>5 DEF Launched
    <3>2. end["reaper"] # "oom" => end[Child] = "none" /\ ~oom
      BY <2>1, <2>2 DEF Orphans, Counted
    <3>3. end["reaper"] = "oom" => isolated /\ oom = TRUE
      BY DEF Codes, Counted
    <3>4. \/ ChildSeen' = "running" /\ OomSeen' = FALSE
          \/ isolated /\ ChildSeen' = "signal" /\ OomSeen' = TRUE
      BY <2>1, <2>2, <2>3, <2>5, <3>1, <3>2, <3>3, SeenNext
    <3>5. AliveSeen' = {"main", "helper"}
      BY <2>1, <2>3, <3>1 DEF AliveSeen, HelperSeen
    <3>6. CgroupsSeen(s)' = IF isolated THEN {<<"run", s>>} ELSE {}
      BY <2>1, <2>3, <3>1, SeenNext DEF Guarded, Closed
    <3>7. RanSeen(s)' = RanSeen(s) \cup {s} /\ UNCHANGED OursSeen
      BY <2>1, <2>2, <2>5 DEF RanSeen, OursSeen, Over
    <3>8. Run(s)
      BY <2>1, <2>2, <2>3, <2>4, <3>1, <3>4, <3>5, <3>6, <3>7, NotYet, SeenNext
         DEF Run, Launching
    <3>9. QED
      BY <3>8
  <2>6. CASE UNCHANGED ran /\ Ended("command", "noexec")
    <3>1. /\ at'["command"] = "over" /\ at'["helper"] = "none"
          /\ end'["command"] = "noexec" /\ end'["reaper"] = end["reaper"]
      BY <2>1, <2>2, <2>6 DEF Ended, Alive
    <3>2. Unmoved(s)
      BY <2>1, <2>2, <2>3, <2>4, <2>6, <3>1 DEF Unmoved, StepSeen,
         ResponseSeen, CgroupsSeen, AliveSeen, ChildSeen, OomSeen, RanSeen,
         OursSeen, Launched, HelperSeen
    <3>3. QED
      BY <3>2
  <2>7. QED
    BY <1>13, <2>5, <2>6 DEF Exec
<1>14. CASE Reap
  <2>1. /\ at["reaper"] = "reap" /\ at["command"] = "over" /\ isolated
        /\ worker # "dead" /\ end["reaper"] = "none" /\ end["command"] # "none"
        /\ at["helper"] \in {"none", "over"}
        /\ UNCHANGED <<isolated, worker, cgroup, oom, ran, unread, timedOut,
                       oomKilled, result>>
    BY <1>14 DEF Reap, Closed, Alive, Spawned, Reaped
  <2>2. /\ end' = [end EXCEPT !["reaper"] = ReaperCode(end["command"])]
        /\ at'["command"] = "over" /\ at'["helper"] = at["helper"]
    BY <1>14, <2>1 DEF Reap, Ended, Alive
  <2>3. ReaperCode(end["command"]) \notin {"none", "oom", "noexec"}
    BY <2>1 DEF ReaperCode
  <2>4. Frame /\ UNCHANGED RanSeen(s)
    BY <2>1 DEF Frame, RanSeen
  <2>5. UNCHANGED OursSeen
    BY <2>1, <2>2 DEF OursSeen, ReaperCode, Over
  <2>6. CASE Over
    <3>1. result = "internal"
      BY <2>1, <2>6 DEF Over, Waited
    <3>2. QED
      BY <2>1, <2>2, <2>4, <2>5, <3>1 DEF Unmoved, StepSeen, ResponseSeen,
         CgroupsSeen, AliveSeen, ChildSeen, OomSeen, Over, StatusSeen
  <2>7. CASE ~Over /\ ~Launched
    <3>1. ~Launched' /\ ~Over' /\ ~ran
      BY <2>1, <2>2, <2>7 DEF Launched, Over
    <3>2. AliveSeen = {} /\ AliveSeen' = {}
      BY <2>1, <2>2, <2>7, <3>1 DEF AliveSeen, HelperSeen, ChildSeen
    <3>3. Unmoved(s)
      BY <2>1, <2>4, <2>5, <2>7, <3>1, <3>2 DEF Unmoved, StepSeen,
         ResponseSeen, CgroupsSeen, ChildSeen, OomSeen
    <3>4. QED
      BY <3>3
  <2>8. CASE ~Over /\ Launched
    <3>1. Launched' /\ ~Over'
      BY <2>1, <2>2, <2>8 DEF Launched, Over
    <3>2. UNCHANGED <<StepSeen(s), ResponseSeen(s), CgroupsSeen(s), OomSeen>>
      BY <2>1, <2>8, <3>1, Seen, SeenNext
    <3>3. ~(at'["command"] = "run") /\ ~HelperSeen /\ ~HelperSeen'
      BY <2>1, <2>2 DEF HelperSeen
    <3>4. CASE ran
      <4>1. ~timedOut
        BY <2>1 DEF Timed
      <4>2. ChildSeen = "running"
        BY <2>1, <2>8, <3>4, <4>1, Seen
      <4>3. ChildSeen' = ReaperCode(end["command"])
        BY <2>1, <2>2, <2>3, <3>1, <3>4, SeenNext
      <4>4. ReaperCode(end["command"]) \in {"ok", "nonzero"}
        BY <2>1, <3>4 DEF ReaperCode, Spawned, Ends
      <4>5. AliveSeen' = {}
        BY <2>1, <3>3, <4>3, <4>4 DEF AliveSeen
      <4>6. Exit(s)
        BY <2>1, <2>4, <2>5, <3>2, <4>2, <4>3, <4>4, <4>5 DEF Exit, Going, Left
      <4>7. QED
        BY <4>6
    <3>5. CASE ~ran
      <4>1. ChildSeen = "setup" /\ ChildSeen' = "setup"
        BY <2>1, <2>2, <2>3, <2>8, <3>1, <3>5, Seen, SeenNext
      <4>2. AliveSeen = {} /\ AliveSeen' = {}
        BY <2>1, <3>3, <4>1 DEF AliveSeen
      <4>3. Unmoved(s)
        BY <2>1, <2>4, <2>5, <3>2, <4>1, <4>2 DEF Unmoved
      <4>4. QED
        BY <4>3
    <3>6. QED
      BY <3>4, <3>5
  <2>9. QED
    BY <2>6, <2>7, <2>8
<1>15. CASE StartHelper
  <2>1. Unmoved(s)
    BY <1>15 DEF StartHelper, Unmoved, Frame, StepSeen, ResponseSeen,
       CgroupsSeen, AliveSeen, ChildSeen, OomSeen, RanSeen, OursSeen, Over,
       Launched, HelperSeen, StatusSeen
  <2>2. QED
    BY <2>1
<1>16. CASE CommandExits
  <2>1. /\ at["command"] = "run" /\ ran /\ worker # "dead" /\ Frame
        /\ end["command"] = "none" /\ ~timedOut
        /\ UNCHANGED <<isolated, worker, cgroup, oom, ran, unread, timedOut,
                       oomKilled, result>>
    BY <1>16 DEF CommandExits, Codes, Closed, Alive, Timed, Frame
  <2>2. PICK how \in {"ok", "nonzero"} : Ended("command", how)
    BY <1>16 DEF CommandExits
  <2>3. /\ end' = [end EXCEPT !["command"] = how]
        /\ at'["command"] = "over"
        /\ at'["helper"] = "run" => at["helper"] = "run"
        /\ isolated => at'["helper"] # "run"
    BY <2>1, <2>2 DEF Ended, Alive
  <2>4. Launched /\ Launched' /\ (Over' <=> Over)
    BY <2>1 DEF Launched, Over
  <2>5. UNCHANGED <<RanSeen(s), OursSeen>>
    BY <2>1, <2>3 DEF RanSeen, OursSeen, Over
  <2>6. ~isolated => ~Over /\ end["reaper"] = "none"
    BY <2>1 DEF Over, Closed, Reaped
  <2>7. CASE Over
    BY <2>1, <2>3, <2>4, <2>5, <2>6, <2>7 DEF Unmoved, StepSeen, ResponseSeen,
       CgroupsSeen, ChildSeen, OomSeen, AliveSeen, StatusSeen
  <2>8. CASE ~Over
    <3>1. UNCHANGED <<StepSeen(s), ResponseSeen(s), CgroupsSeen(s), OomSeen>>
      BY <2>1, <2>4, <2>8, Seen, SeenNext
    <3>2. CASE isolated
      <4>1. UNCHANGED ChildSeen
        BY <2>1, <2>3, <2>4, <2>8, <3>2, Seen, SeenNext
      <4>2. CASE ChildSeen = "running"
        <5>1. UNCHANGED AliveSeen
          BY <2>1, <4>1, <4>2 DEF AliveSeen
        <5>2. QED
          BY <2>1, <2>5, <3>1, <4>1, <5>1 DEF Unmoved
      <4>3. CASE ChildSeen # "running"
        <5>1. Shrinks
          BY <2>1, <2>3, <3>2 DEF Shrinks, HelperSeen
        <5>2. Straggle(s)
          BY <2>1, <2>4, <2>5, <3>1, <4>1, <4>3, <5>1, Dwindles DEF Straggle
        <5>3. QED
          BY <5>2
      <4>4. QED
        BY <4>2, <4>3
    <3>3. CASE ~isolated
      <4>1. ChildSeen = "running" /\ ChildSeen' = how
        BY <2>1, <2>3, <2>4, <2>6, <2>8, <3>3, Seen, SeenNext
      <4>2. Exit(s)
        BY <2>1, <2>3, <2>5, <3>1, <3>3, <4>1, Leaves DEF Exit, Going
      <4>3. QED
        BY <4>2
    <3>4. QED
      BY <3>2, <3>3
  <2>9. QED
    BY <2>7, <2>8
<1>17. CASE Crash
  <2>1. /\ worker \notin {"done", "dead"} /\ worker' = "dead"
        /\ UNCHANGED <<isolated, cgroup, end, oom, ran, unread, timedOut,
                       oomKilled, result>>
        /\ \A p \in Procs : at'[p] # "run"
        /\ at'["command"] = "none" <=> at["command"] = "none"
    BY <1>17 DEF Crash, Alive
  <2>2. UNCHANGED <<Over, Launched, StatusSeen(s)>>
    BY <2>1 DEF Over, Launched, StatusSeen
  <2>3. UNCHANGED <<ResponseSeen(s), CgroupsSeen(s), ChildSeen, OomSeen,
                    RanSeen(s), OursSeen>>
    BY <2>1, <2>2 DEF ResponseSeen, CgroupsSeen, ChildSeen, OomSeen, RanSeen,
       OursSeen
  <2>4. StepSeen(s) \notin {"new", "done"} /\ StepSeen(s)' = "lost"
    BY <2>1 DEF StepSeen, TwoStages
  <2>5. AliveSeen' = {}
    BY <2>1 DEF AliveSeen, HelperSeen
  <2>6. Vanish(s)
    BY <2>1, <2>3, <2>4, <2>5 DEF Vanish
  <2>7. QED
    BY <2>6
<1>18. ASSUME NEW p \in Procs, SetupStep(p) PROVE Unmoved(s)
  <2>1. UNCHANGED <<Over, Launched, HelperSeen, StatusSeen(s)>>
    BY <1>18 DEF SetupStep, Over, Launched, HelperSeen, StatusSeen
  <2>2. QED
    BY <1>18, <2>1 DEF SetupStep, Unmoved, Frame, StepSeen, ResponseSeen,
       CgroupsSeen, AliveSeen, ChildSeen, OomSeen, RanSeen, OursSeen
<1>19. ASSUME NEW p \in Procs, SetupFails(p)
       PROVE  Start(s)
  <2>1. /\ worker = "spawn" /\ at[p] \in DOMAIN NextStep \cup {"fork"}
        /\ UNCHANGED <<isolated, worker, cgroup, oom, ran, unread, timedOut,
                       oomKilled, result>>
        /\ Ended(p, "setup")
    BY <1>19 DEF SetupFails, Spawned, Setting
  <2>2. isolated /\ p \in {"reaper", "command"}
    BY <2>1 DEF HelperSteps, ReaperSteps, CommandSteps, Spawned
  <2>3. /\ ~ran /\ result = "none" /\ timedOut = FALSE /\ cgroup
        /\ at["helper"] = "none"
        /\ end["command"] = "none" /\ at["command"] # "run"
        /\ at["command"] = "none" <=> p = "reaper"
        /\ p = "reaper" => end["reaper"] = "none"
    BY <2>1, <2>2 DEF Closed, Unstarted, Waited, Timed, Spawned, Guarded,
       ReaperSteps, CommandSteps
  <2>4. Frame /\ ~Over /\ ~Over' /\ ~Launched
    BY <2>1, <2>3 DEF Over, Launched, Frame
  <2>5. /\ end' = [end EXCEPT ![p] = "setup"]
        /\ at'["command"] # "run" /\ at'["helper"] = "none"
        /\ at'["command"] = "none" <=> at["command"] = "none"
    BY <2>1, <2>2, <2>3 DEF Ended, Alive
  <2>6. Launched'
    BY <2>2, <2>3, <2>5 DEF Launched
  <2>7. ChildSeen' = IF end["reaper"] = "oom" /\ p = "command"
                     THEN "signal" ELSE "setup"
    BY <2>1, <2>2, <2>3, <2>4, <2>5, <2>6, SeenNext
  <2>8. end["reaper"] = "oom" => oom
    BY DEF Codes
  <2>9. AliveSeen = {} /\ AliveSeen' = {}
    BY <2>1, <2>3, <2>4, <2>5, <2>7, NotYet DEF AliveSeen, HelperSeen
  <2>10. OursSeen' = TRUE /\ UNCHANGED RanSeen(s)
    BY <2>1, <2>2, <2>5 DEF OursSeen, RanSeen
  <2>11. CgroupsSeen(s)' = {<<"run", s>>} /\ OomSeen' = oom
    BY <2>1, <2>3, <2>4, <2>6, SeenNext
  <2>12. QED
    BY <2>1, <2>2, <2>3, <2>4, <2>6, <2>7, <2>8, <2>9, <2>10, <2>11, NotYet,
       SeenNext DEF Start, Launching
<1>20. ASSUME NEW p \in Procs, Die(p)
       PROVE  Unmoved(s) \/ Straggle(s) \/ Start(s)
  <2>1. /\ at[p] = "dying" /\ end[p] = "none" /\ worker # "dead" /\ Frame
        /\ UNCHANGED <<isolated, worker, cgroup, oom, ran, unread, timedOut,
                       oomKilled, result>>
        /\ Ended(p, "signal")
    BY <1>20 DEF Die, Closed, Alive, Frame
  <2>2. /\ end' = [end EXCEPT ![p] = "signal"]
        /\ at'["command"] = "none" <=> at["command"] = "none"
        /\ Shrinks
    BY <2>1 DEF Ended, Alive, Shrinks, HelperSeen
  <2>3. UNCHANGED <<RanSeen(s), OursSeen>> /\ (Over' <=> Over)
    BY <2>1, <2>2 DEF RanSeen, OursSeen, Over
  <2>4. CASE Over
    <3>1. UNCHANGED <<StepSeen(s), ResponseSeen(s), CgroupsSeen(s), OomSeen>>
      BY <2>1, <2>3, <2>4 DEF StepSeen, StatusSeen, ResponseSeen, CgroupsSeen,
         OomSeen
    <3>2. ChildSeen = "unstarted" /\ ChildSeen' = "unstarted"
      BY <2>3, <2>4 DEF ChildSeen
    <3>3. Straggle(s)
      BY <2>1, <2>2, <2>3, <3>1, <3>2, Dwindles DEF Straggle
    <3>4. QED
      BY <3>3
  <2>5. CASE ~Over /\ ~Launched
    <3>1. worker = "spawn" /\ ~ran /\ timedOut = FALSE
      BY <2>1, <2>5 DEF Over, Spawned, Timed, Settled, Launched, Early,
         WorkerSteps
    <3>2. at["helper"] = "none" /\ p # "helper" /\ at["command"] # "run"
      BY <2>1, <3>1 DEF Spawned, Codes
    <3>3. p = "command"
      <4>1. at["reaper"] = "dying" => isolated
        OBVIOUS
      <4>2. at["reaper"] # "dying"
        BY <3>1, <4>1 DEF Timed, Waited
      <4>3. QED
        BY <2>1, <3>2, <4>2
    <3>4. end["reaper"] = "oom" /\ oom = TRUE /\ isolated /\ cgroup
      BY <2>1, <3>1, <3>3 DEF Spawned, Codes, Counted, Guarded
    <3>5. Launched'
      BY <2>2, <3>3 DEF Launched
    <3>6. /\ ChildSeen' = "signal" /\ OomSeen' = TRUE
          /\ CgroupsSeen(s)' = {<<"run", s>>}
      BY <2>1, <2>2, <2>3, <2>5, <3>3, <3>4, <3>5, SeenNext
    <3>7. AliveSeen = {} /\ AliveSeen' = {}
      BY <2>1, <2>2, <2>5, <3>2, <3>6, NotYet, Dwindles DEF AliveSeen,
         HelperSeen, Shrinks
    <3>8. Start(s)
      BY <2>1, <2>3, <2>5, <3>1, <3>4, <3>5, <3>6, <3>7, NotYet, SeenNext DEF
         Start, Launching
    <3>9. QED
      BY <3>8
  <2>6. CASE ~Over /\ Launched
    <3>1. Launched'
      BY <2>1, <2>2, <2>6 DEF Launched
    <3>2. UNCHANGED <<StepSeen(s), ResponseSeen(s), CgroupsSeen(s), OomSeen>>
      BY <2>1, <2>3, <2>6, <3>1, Seen, SeenNext
    <3>3. p = Child => timedOut
      BY <2>1, <2>6 DEF Timed, Over
    <3>4. UNCHANGED ChildSeen
      BY <2>1, <2>2, <2>3, <2>6, <3>1, <3>3, Seen, SeenNext
    <3>5. CASE ChildSeen = "running"
      <4>1. UNCHANGED AliveSeen
        BY <2>1, <3>4, <3>5 DEF AliveSeen
      <4>2. QED
        BY <2>1, <2>3, <3>2, <3>4, <4>1 DEF Unmoved
    <3>6. CASE ChildSeen # "running"
      BY <2>1, <2>2, <2>3, <3>2, <3>4, <3>6, Dwindles DEF Straggle
    <3>7. QED
      BY <3>5, <3>6
  <2>7. QED
    BY <2>4, <2>5, <2>6
<1>21. ASSUME NEW p \in Procs, OomKill(p)
       PROVE  Unmoved(s) \/ Straggle(s) \/ Start(s) \/ Oom(s)
  <2>1. /\ isolated /\ Alive(p) /\ at[p] # "dying" /\ end[p] = "none"
        /\ worker # "dead" /\ Frame /\ oom' = TRUE
        /\ UNCHANGED <<isolated, worker, cgroup, ran, unread, timedOut,
                       oomKilled, result>>
        /\ Ended(p, "oom")
    BY <1>21 DEF OomKill, Closed, Alive, Frame
  <2>2. /\ end' = [end EXCEPT ![p] = "oom"]
        /\ at'["command"] = "none" <=> at["command"] = "none"
        /\ Shrinks
    BY <2>1 DEF Ended, Alive, Shrinks, HelperSeen
  <2>3. UNCHANGED <<RanSeen(s), OursSeen>> /\ (Over' <=> Over)
    BY <2>1, <2>2 DEF RanSeen, OursSeen, Over
  <2>4. CASE Over
    <3>1. UNCHANGED <<StepSeen(s), ResponseSeen(s), CgroupsSeen(s), OomSeen>>
      BY <2>1, <2>3, <2>4 DEF StepSeen, StatusSeen, ResponseSeen, CgroupsSeen,
         OomSeen
    <3>2. ChildSeen = "unstarted" /\ ChildSeen' = "unstarted"
      BY <2>3, <2>4 DEF ChildSeen
    <3>3. Straggle(s)
      BY <2>1, <2>2, <2>3, <3>1, <3>2, Dwindles DEF Straggle
    <3>4. QED
      BY <3>3
  <2>5. CASE ~Over /\ ~Launched
    <3>1. worker = "spawn" /\ ~ran /\ timedOut = FALSE /\ cgroup
      BY <2>1, <2>5 DEF Over, Spawned, Timed, Settled, Launched, Early,
         WorkerSteps, Guarded, Alive
    <3>2. at["helper"] = "none" /\ p # "helper" /\ at["command"] # "run"
      BY <2>1, <3>1 DEF Spawned, Codes, Alive
    <3>3. AliveSeen = {}
      BY <3>2, <2>5, NotYet DEF AliveSeen, HelperSeen
    <3>4. CASE Launched'
      <4>1. /\ ChildSeen' \in {"setup", "signal"} /\ OomSeen' = TRUE
            /\ CgroupsSeen(s)' = {<<"run", s>>}
        BY <2>1, <2>3, <2>5, <3>1, <3>4, SeenNext
      <4>2. AliveSeen' = {}
        BY <2>1, <2>2, <2>3, <3>3, <4>1, Dwindles
      <4>3. Start(s)
        BY <2>1, <2>3, <2>5, <3>1, <3>3, <3>4, <4>1, <4>2, NotYet, SeenNext DEF
           Start, Launching
      <4>4. QED
        BY <4>3
    <3>5. CASE ~Launched'
      <4>1. /\ ~(at'["command"] = "run") /\ ~HelperSeen'
        BY <2>2, <3>2 DEF Shrinks, HelperSeen
      <4>2. AliveSeen' = {}
        BY <3>5, <4>1 DEF AliveSeen, ChildSeen
      <4>3. Unmoved(s)
        BY <2>1, <2>3, <2>5, <3>3, <3>5, <4>2 DEF Unmoved, StepSeen,
           ResponseSeen, CgroupsSeen, ChildSeen, OomSeen
      <4>4. QED
        BY <4>3
    <3>6. QED
      BY <3>4, <3>5
  <2>6. CASE ~Over /\ Launched
    <3>1. Launched'
      BY <2>1, <2>2, <2>6 DEF Launched
    <3>2. /\ UNCHANGED <<StepSeen(s), ResponseSeen(s), CgroupsSeen(s)>>
          /\ OomSeen' = TRUE /\ OomSeen = oom
      BY <2>1, <2>3, <2>6, <3>1, Seen, SeenNext
    <3>3. CASE p = "reaper"
      <4>1. ~timedOut
        BY <2>1, <3>3 DEF Timed, Alive
      <4>2. ChildSeen \in {"running", "setup"}
        BY <2>1, <2>6, <3>3, <4>1, Seen
      <4>3. ChildSeen' = "signal"
        BY <2>1, <2>2, <2>3, <2>6, <3>1, <3>3, SeenNext
      <4>4. Oom(s)
        BY <2>1, <2>2, <2>3, <3>2, <4>2, <4>3, Dwindles, Lives DEF Oom, Going
      <4>5. QED
        BY <4>4
    <3>4. CASE p # "reaper"
      <4>1. UNCHANGED ChildSeen
        BY <2>1, <2>2, <2>3, <2>6, <3>1, <3>4, Seen, SeenNext
      <4>2. CASE end["reaper"] = "oom"
        <5>1. ChildSeen = "signal" /\ oom = TRUE
          BY <2>1, <2>6, <4>2, Seen DEF Codes
        <5>2. QED
          BY <2>1, <2>2, <2>3, <3>2, <4>1, <5>1, Dwindles DEF Straggle
      <4>3. CASE end["reaper"] # "oom"
        <5>1. at[p] = "run" /\ ran
          <6>1. CASE p = "command"
            BY <2>1, <2>6, <6>1 DEF Alive, Closed, Unstarted, Launched,
               CommandSteps
          <6>2. CASE p = "helper"
            BY <2>1, <6>2 DEF Alive, Spawned, HelperSteps
          <6>3. QED
            BY <3>4, <6>1, <6>2
        <5>2. end["reaper"] = "none" /\ ~timedOut
          BY <2>1, <2>6, <3>4, <4>3, <5>1 DEF Orphans, Reaped, Timed, Over
        <5>3. ChildSeen = "running"
          BY <2>1, <2>6, <5>1, <5>2, Seen
        <5>4. UNCHANGED AliveSeen
          BY <2>1, <4>1, <5>3 DEF AliveSeen
        <5>5. QED
          BY <2>1, <2>3, <3>2, <4>1, <5>3, <5>4, Lives DEF Oom, Going
      <4>4. QED
        BY <4>2, <4>3
    <3>5. QED
      BY <3>3, <3>4
  <2>7. QED
    BY <2>4, <2>5, <2>6
<1>22. QED
  BY <1>1, <1>2, <1>3, <1>4, <1>5, <1>6, <1>7, <1>8, <1>9, <1>10, <1>11,
     <1>12, <1>13, <1>14, <1>15, <1>16, <1>17, <1>18, <1>19, <1>20, <1>21
  DEF Next, Worker, Forked

\* Every step keeps the invariant.
LEMMA IInvStep ==
  ASSUME Container, "kill" \notin Failures, IInv, [Next]_vars
  PROVE  IInv'
<1>1. Inv' /\ Closed'
  BY NextInv, ClosedStep DEF IInv
<1>2. CASE Next
  BY <1>1, <1>2, KeptStep DEF IInv, Kept
<1>3. CASE UNCHANGED vars
  BY <1>1, <1>3 DEF vars, IInv, Spawned, Timed, Counted, Reaped, Settled,
     Launched, Setting, Child
<1>4. QED
  BY <1>2, <1>3

\* Every step of Sandbox is a step of GradeTask, or none.
LEMMA StepOfPipeline ==
  ASSUME Container, "kill" \notin Failures, IInv, [Next]_vars,
         NEW s \in TwoStages
  PROVE  Caller(s)!Next \/ UNCHANGED Caller(s)!vars
<1>1. CASE UNCHANGED vars
  <2>1. Unmoved(s)
    BY <1>1 DEF vars, Unmoved, Frame, StepSeen, ResponseSeen, CgroupsSeen,
       AliveSeen, ChildSeen, OomSeen, RanSeen, OursSeen, Over, Launched,
       HelperSeen, StatusSeen, Child
  <2>2. QED
    BY <2>1, Stutters
<1>2. CASE Next
  <2>1. IInv'
    BY IInvStep
  <2>2. QED
    BY <1>2, <2>1, Moves, Stutters, Straggles, Refuses, Starts, Runs, Exits,
       Ooms, Limits, Finishes, GivesUp, Vanishes, Pipes
<1>3. QED
  BY <1>1, <1>2

\* In a container, and if cgroups can be killed, the stage that GradeTask has
\* is implemented by run_sandboxed: whatever else fails, every step of the
\* worker, its forked processes and the kernel is a step that GradeTask has its
\* stage make, or none, in the install stage and in the test stage.
THEOREM StagesImplementPipeline ==
  Container /\ "kill" \notin Failures => (Spec => ImplementsPipeline)
<1> SUFFICES ASSUME Container, "kill" \notin Failures
             PROVE  Spec => ImplementsPipeline
  OBVIOUS
<1>1. IInv /\ [Next]_vars => IInv'
  BY IInvStep
<1>2. IInv /\ [Next]_vars =>
        [\A s \in {"install", "test"} :
           Caller(s)!Next \/ UNCHANGED Caller(s)!vars]_vars
  BY StepOfPipeline DEF TwoStages
<1>3. QED
  BY InitIInv, <1>1, <1>2, PTL DEF Spec, ImplementsPipeline
=============================================================================
