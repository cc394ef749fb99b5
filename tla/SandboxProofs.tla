---------------------------- MODULE SandboxProofs ----------------------------
(***************************************************************************)
(* Theorems about Sandbox, for every combination of failures, with and     *)
(* without isolation, in a container and outside one.                      *)
(***************************************************************************)
EXTENDS SandboxRefinement, TLAPS

-----------------------------------------------------------------------------
(* The inductive invariant.                                                *)

ReaperSteps  == {"none", "join", "unshare", "maps", "fork", "reap", "dying",
                 "over"}
CommandSteps == {"none", "pdeath", "mounts", "pivot", "cwd", "privs", "exec",
                 "run", "dying", "over"}
HelperSteps  == {"none", "run", "dying", "over"}

Early == {"init", "create", "prep"}

\* Each process comes after the one that forks it, and ends once.
Forks ==
  /\ at["reaper"] \in ReaperSteps
  /\ at["command"] \in CommandSteps
  /\ at["helper"] \in HelperSteps
  /\ worker \in Early => \A p \in Procs : at[p] = "none"
  /\ isolated /\ at["reaper"] \in {"none", "join", "unshare", "maps", "fork"} =>
       at["command"] = "none"
  /\ at["command"] = "none" => at["helper"] = "none"
  /\ ~isolated => at["reaper"] = "none" /\ members = {}
  /\ \A p \in Procs : end[p] # "none" => at[p] = "over"

\* What the exit codes and the OOM count tell.
Codes ==
  /\ at["command"] = "run" => ran
  /\ end["command"] = "ok" => ran
  /\ end["reaper"] = "ok" => end["command"] = "ok"
  /\ "oom" \in {end["reaper"], end["command"]} => oom

\* What the worker has taken from the child it waited for.
Waited ==
  /\ worker \in Early \cup {"spawn", "wait", "killed"} => result = "none"
  /\ result = "ok" => end[Child] = "ok"
  /\ worker \in {"outcome", "drop", "drain", "done"} /\ result # "internal" =>
       at[Child] = "over"

\* Every process of the stage is in its cgroup as soon as spawn returns.
Joined ==
  isolated => \A p \in Procs : Alive(p) =>
    \/ p \in members
    \/ p = "reaper" /\ at[p] = "join" /\ worker \in {"spawn", "dead"}

\* A command is without its reaper only if the OOM killer took that, and what
\* the OOM killer took before the outcome was read is in the outcome, unless the
\* count could not be read.
Orphans ==
  /\ isolated /\ worker # "dead" /\ result # "internal"
       /\ at["reaper"] \in {"dying", "over"} =>
     end["reaper"] = "oom" \/ at["command"] \in {"none", "dying", "over"}
  /\ worker \in {"drop", "drain", "done"} /\ result # "internal"
       /\ "oom" \in {end["reaper"], end["command"]} =>
     oomKilled \/ unread

\* The guard is there until its drop, and the drop leaves nothing.
Guarded ==
  /\ isolated /\ worker \in {"init", "create"} => ~cgroup
  /\ isolated /\ worker \notin {"init", "create", "done", "dead"} => cgroup
  /\ isolated /\ worker = "done" /\ Failures \cap {"kill", "drain"} = {} =>
       ~cgroup /\ \A p \in Procs : ~Alive(p)

Inv == TypeOK /\ Forks /\ Codes /\ Waited /\ Joined /\ Orphans /\ Guarded

\* Before the stage begins there is no process and no cgroup.
LEMMA InitInv == Init => Inv
<1> SUFFICES ASSUME Init PROVE Inv
  OBVIOUS
<1>1. TypeOK
  BY SandboxAssumption DEF Init, TypeOK, Steps, NextStep, Ends, WorkerSteps
<1>2. Forks /\ Codes /\ Joined
  BY DEF Init, Forks, Codes, Joined, Alive, ReaperSteps, CommandSteps,
         HelperSteps, Procs
<1>3. Waited
  BY DEF Init, Waited, Early
<1>4. Orphans
  BY DEF Init, Orphans, Procs
<1>5. Guarded
  BY DEF Init, Guarded
<1>6. QED
  BY <1>1, <1>2, <1>3, <1>4, <1>5 DEF Inv

\* Every step keeps the types.
LEMMA TypeOKStep ==
  ASSUME Inv, Next
  PROVE  TypeOK'
<1> USE DEF Inv, control, outcome, WorkerTo, Alive, Child, NextStep, Procs,
            Early
<1>1. CASE GlobalInit
  BY <1>1 DEF GlobalInit, processes, TypeOK, Steps, Ends, WorkerSteps
<1>2. CASE CreateGuard
  BY <1>2 DEF CreateGuard, Internal, processes, TypeOK, Steps, Ends,
     WorkerSteps
<1>3. CASE Prepare
  BY <1>3 DEF Prepare, Internal, Limited, FirstStep, TypeOK, Steps, Ends,
     WorkerSteps
<1>4. CASE SpawnReturns
  BY <1>4 DEF SpawnReturns, Internal, PipeOpen, Setting, processes, TypeOK,
     Steps, Ends, WorkerSteps
<1>5. CASE WaitDone
  BY <1>5 DEF WaitDone, processes, TypeOK, Steps, Ends, WorkerSteps
<1>6. CASE WaitFails
  BY <1>6 DEF WaitFails, Internal, Kill, TypeOK, Steps, Ends, WorkerSteps
<1>7. CASE KilledExits
  BY <1>7 DEF KilledExits, processes, TypeOK, Steps, Ends, WorkerSteps
<1>8. CASE ReadOutcome
  BY <1>8 DEF ReadOutcome, processes, TypeOK, Steps, Ends, WorkerSteps
<1>9. CASE DropKill
  BY <1>9 DEF DropKill, KillAll, Kill, TypeOK, Steps, Ends, WorkerSteps
<1>10. CASE DropDrain
  BY <1>10 DEF DropDrain, Populated, processes, TypeOK, Steps, Ends,
     WorkerSteps
<1>11. CASE TimeLimit
  BY <1>11 DEF TimeLimit, KillAll, KillSession, Kill, TypeOK, Steps, Ends,
     WorkerSteps
<1>12. CASE Fork
  BY <1>12 DEF Fork, TypeOK, Steps, Ends, WorkerSteps
<1>13. CASE Exec
  <2>1. at' \in [Procs -> Steps] /\ end' \in [Procs -> Ends]
    BY <1>13 DEF Exec, Ended, TypeOK, Steps, Ends
  <2>2. QED
    BY <1>13, <2>1 DEF Exec, TypeOK
<1>14. CASE Reap
  BY <1>14 DEF Reap, Ended, ReaperCode, TypeOK, Steps, Ends, WorkerSteps
<1>15. CASE StartHelper
  BY <1>15 DEF StartHelper, TypeOK, Steps, Ends, WorkerSteps
<1>16. CASE CommandExits
  BY <1>16 DEF CommandExits, Ended, TypeOK, Steps, Ends, WorkerSteps
<1>17. CASE Crash
  BY <1>17 DEF Crash, TypeOK, Steps, Ends, WorkerSteps
<1>18. ASSUME NEW p \in Procs, SetupStep(p) PROVE TypeOK'
  BY <1>18 DEF SetupStep, TypeOK, Steps, Ends, WorkerSteps
<1>19. ASSUME NEW p \in Procs, SetupFails(p) PROVE TypeOK'
  BY <1>19 DEF SetupFails, Ended, TypeOK, Steps, Ends, WorkerSteps
<1>20. ASSUME NEW p \in Procs, Die(p) PROVE TypeOK'
  BY <1>20 DEF Die, Ended, TypeOK, Steps, Ends, WorkerSteps
<1>21. ASSUME NEW p \in Procs, OomKill(p) PROVE TypeOK'
  BY <1>21 DEF OomKill, Ended, TypeOK, Steps, Ends, WorkerSteps
<1>22. QED
  BY <1>1, <1>2, <1>3, <1>4, <1>5, <1>6, <1>7, <1>8, <1>9, <1>10, <1>11,
     <1>12, <1>13, <1>14, <1>15, <1>16, <1>17, <1>18, <1>19, <1>20, <1>21
  DEF Next, Worker, Forked

\* Every step keeps the order of the forks: SetupStep, Fork and Exec move a
\* process on, Ended ends it and the init's namespace.
LEMMA ForksStep ==
  ASSUME Inv, Next
  PROVE  Forks'
<1> USE DEF Inv, control, outcome, WorkerTo, Alive, Child, NextStep, Procs,
            Early
<1>1. CASE GlobalInit
  BY <1>1 DEF GlobalInit, processes, Forks, ReaperSteps, CommandSteps,
     HelperSteps
<1>2. CASE CreateGuard
  BY <1>2 DEF CreateGuard, Internal, processes, Forks, ReaperSteps,
     CommandSteps, HelperSteps
<1>3. CASE Prepare
  BY <1>3 DEF Prepare, Internal, Limited, FirstStep, Forks, TypeOK,
     ReaperSteps, CommandSteps, HelperSteps
<1>4. CASE SpawnReturns
  BY <1>4 DEF SpawnReturns, Internal, PipeOpen, Setting, processes, Forks,
     ReaperSteps, CommandSteps, HelperSteps
<1>5. CASE WaitDone
  BY <1>5 DEF WaitDone, processes, Forks, ReaperSteps, CommandSteps,
     HelperSteps
<1>6. CASE WaitFails
  BY <1>6 DEF WaitFails, Internal, Kill, Forks, ReaperSteps, CommandSteps,
     HelperSteps
<1>7. CASE KilledExits
  BY <1>7 DEF KilledExits, processes, Forks, ReaperSteps, CommandSteps,
     HelperSteps
<1>8. CASE ReadOutcome
  BY <1>8 DEF ReadOutcome, processes, Forks, ReaperSteps, CommandSteps,
     HelperSteps
<1>9. CASE DropKill
  BY <1>9 DEF DropKill, KillAll, Kill, Forks, ReaperSteps, CommandSteps,
     HelperSteps
<1>10. CASE DropDrain
  BY <1>10 DEF DropDrain, Populated, processes, Forks, ReaperSteps,
     CommandSteps, HelperSteps
<1>11. CASE TimeLimit
  BY <1>11 DEF TimeLimit, KillAll, KillSession, Kill, Forks, ReaperSteps,
     CommandSteps, HelperSteps
<1>12. CASE Fork
  BY <1>12 DEF Fork, Forks, TypeOK, ReaperSteps, CommandSteps, HelperSteps
<1>13. CASE Exec
  BY <1>13 DEF Exec, Ended, Forks, TypeOK, ReaperSteps, CommandSteps,
     HelperSteps
<1>14. CASE Reap
  BY <1>14 DEF Reap, Ended, ReaperCode, Forks, ReaperSteps, CommandSteps,
     HelperSteps
<1>15. CASE StartHelper
  BY <1>15 DEF StartHelper, Forks, ReaperSteps, CommandSteps, HelperSteps
<1>16. CASE CommandExits
  BY <1>16 DEF CommandExits, Ended, Forks, ReaperSteps, CommandSteps,
     HelperSteps
<1>17. CASE Crash
  BY <1>17 DEF Crash, Forks, ReaperSteps, CommandSteps, HelperSteps
<1>18. ASSUME NEW p \in Procs, SetupStep(p) PROVE Forks'
  BY <1>18 DEF SetupStep, Forks, ReaperSteps, CommandSteps, HelperSteps
<1>19. ASSUME NEW p \in Procs, SetupFails(p) PROVE Forks'
  BY <1>19 DEF SetupFails, Ended, Forks, ReaperSteps, CommandSteps, HelperSteps
<1>20. ASSUME NEW p \in Procs, Die(p) PROVE Forks'
  BY <1>20 DEF Die, Ended, Forks, ReaperSteps, CommandSteps, HelperSteps
<1>21. ASSUME NEW p \in Procs, OomKill(p) PROVE Forks'
  BY <1>21 DEF OomKill, Ended, Forks, ReaperSteps, CommandSteps, HelperSteps
<1>22. QED
  BY <1>1, <1>2, <1>3, <1>4, <1>5, <1>6, <1>7, <1>8, <1>9, <1>10, <1>11,
     <1>12, <1>13, <1>14, <1>15, <1>16, <1>17, <1>18, <1>19, <1>20, <1>21
  DEF Next, Worker, Forked

\* Every step keeps what the exit codes tell: only Exec sets the command
\* running, and the reaper's code is the command's or not 0.
LEMMA CodesStep ==
  ASSUME Inv, Next
  PROVE  Codes'
<1> USE DEF Inv, control, outcome, WorkerTo, Alive, Child, NextStep, Procs,
            Early
<1>1. CASE GlobalInit
  BY <1>1 DEF GlobalInit, processes, Codes
<1>2. CASE CreateGuard
  BY <1>2 DEF CreateGuard, Internal, processes, Codes
<1>3. CASE Prepare
  BY <1>3 DEF Prepare, Internal, Limited, FirstStep, Codes, TypeOK
<1>4. CASE SpawnReturns
  BY <1>4 DEF SpawnReturns, Internal, PipeOpen, Setting, processes, Codes
<1>5. CASE WaitDone
  BY <1>5 DEF WaitDone, processes, Codes
<1>6. CASE WaitFails
  BY <1>6 DEF WaitFails, Internal, Kill, Codes
<1>7. CASE KilledExits
  BY <1>7 DEF KilledExits, processes, Codes
<1>8. CASE ReadOutcome
  BY <1>8 DEF ReadOutcome, processes, Codes
<1>9. CASE DropKill
  BY <1>9 DEF DropKill, KillAll, Kill, Codes
<1>10. CASE DropDrain
  BY <1>10 DEF DropDrain, Populated, processes, Codes
<1>11. CASE TimeLimit
  BY <1>11 DEF TimeLimit, KillAll, KillSession, Kill, Codes
<1>12. CASE Fork
  BY <1>12 DEF Fork, Codes, TypeOK
<1>13. CASE Exec
  BY <1>13 DEF Exec, Ended, Codes, TypeOK, Forks
<1>14. CASE Reap
  BY <1>14 DEF Reap, Ended, ReaperCode, Codes
<1>15. CASE StartHelper
  BY <1>15 DEF StartHelper, Codes
<1>16. CASE CommandExits
  BY <1>16 DEF CommandExits, Ended, Codes, Forks
<1>17. CASE Crash
  BY <1>17 DEF Crash, Codes
<1>18. ASSUME NEW p \in Procs, SetupStep(p) PROVE Codes'
  BY <1>18 DEF SetupStep, Codes
<1>19. ASSUME NEW p \in Procs, SetupFails(p) PROVE Codes'
  BY <1>19 DEF SetupFails, Ended, Codes, Forks
<1>20. ASSUME NEW p \in Procs, Die(p) PROVE Codes'
  BY <1>20 DEF Die, Ended, Codes, Forks
<1>21. ASSUME NEW p \in Procs, OomKill(p) PROVE Codes'
  BY <1>21 DEF OomKill, Ended, Codes, Forks
<1>22. QED
  BY <1>1, <1>2, <1>3, <1>4, <1>5, <1>6, <1>7, <1>8, <1>9, <1>10, <1>11,
     <1>12, <1>13, <1>14, <1>15, <1>16, <1>17, <1>18, <1>19, <1>20, <1>21
  DEF Next, Worker, Forked

\* Every step keeps what the worker knows of the child it waits for: a
\* process that is over does not end again.
LEMMA WaitedStep ==
  ASSUME Inv, Next
  PROVE  Waited'
<1> USE DEF Inv, control, outcome, WorkerTo, Alive, Child, NextStep, Procs,
            Early
<1>1. CASE GlobalInit
  BY <1>1 DEF GlobalInit, processes, Waited
<1>2. CASE CreateGuard
  BY <1>2 DEF CreateGuard, Internal, processes, Waited
<1>3. CASE Prepare
  BY <1>3 DEF Prepare, Internal, Limited, FirstStep, Waited
<1>4. CASE SpawnReturns
  BY <1>4 DEF SpawnReturns, Internal, PipeOpen, Setting, processes, Waited
<1>5. CASE WaitDone
  BY <1>5 DEF WaitDone, processes, Waited
<1>6. CASE WaitFails
  BY <1>6 DEF WaitFails, Internal, Kill, Waited
<1>7. CASE KilledExits
  BY <1>7 DEF KilledExits, processes, Waited
<1>8. CASE ReadOutcome
  BY <1>8 DEF ReadOutcome, processes, Waited
<1>9. CASE DropKill
  BY <1>9 DEF DropKill, KillAll, Kill, Waited
<1>10. CASE DropDrain
  BY <1>10 DEF DropDrain, Populated, processes, Waited
<1>11. CASE TimeLimit
  BY <1>11 DEF TimeLimit, KillAll, KillSession, Kill, Waited
<1>12. CASE Fork
  BY <1>12 DEF Fork, Waited, Forks
<1>13. CASE Exec
  BY <1>13 DEF Exec, Ended, Waited, TypeOK, Forks
<1>14. CASE Reap
  BY <1>14 DEF Reap, Ended, ReaperCode, Waited, Forks
<1>15. CASE StartHelper
  BY <1>15 DEF StartHelper, Waited
<1>16. CASE CommandExits
  BY <1>16 DEF CommandExits, Ended, Waited, Forks
<1>17. CASE Crash
  BY <1>17 DEF Crash, Waited
<1>18. ASSUME NEW p \in Procs, SetupStep(p) PROVE Waited'
  BY <1>18 DEF SetupStep, Waited
<1>19. ASSUME NEW p \in Procs, SetupFails(p) PROVE Waited'
  BY <1>19 DEF SetupFails, Ended, Waited, Forks
<1>20. ASSUME NEW p \in Procs, Die(p) PROVE Waited'
  BY <1>20 DEF Die, Ended, Waited, Forks
<1>21. ASSUME NEW p \in Procs, OomKill(p) PROVE Waited'
  BY <1>21 DEF OomKill, Ended, Waited, Forks
<1>22. QED
  BY <1>1, <1>2, <1>3, <1>4, <1>5, <1>6, <1>7, <1>8, <1>9, <1>10, <1>11,
     <1>12, <1>13, <1>14, <1>15, <1>16, <1>17, <1>18, <1>19, <1>20, <1>21
  DEF Next, Worker, Forked

\* Every step keeps the processes in the cgroup: the reaper joins before its
\* fork, the others inherit it.
LEMMA JoinedStep ==
  ASSUME Inv, Next
  PROVE  Joined'
<1> USE DEF Inv, control, outcome, WorkerTo, Alive, Child, NextStep, Procs,
            Early
<1>1. CASE GlobalInit
  BY <1>1 DEF GlobalInit, processes, Joined
<1>2. CASE CreateGuard
  BY <1>2 DEF CreateGuard, Internal, processes, Joined
<1>3. CASE Prepare
  BY <1>3 DEF Prepare, Internal, Limited, FirstStep, Joined, TypeOK
<1>4. CASE SpawnReturns
  BY <1>4 DEF SpawnReturns, Internal, PipeOpen, Setting, processes, Joined
<1>5. CASE WaitDone
  BY <1>5 DEF WaitDone, processes, Joined
<1>6. CASE WaitFails
  BY <1>6 DEF WaitFails, Internal, Kill, Joined
<1>7. CASE KilledExits
  BY <1>7 DEF KilledExits, processes, Joined
<1>8. CASE ReadOutcome
  BY <1>8 DEF ReadOutcome, processes, Joined
<1>9. CASE DropKill
  BY <1>9 DEF DropKill, KillAll, Kill, Joined
<1>10. CASE DropDrain
  BY <1>10 DEF DropDrain, Populated, processes, Joined
<1>11. CASE TimeLimit
  BY <1>11 DEF TimeLimit, KillAll, KillSession, Kill, Joined
<1>12. CASE Fork
  BY <1>12 DEF Fork, Joined, TypeOK
<1>13. CASE Exec
  BY <1>13 DEF Exec, Ended, Joined, TypeOK
<1>14. CASE Reap
  BY <1>14 DEF Reap, Ended, ReaperCode, Joined
<1>15. CASE StartHelper
  BY <1>15 DEF StartHelper, Joined
<1>16. CASE CommandExits
  BY <1>16 DEF CommandExits, Ended, Joined
<1>17. CASE Crash
  BY <1>17 DEF Crash, Joined
<1>18. ASSUME NEW p \in Procs, SetupStep(p) PROVE Joined'
  BY <1>18 DEF SetupStep, Joined
<1>19. ASSUME NEW p \in Procs, SetupFails(p) PROVE Joined'
  BY <1>19 DEF SetupFails, Ended, Joined
<1>20. ASSUME NEW p \in Procs, Die(p) PROVE Joined'
  BY <1>20 DEF Die, Ended, Joined
<1>21. ASSUME NEW p \in Procs, OomKill(p) PROVE Joined'
  BY <1>21 DEF OomKill, Ended, Joined
<1>22. QED
  BY <1>1, <1>2, <1>3, <1>4, <1>5, <1>6, <1>7, <1>8, <1>9, <1>10, <1>11,
     <1>12, <1>13, <1>14, <1>15, <1>16, <1>17, <1>18, <1>19, <1>20, <1>21
  DEF Next, Worker, Forked

\* Every step keeps what can outlive the reaper: TimeLimit and DropKill kill
\* the whole cgroup, and only the OOM killer takes the reaper alone.
LEMMA OrphansStep ==
  ASSUME Inv, Next
  PROVE  Orphans'
<1> USE DEF Inv, control, outcome, WorkerTo, Alive, Child, NextStep, Procs,
            Early
<1>1. CASE GlobalInit
  BY <1>1 DEF GlobalInit, processes, Orphans
<1>2. CASE CreateGuard
  BY <1>2 DEF CreateGuard, Internal, processes, Orphans
<1>3. CASE Prepare
  BY <1>3 DEF Prepare, Internal, Limited, FirstStep, Orphans, TypeOK
<1>4. CASE SpawnReturns
  BY <1>4 DEF SpawnReturns, Internal, PipeOpen, Setting, processes, Orphans
<1>5. CASE WaitDone
  BY <1>5 DEF WaitDone, processes, TypeOK, Forks, Codes, Waited, Joined,
     Orphans
<1>6. CASE WaitFails
  BY <1>6 DEF WaitFails, Internal, Kill, Orphans
<1>7. CASE KilledExits
  BY <1>7 DEF KilledExits, processes, TypeOK, Forks, Codes, Waited, Joined,
     Orphans
<1>8. CASE ReadOutcome
  BY <1>8 DEF ReadOutcome, processes, TypeOK, Forks, Codes, Waited, Joined,
     Orphans
<1>9. CASE DropKill
  BY <1>9 DEF DropKill, KillAll, Kill, TypeOK, Forks, Codes, Waited, Joined,
     Orphans
<1>10. CASE DropDrain
  BY <1>10 DEF DropDrain, Populated, processes, Orphans
<1>11. CASE TimeLimit
  BY <1>11 DEF TimeLimit, KillAll, KillSession, Kill, TypeOK, Forks, Codes,
     Waited, Joined, Orphans
<1>12. CASE Fork
  BY <1>12 DEF Fork, Orphans, TypeOK
<1>13. CASE Exec
  BY <1>13 DEF Exec, Ended, Orphans, TypeOK
<1>14. CASE Reap
  BY <1>14 DEF Reap, Ended, ReaperCode, Orphans
<1>15. CASE StartHelper
  BY <1>15 DEF StartHelper, Orphans
<1>16. CASE CommandExits
  BY <1>16 DEF CommandExits, Ended, Orphans
<1>17. CASE Crash
  BY <1>17 DEF Crash, Orphans
<1>18. ASSUME NEW p \in Procs, SetupStep(p) PROVE Orphans'
  BY <1>18 DEF SetupStep, Orphans
<1>19. ASSUME NEW p \in Procs, SetupFails(p) PROVE Orphans'
  <2>1. CASE p = "reaper"
    <3>1. at["reaper"] \in {"join", "unshare", "maps", "fork"} /\ isolated
      BY <1>19, <2>1 DEF SetupFails, Forks, ReaperSteps
    <3>2. at["command"] = "none" /\ end["command"] = "none"
      BY <3>1 DEF Forks, TypeOK, Ends
    <3>3. at'["command"] = "none" /\ end'["command"] = "none"
      BY <1>19, <2>1, <3>2 DEF SetupFails, Ended, TypeOK
    <3>4. end'["reaper"] = "setup"
      BY <1>19, <2>1 DEF SetupFails, Ended, TypeOK
    <3>5. QED
      BY <3>3, <3>4 DEF Orphans
  <2>2. CASE p = "command"
    BY <1>19, <2>2 DEF SetupFails, Ended, TypeOK, Forks, Codes, Waited,
       Joined, Orphans
  <2>3. CASE p = "helper"
    BY <1>19, <2>3 DEF SetupFails, Ended, TypeOK, Forks, Codes, Waited,
       Joined, Orphans
  <2>4. QED
    BY <2>1, <2>2, <2>3
<1>20. ASSUME NEW p \in Procs, Die(p) PROVE Orphans'
  BY <1>20 DEF Die, Ended, Orphans, Forks
<1>21. ASSUME NEW p \in Procs, OomKill(p) PROVE Orphans'
  <2>1. CASE p = "reaper"
    BY <1>21, <2>1 DEF OomKill, Ended, TypeOK, Forks, Codes, Waited, Joined,
       Orphans
  <2>2. CASE p = "command"
    BY <1>21, <2>2 DEF OomKill, Ended, TypeOK, Forks, Codes, Waited, Joined,
       Orphans
  <2>3. CASE p = "helper"
    BY <1>21, <2>3 DEF OomKill, Ended, TypeOK, Forks, Codes, Waited, Joined,
       Orphans
  <2>4. QED
    BY <2>1, <2>2, <2>3
<1>22. QED
  BY <1>1, <1>2, <1>3, <1>4, <1>5, <1>6, <1>7, <1>8, <1>9, <1>10, <1>11,
     <1>12, <1>13, <1>14, <1>15, <1>16, <1>17, <1>18, <1>19, <1>20, <1>21
  DEF Next, Worker, Forked

\* Every step keeps the guard: CreateGuard makes the directory, DropDrain
\* removes it when no member is left.
LEMMA GuardedStep ==
  ASSUME Inv, Next
  PROVE  Guarded'
<1> USE DEF Inv, control, outcome, WorkerTo, Alive, Child, NextStep, Procs,
            Early
<1>1. CASE GlobalInit
  BY <1>1 DEF GlobalInit, processes, Guarded
<1>2. CASE CreateGuard
  BY <1>2 DEF CreateGuard, Internal, processes, Guarded, Forks
<1>3. CASE Prepare
  BY <1>3 DEF Prepare, Internal, Limited, FirstStep, Guarded
<1>4. CASE SpawnReturns
  BY <1>4 DEF SpawnReturns, Internal, PipeOpen, Setting, processes, Guarded
<1>5. CASE WaitDone
  BY <1>5 DEF WaitDone, processes, Guarded
<1>6. CASE WaitFails
  BY <1>6 DEF WaitFails, Internal, Kill, Guarded
<1>7. CASE KilledExits
  BY <1>7 DEF KilledExits, processes, Guarded
<1>8. CASE ReadOutcome
  BY <1>8 DEF ReadOutcome, processes, Guarded
<1>9. CASE DropKill
  BY <1>9 DEF DropKill, KillAll, Kill, Guarded
<1>10. CASE DropDrain
  BY <1>10 DEF DropDrain, Populated, processes, TypeOK, Forks, Joined, Guarded
<1>11. CASE TimeLimit
  BY <1>11 DEF TimeLimit, KillAll, KillSession, Kill, Guarded
<1>12. CASE Fork
  BY <1>12 DEF Fork, Guarded
<1>13. CASE Exec
  BY <1>13 DEF Exec, Ended, Guarded
<1>14. CASE Reap
  BY <1>14 DEF Reap, Ended, ReaperCode, Guarded
<1>15. CASE StartHelper
  BY <1>15 DEF StartHelper, Guarded
<1>16. CASE CommandExits
  BY <1>16 DEF CommandExits, Ended, Guarded
<1>17. CASE Crash
  BY <1>17 DEF Crash, Guarded
<1>18. ASSUME NEW p \in Procs, SetupStep(p) PROVE Guarded'
  BY <1>18 DEF SetupStep, Guarded
<1>19. ASSUME NEW p \in Procs, SetupFails(p) PROVE Guarded'
  BY <1>19 DEF SetupFails, Ended, Guarded
<1>20. ASSUME NEW p \in Procs, Die(p) PROVE Guarded'
  BY <1>20 DEF Die, Ended, Guarded
<1>21. ASSUME NEW p \in Procs, OomKill(p) PROVE Guarded'
  BY <1>21 DEF OomKill, Ended, Guarded
<1>22. QED
  BY <1>1, <1>2, <1>3, <1>4, <1>5, <1>6, <1>7, <1>8, <1>9, <1>10, <1>11,
     <1>12, <1>13, <1>14, <1>15, <1>16, <1>17, <1>18, <1>19, <1>20, <1>21
  DEF Next, Worker, Forked

\* No step breaks the invariant.
LEMMA NextInv == Inv /\ [Next]_vars => Inv'
<1> SUFFICES ASSUME Inv, [Next]_vars PROVE Inv'
  OBVIOUS
<1>1. CASE UNCHANGED vars
  <2>1. TypeOK' /\ Forks' /\ Codes'
    BY <1>1 DEF vars, Inv, TypeOK, Forks, Codes
  <2>2. Waited' /\ Joined' /\ Orphans' /\ Guarded'
    BY <1>1 DEF vars, Inv, Waited, Joined, Orphans, Guarded, Alive, Child
  <2>3. QED
    BY <2>1, <2>2 DEF Inv
<1>2. CASE Next
  BY <1>2, TypeOKStep, ForksStep, CodesStep, WaitedStep, JoinedStep,
     OrphansStep, GuardedStep DEF Inv
<1>3. QED
  BY <1>1, <1>2

\* The invariant holds in every state.
LEMMA Invariance == Spec => []Inv
<1>1. QED
  BY InitInv, NextInv, PTL DEF Spec

-----------------------------------------------------------------------------
(* Theorems.                                                               *)

\* Every variable of a stage keeps its type.
THEOREM TypeCorrect == Spec => []TypeOK
<1>1. Inv => TypeOK
  BY DEF Inv
<1>2. QED
  BY <1>1, Invariance, PTL

\* Whatever fails, an exit status of 0 is the command's own: run_sandboxed
\* never takes a failed setup step, a kill or an OOM kill for success.
THEOREM SuccessesAreReal == Spec => []SuccessIsReal
<1>1. Inv => SuccessIsReal
  BY DEF Inv, Codes, Waited, SuccessIsReal, Child
<1>2. QED
  BY <1>1, Invariance, PTL

\* Unless the count of kills cannot be read, was_oom_killed tells of an OOM kill
\* of the reaper or the command in every outcome that run_isolated returns,
\* whatever else fails.
THEOREM OomsAreReported == Spec => []OomReported
<1>1. Inv => OomReported
  BY DEF Inv, Orphans, OomReported
<1>2. QED
  BY <1>1, Invariance, PTL

\* If cgroups can be killed and drained, the Drop of CgroupGuard leaves neither
\* a process nor the directory, whatever else fails and whenever it runs.
THEOREM StagesAreTornDown ==
  Failures \cap {"kill", "drain"} = {} => (Spec => []StageTornDown)
<1> SUFFICES ASSUME Failures \cap {"kill", "drain"} = {}
             PROVE  Spec => []StageTornDown
  OBVIOUS
<1>1. Inv => StageTornDown
  BY DEF Inv, Guarded, StageTornDown
<1>2. QED
  BY <1>1, Invariance, PTL

-----------------------------------------------------------------------------
(* Sandbox implements StageContract.                                       *)

Unstarted == {"none", "pdeath", "mounts", "pivot", "cwd", "privs", "exec"}

\* The command is executed once, and never after its stage.
Closed ==
  /\ at["command"] \in Unstarted => ~ran
  /\ worker = "done" /\ ~isolated => at["command"] \in {"none", "dying", "over"}
  /\ worker = "dead" /\ Container => \A p \in Procs : ~Alive(p)
  /\ worker = "outcome" => result # "internal"
  /\ cgroup \/ worker \in {"create", "drop", "drain"} => isolated

\* Every step keeps that the command is executed once and within the stage.
LEMMA ClosedStep ==
  ASSUME Inv, Closed, [Next]_vars
  PROVE  Closed'
<1> USE DEF control, outcome, WorkerTo, Alive, Child, Procs, Unstarted, Closed
<1>1. TypeOK /\ Forks /\ Waited /\ Guarded
  BY DEF Inv
<1> USE <1>1 DEF TypeOK, Forks, CommandSteps
<1>2. CASE Worker \/ TimeLimit
  <2>1. CASE GlobalInit
    BY <2>1 DEF GlobalInit, processes
  <2>2. CASE CreateGuard
    BY <2>2 DEF CreateGuard, Internal, processes, Early
  <2>3. CASE Prepare
    BY <2>3 DEF Prepare, Internal, FirstStep, Early
  <2>4. CASE SpawnReturns
    BY <2>4 DEF SpawnReturns, Internal, processes
  <2>5. CASE WaitDone
    BY <2>5 DEF WaitDone, processes, Ends
  <2>6. CASE WaitFails
    BY <2>6 DEF WaitFails, Internal, Kill
  <2>7. CASE KilledExits
    BY <2>7 DEF KilledExits, processes
  <2>8. CASE ReadOutcome
    BY <2>8 DEF ReadOutcome, processes, Waited
  <2>9. CASE DropKill
    BY <2>9 DEF DropKill, KillAll, Kill
  <2>10. CASE DropDrain
    BY <2>10 DEF DropDrain, processes
  <2>11. CASE TimeLimit
    BY <2>11 DEF TimeLimit, KillAll, KillSession, Kill
  <2>12. QED
    BY <1>2, <2>1, <2>2, <2>3, <2>4, <2>5, <2>6, <2>7, <2>8, <2>9, <2>10,
       <2>11
    DEF Worker
<1>3. CASE Fork
  BY <1>3 DEF Fork
<1>4. CASE Exec
  BY <1>4 DEF Exec, Ended
<1>5. CASE Reap
  BY <1>5 DEF Reap, Ended
<1>6. CASE StartHelper
  BY <1>6 DEF StartHelper
<1>7. CASE CommandExits
  BY <1>7 DEF CommandExits, Ended
<1>8. CASE Crash
  BY <1>8 DEF Crash
<1>9. ASSUME NEW p \in Procs, SetupStep(p) PROVE Closed'
  BY <1>9 DEF SetupStep, NextStep
<1>10. ASSUME NEW p \in Procs, SetupFails(p) PROVE Closed'
  BY <1>10 DEF SetupFails, Ended
<1>11. ASSUME NEW p \in Procs, Die(p) PROVE Closed'
  BY <1>11 DEF Die, Ended
<1>12. ASSUME NEW p \in Procs, OomKill(p) PROVE Closed'
  BY <1>12 DEF OomKill, Ended
<1>13. CASE UNCHANGED vars
  BY <1>13 DEF vars
<1>14. QED
  BY <1>2, <1>3, <1>4, <1>5, <1>6, <1>7, <1>8, <1>9, <1>10, <1>11, <1>12,
     <1>13
  DEF Next, Worker, Forked

\* If nothing keeps a process alive after its stage, every step of a stage is a
\* step of the contract, or none.
LEMMA StepImplements ==
  ASSUME Container, Failures \cap {"kill", "drain"} = {}, Inv, Closed,
         [Next]_vars
  PROVE  [Contract!Next]_Contract!vars
<1> USE DEF control, outcome, WorkerTo, Alive, Child, Procs, Unstarted, Closed,
        Contract!Next, Contract!Open, Contract!Execute, Contract!Stop,
        Contract!Close, Contract!Lose, Contract!vars
<1>1. TypeOK /\ Forks /\ Codes /\ Waited /\ Guarded
  BY DEF Inv
<1>2. worker = "done" => ~(at["command"] \in {"exec", "run"})
  BY <1>1 DEF Guarded
<1>3. worker' = "done" => ~(at'["command"] \in {"exec", "run"})
  BY NextInv, ClosedStep DEF Inv, Guarded
<1> USE <1>1 DEF TypeOK, Forks, CommandSteps
<1>4. CASE Worker \/ TimeLimit
  <2>1. CASE GlobalInit
    BY <2>1 DEF GlobalInit, processes, Early
  <2>2. CASE CreateGuard
    BY <2>2 DEF CreateGuard, Internal, processes, Early, Succeeded
  <2>3. CASE Prepare
    BY <2>3 DEF Prepare, Internal, FirstStep, Early, Succeeded
  <2>4. CASE SpawnReturns
    BY <2>4 DEF SpawnReturns, Internal, processes, Succeeded
  <2>5. CASE WaitDone
    BY <2>5 DEF WaitDone, processes
  <2>6. CASE WaitFails
    BY <2>6 DEF WaitFails, Internal, Kill, Guarded, Succeeded
  <2>7. CASE KilledExits
    BY <2>7 DEF KilledExits, processes
  <2>8. CASE ReadOutcome
    BY <2>8, <1>3 DEF ReadOutcome, processes, Waited, Codes, Succeeded
  <2>9. CASE DropKill
    BY <2>9 DEF DropKill, KillAll, Kill
  <2>10. CASE DropDrain
    BY <2>10, <1>3 DEF DropDrain, processes, Waited, Codes, Succeeded
  <2>11. CASE TimeLimit
    BY <2>11 DEF TimeLimit, KillAll, KillSession, Kill
  <2>12. QED
    BY <1>4, <2>1, <2>2, <2>3, <2>4, <2>5, <2>6, <2>7, <2>8, <2>9, <2>10,
       <2>11
    DEF Worker
<1>5. CASE Fork
  BY <1>5 DEF Fork, Succeeded
<1>6. CASE Exec
  BY <1>6, <1>2 DEF Exec, Ended, Succeeded, Early
<1>7. CASE Reap
  BY <1>7 DEF Reap, Ended, Succeeded
<1>8. CASE StartHelper
  BY <1>8 DEF StartHelper, Succeeded
<1>9. CASE CommandExits
  BY <1>9 DEF CommandExits, Ended, Succeeded
<1>10. CASE Crash
  BY <1>10 DEF Crash
<1>11. ASSUME NEW p \in Procs, SetupStep(p)
       PROVE  [Contract!Next]_Contract!vars
  BY <1>11 DEF SetupStep, NextStep, Succeeded
<1>12. ASSUME NEW p \in Procs, SetupFails(p)
       PROVE  [Contract!Next]_Contract!vars
  BY <1>12 DEF SetupFails, Ended, Succeeded
<1>13. ASSUME NEW p \in Procs, Die(p)
       PROVE  [Contract!Next]_Contract!vars
  BY <1>13 DEF Die, Ended, Succeeded
<1>14. ASSUME NEW p \in Procs, OomKill(p)
       PROVE  [Contract!Next]_Contract!vars
  BY <1>14 DEF OomKill, Ended, Succeeded
<1>15. CASE UNCHANGED vars
  BY <1>15 DEF vars, Succeeded
<1>16. QED
  BY <1>4, <1>5, <1>6, <1>7, <1>8, <1>9, <1>10, <1>11, <1>12, <1>13, <1>14,
     <1>15
  DEF Next, Forked

\* In a container, and if cgroups can be killed and drained, run_sandboxed
\* keeps the safety part of what grade_task relies on, whatever else fails.
THEOREM StagesKeepContract ==
  Container /\ Failures \cap {"kill", "drain"} = {} =>
    (Spec => Contract!SafeSpec)
<1> SUFFICES ASSUME Container, Failures \cap {"kill", "drain"} = {}
             PROVE  Spec => Contract!SafeSpec
  OBVIOUS
<1>1. Init => Closed
  BY DEF Init, Closed, Procs, Alive, Unstarted
<1>2. Init => Contract!Init
  BY DEF Init, Procs, Contract!Init
<1>3. Inv /\ Closed /\ [Next]_vars => Closed'
  BY ClosedStep
<1>4. Inv /\ Closed /\ [Next]_vars => [Contract!Next]_Contract!vars
  BY StepImplements
<1>5. QED
  BY <1>1, <1>2, <1>3, <1>4, Invariance, PTL DEF Spec, Contract!SafeSpec
=============================================================================
