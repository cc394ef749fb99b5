------------------------------- MODULE Sandbox -------------------------------
(***************************************************************************)
(* One sandboxed stage, process by process: the worker's thread inside     *)
(* run_isolated, the reaper it forks, the command that the reaper forks as *)
(* init of a new pid namespace, a helper the command starts, the kernel,   *)
(* and the cgroup that holds them.  run_unisolated is the same worker with *)
(* the command as its own child and no cgroup.                             *)
(***************************************************************************)
EXTENDS Naturals

CONSTANTS
  Modes,     \* values of GRADER_ISOLATION to consider
  Container, \* whether the worker is the first process of its container
  Failures   \* what may fail on the worker's side

FailureKinds == {"delegate", "cgroup", "prep", "setup", "exec", "wait", "kill",
                 "drain", "events"}

ASSUME SandboxAssumption ==
  /\ Modes \subseteq BOOLEAN
  /\ Container \in BOOLEAN
  /\ Failures \subseteq FailureKinds

VARIABLES
  isolated,   \* GRADER_ISOLATION
  worker,     \* the worker's step in run_sandboxed
  delegated,  \* whether the controllers are delegated to children of the root
  cgroup,     \* whether the stage's cgroup directory exists
  members,    \* processes that were put into the cgroup
  at,         \* at[p]: the step process p is at
  end,        \* end[p]: how p ended
  pdeath,     \* PDEATHSIG of the command is set and its reaper was alive then
  oom,        \* memory.events of the cgroup counts an OOM kill
  ran,        \* history: the command was executed
  unread,     \* history: memory.events could not be read
  timedOut, oomKilled, result  \* SandboxOutcome; result "internal" is an Err

outcome == <<unread, timedOut, oomKilled, result>>
control == <<isolated, worker, delegated, cgroup>>
vars == <<isolated, worker, delegated, cgroup, members, at, end, pdeath, oom,
          ran, unread, timedOut, oomKilled, result>>

Procs == {"reaper", "command", "helper"}

\* Mutant of NextStep: the judge's seccomp step is still there.
StepWithSeccomp ==
  [join |-> "unshare", unshare |-> "maps", maps |-> "fork",
   pdeath |-> "mounts", mounts |-> "pivot", pivot |-> "cwd", cwd |-> "privs",
   privs |-> "seccomp"]

\* The steps of the pre_exec closure that only lead to the next: the reaper's
\* up to the fork, then those of the new init.
NextStep ==
  [join |-> "unshare", unshare |-> "maps", maps |-> "fork",
   pdeath |-> "mounts", mounts |-> "pivot", pivot |-> "cwd", cwd |-> "privs",
   privs |-> "exec"]

Steps == DOMAIN NextStep \cup
         {"none", "fork", "reap", "exec", "run", "dying", "over"}
Ends  == {"none", "ok", "nonzero", "setup", "noexec", "signal", "oom"}

WorkerSteps == {"init", "create", "prep", "spawn", "wait", "killed", "outcome",
                "drop", "drain", "done", "dead"}

TypeOK ==
  /\ isolated \in Modes
  /\ worker \in WorkerSteps
  /\ delegated \in BOOLEAN
  /\ cgroup \in BOOLEAN
  /\ members \subseteq Procs
  /\ at \in [Procs -> Steps]
  /\ end \in [Procs -> Ends]
  /\ pdeath \in BOOLEAN
  /\ oom \in BOOLEAN
  /\ ran \in BOOLEAN
  /\ unread \in BOOLEAN
  /\ timedOut \in BOOLEAN
  /\ oomKilled \in BOOLEAN
  /\ result \in Ends \cup {"internal"}

Init ==
  /\ isolated \in Modes
  /\ worker = "init"
  /\ delegated = FALSE
  /\ cgroup = FALSE
  /\ members = {}
  /\ at = [p \in Procs |-> "none"]
  /\ end = [p \in Procs |-> "none"]
  /\ pdeath = FALSE
  /\ oom = FALSE
  /\ ran = FALSE
  /\ unread = FALSE
  /\ timedOut = FALSE
  /\ oomKilled = FALSE
  /\ result = "none"

Alive(p) == at[p] \notin {"none", "over"}
Setting(p) == at[p] \in DOMAIN NextStep \cup {"fork", "exec"}

\* The process the worker waits for.
Child == IF isolated THEN "reaper" ELSE "command"

WorkerTo(step) == worker' = step

-----------------------------------------------------------------------------
(* How processes end.                                                      *)

\* SIGKILL: a process dies of it only when it is scheduled next.
Kill(P) ==
  at' = [p \in Procs |-> IF p \in P /\ Alive(p) THEN "dying" ELSE at[p]]

\* The end of a pid namespace's init takes the namespace along; the end of
\* the reaper signals an init that has set PDEATHSIG.
Ended(p, how) ==
  /\ at' = [q \in Procs |->
       CASE q = p -> "over"
         [] isolated /\ p = "command" /\ q = "helper" /\ Alive(q) -> "over"
         [] p = "reaper" /\ q = "command" /\ pdeath /\ Alive(q) -> "dying"
         [] OTHER -> at[q]]
  /\ end' = [end EXCEPT ![p] = how]

Die(p) ==
  /\ at[p] = "dying"
  /\ Ended(p, "signal")
  /\ UNCHANGED <<control, members, pdeath, oom, ran, outcome>>

\* The kernel's OOM killer picks any process of the cgroup.
OomKill(p) ==
  /\ p \in members
  /\ Alive(p)
  /\ at[p] # "dying"
  /\ oom' = TRUE
  /\ Ended(p, "oom")
  /\ UNCHANGED <<control, members, pdeath, ran, outcome>>

-----------------------------------------------------------------------------
(* The forked child, up to exec.                                           *)

\* write_all of the pid to cgroup.procs, unshare, the id maps; then PDEATHSIG,
\* the mounts, pivot_root, chdir, the rlimits and NO_NEW_PRIVS.
SetupStep(p) ==
  /\ at[p] \in DOMAIN NextStep
  /\ at' = [at EXCEPT ![p] = NextStep[@]]
  /\ members' = IF at[p] = "join" THEN members \cup {p} ELSE members
  /\ pdeath' = (pdeath \/ (at[p] = "pdeath" /\ Alive("reaper")))
  /\ UNCHANGED <<control, end, oom, ran, outcome>>

\* _exit(101..117, 130, 150..152)
SetupFails(p) ==
  /\ at[p] \in DOMAIN NextStep \cup {"fork"}
  /\ "setup" \in Failures
  /\ Ended(p, "setup")
  /\ UNCHANGED <<control, members, pdeath, oom, ran, outcome>>

\* The child of the fork inherits the cgroup.
Fork ==
  /\ at["reaper"] = "fork"
  /\ at' = [at EXCEPT !["reaper"] = "reap", !["command"] = "pdeath"]
  /\ members' = members \cup (IF "reaper" \in members THEN {"command"} ELSE {})
  /\ UNCHANGED <<control, end, pdeath, oom, ran, outcome>>

\* An exec that fails is reported through the pipe that spawn() reads.
Exec ==
  /\ at["command"] = "exec"
  /\ \/ /\ at' = [at EXCEPT !["command"] = "run"]
        /\ ran' = TRUE
        /\ UNCHANGED end
     \/ /\ "exec" \in Failures
        /\ Ended("command", "noexec")
        /\ UNCHANGED ran
  /\ UNCHANGED <<control, members, pdeath, oom, outcome>>

\* Mutant of ReaperCode: WEXITSTATUS of a signalled status is 0.
ReaperCodeUnchecked(how) == IF how \in {"signal", "oom"} THEN "ok" ELSE how

\* The exit code of the reaper: the command's, or 128 + signal.  Its waitpid,
\* for its one child, is taken to succeed (otherwise _exit(104)).
ReaperCode(how) ==
  IF how \in {"signal", "oom", "noexec"} THEN "nonzero" ELSE how

Reap ==
  /\ at["reaper"] = "reap"
  /\ at["command"] = "over"
  /\ Ended("reaper", ReaperCode(end["command"]))
  /\ UNCHANGED <<control, members, pdeath, oom, ran, outcome>>

-----------------------------------------------------------------------------
(* The command and what it starts.                                         *)

StartHelper ==
  /\ at["command"] = "run"
  /\ at["helper"] = "none"
  /\ at' = [at EXCEPT !["helper"] = "run"]
  /\ members' = members \cup (IF "command" \in members THEN {"helper"} ELSE {})
  /\ UNCHANGED <<control, end, pdeath, oom, ran, outcome>>

CommandExits ==
  /\ at["command"] = "run"
  /\ \E how \in {"ok", "nonzero"} : Ended("command", how)
  /\ UNCHANGED <<control, members, pdeath, oom, ran, outcome>>

-----------------------------------------------------------------------------
(* The worker's thread.                                                    *)

\* What the steps below leave alone.
processes == <<members, at, end, pdeath, oom, ran>>

\* Err(GraderError::internal): the guard is dropped if there is one.
Internal ==
  /\ result' = "internal"
  /\ WorkerTo(IF cgroup THEN "drop" ELSE "done")
  /\ UNCHANGED <<unread, timedOut, oomKilled>>

\* initialize_global_cgroups_once: an error is only logged, and never retried.
GlobalInit ==
  /\ worker = "init"
  /\ IF isolated
     THEN /\ \/ delegated' = TRUE
             \/ "delegate" \in Failures /\ delegated' = FALSE
          /\ WorkerTo("create")
     ELSE /\ UNCHANGED delegated
          /\ WorkerTo("prep")
  /\ UNCHANGED <<isolated, cgroup, processes, outcome>>

\* CgroupGuard::create
CreateGuard ==
  /\ worker = "create"
  /\ \/ cgroup' = TRUE /\ WorkerTo("prep") /\ UNCHANGED outcome
     \/ "cgroup" \in Failures /\ Internal /\ UNCHANGED cgroup
  /\ UNCHANGED <<isolated, delegated, processes>>

\* Mutant of FirstStep: the limits are joined later, if at all.
UnlimitedStep == "unshare"

\* The first thing the forked child does is to join the cgroup.
FirstStep == "join"

\* apply_limits: without delegation there is no memory.max to write, and that
\* error is not ignored.
Limited == isolated => delegated

\* apply_limits, the log, the directories, and the fork inside spawn().
Prepare ==
  /\ worker = "prep"
  /\ \/ /\ Limited
        /\ at' = [at EXCEPT ![Child] = IF isolated THEN FirstStep ELSE "exec"]
        /\ WorkerTo("spawn")
        /\ UNCHANGED outcome
     \/ /\ "prep" \in Failures \/ ~Limited
        /\ Internal
        /\ UNCHANGED at
  /\ UNCHANGED <<isolated, delegated, cgroup, members, end, pdeath, oom, ran>>

\* Mutant of PipeOpen: the reaper keeps its descriptors.
PipeKept ==
  \/ \E p \in {"reaper", "command"} : Setting(p)
  \/ at["command"] = "dying" /\ ~ran
  \/ at["reaper"] = "reap"

\* The close-on-exec pipe through which spawn() learns of exec is open in the
\* forked processes before that, but the reaper closes its end.  No time limit
\* is armed yet.
PipeOpen ==
  \/ \E p \in {"reaper", "command"} : Setting(p)
  \/ at["command"] = "dying" /\ ~ran

SpawnReturns ==
  /\ worker = "spawn"
  /\ ~PipeOpen
  /\ IF end["command"] = "noexec"
     THEN at[Child] = "over" /\ Internal
     ELSE WorkerTo("wait") /\ UNCHANGED outcome
  /\ UNCHANGED <<isolated, delegated, cgroup, processes>>

\* child.wait() within the time limit
WaitDone ==
  /\ worker = "wait"
  /\ at[Child] = "over"
  /\ result' = end[Child]
  /\ WorkerTo("outcome")
  /\ UNCHANGED <<isolated, delegated, cgroup, processes, unread, timedOut,
                 oomKilled>>

\* cgroup.kill; a failure is only logged.
KillAll ==
  \/ Kill(members)
  \/ "kill" \in Failures /\ UNCHANGED at

\* Without a cgroup the session is killed, and the child itself; the helper
\* may have left for a session of its own.
KillSession == \E left \in SUBSET {"helper"} : Kill({"command", "helper"} \ left)

\* The limit is measured from the return of spawn().
TimeLimit ==
  /\ worker = "wait"
  /\ IF isolated THEN KillAll ELSE KillSession
  /\ timedOut' = TRUE
  /\ WorkerTo("killed")
  /\ UNCHANGED <<isolated, delegated, cgroup, members, end, pdeath, oom, ran,
                 unread, oomKilled, result>>

\* wait() itself fails: kill_on_drop kills the child.
WaitFails ==
  /\ worker = "wait"
  /\ "wait" \in Failures
  /\ Kill({Child})
  /\ Internal
  /\ UNCHANGED <<isolated, delegated, cgroup, members, end, pdeath, oom, ran>>

\* The wait() after the kill, which has no limit; the status is made up.
KilledExits ==
  /\ worker = "killed"
  /\ at[Child] = "over"
  /\ result' = "signal"
  /\ WorkerTo("outcome")
  /\ UNCHANGED <<isolated, delegated, cgroup, processes, unread, timedOut,
                 oomKilled>>

\* Mutant of ReadOutcome: memory.events is read after the guard's drop.
ReadOutcomeLate ==
  /\ worker = "outcome"
  /\ WorkerTo(IF isolated THEN "drop" ELSE "done")
  /\ UNCHANGED <<isolated, delegated, cgroup, processes, outcome>>

\* was_oom_killed, for which a memory.events that cannot be read is an empty
\* one; the guard drops when run_isolated returns.
ReadOutcome ==
  /\ worker = "outcome"
  /\ \/ oomKilled' = oom /\ UNCHANGED unread
     \/ /\ isolated
        /\ "events" \in Failures
        /\ oomKilled' = FALSE
        /\ unread' = TRUE
  /\ WorkerTo(IF isolated THEN "drop" ELSE "done")
  /\ UNCHANGED <<isolated, delegated, cgroup, processes, timedOut, result>>

\* Drop of CgroupGuard: kill,
DropKill ==
  /\ worker = "drop"
  /\ KillAll
  /\ WorkerTo("drain")
  /\ UNCHANGED <<isolated, delegated, cgroup, members, end, pdeath, oom, ran, outcome>>

Populated == \E p \in members : Alive(p)

\* Mutant of DropDrain: rmdir at once.
DropAtOnce ==
  /\ worker = "drain"
  /\ cgroup' = Populated
  /\ WorkerTo("done")
  /\ UNCHANGED <<isolated, delegated, processes, outcome>>

\* poll until the cgroup is empty, or give up after 250 polls, and rmdir,
\* which fails with EBUSY while it is populated.
DropDrain ==
  /\ worker = "drain"
  /\ Populated => Failures \cap {"kill", "drain"} # {}
  /\ cgroup' = Populated
  /\ WorkerTo("done")
  /\ UNCHANGED <<isolated, delegated, processes, outcome>>

\* The worker is killed.  With the first process of a container everything in
\* it ends; otherwise nothing else does.
Crash ==
  /\ worker \notin {"done", "dead"}
  /\ WorkerTo("dead")
  /\ at' = [p \in Procs |-> IF Container /\ Alive(p) THEN "over" ELSE at[p]]
  /\ UNCHANGED <<isolated, delegated, cgroup, members, end, pdeath, oom, ran, outcome>>

-----------------------------------------------------------------------------
Worker ==
  \/ GlobalInit
  \/ CreateGuard
  \/ Prepare
  \/ SpawnReturns
  \/ WaitDone
  \/ WaitFails
  \/ KilledExits
  \/ ReadOutcome
  \/ DropKill
  \/ DropDrain

\* The steps of the closure, the reaper's wait, and the kernel's kill.
Forked(p) == SetupStep(p) \/ SetupFails(p) \/ Die(p)

Next ==
  \/ Worker
  \/ TimeLimit
  \/ \E p \in Procs : Forked(p) \/ OomKill(p)
  \/ Fork
  \/ Exec
  \/ Reap
  \/ StartHelper
  \/ CommandExits
  \/ Crash

Spec == Init /\ [][Next]_vars

\* The worker's thread and timer run and system calls return; a command need
\* not end.
Fairness ==
  /\ WF_vars(Worker)
  /\ WF_vars(TimeLimit)
  /\ WF_vars(Fork)
  /\ WF_vars(Exec)
  /\ WF_vars(Reap)
  /\ \A p \in Procs : WF_vars(Forked(p))

FairSpec == Spec /\ Fairness

-----------------------------------------------------------------------------
(* Properties.                                                             *)

\* When run_isolated has returned, however it did, no process of the stage is
\* left and its cgroup directory is gone, also when the OOM killer took the
\* reaper before the command had set PDEATHSIG (Drop of CgroupGuard).
StageTornDown ==
  worker = "done" /\ isolated => ~cgroup /\ \A p \in Procs : ~Alive(p)

\* An exit status of 0 is the command's own: a failed setup, a kill or an OOM
\* kill is never read as success (the reaper's exit codes).
SuccessIsReal ==
  worker = "done" /\ result = "ok" => ran /\ end["command"] = "ok"

\* If the OOM killer ended the reaper or the command, the outcome says so,
\* whatever the exit status was, unless the worker gave up on the stage or
\* could not read the count of kills (was_oom_killed).
OomReported ==
  (/\ worker = "done"
   /\ result # "internal"
   /\ "oom" \in {end["reaper"], end["command"]}) => oomKilled \/ unread
=============================================================================
