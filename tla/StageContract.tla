---------------------------- MODULE StageContract ----------------------------
(***************************************************************************)
(* What grade_task relies on when it awaits run_sandboxed for a stage: the *)
(* command is executed at most once and runs only while the stage is open, *)
(* the stage succeeds only if it was executed, and an open stage is closed *)
(* sooner or later unless the worker dies.                                 *)
(***************************************************************************)
VARIABLES
  phase,    \* idle, open, succeeded, failed, or lost with the worker
  ran,      \* whether the command was executed
  running   \* whether the command is executing now

vars == <<phase, ran, running>>

Init ==
  /\ phase = "idle"
  /\ ran = FALSE
  /\ running = FALSE

Open == phase = "idle" /\ phase' = "open" /\ UNCHANGED <<ran, running>>

Execute ==
  /\ phase = "open"
  /\ ~ran
  /\ ran' = TRUE
  /\ running' = TRUE
  /\ UNCHANGED phase

Stop == running' = FALSE /\ UNCHANGED <<phase, ran>>

\* A command that still runs when the stage closes is killed.
Close ==
  /\ phase = "open"
  /\ \/ phase' = "succeeded" /\ ran
     \/ phase' = "failed"
  /\ running' = FALSE
  /\ UNCHANGED ran

\* The worker dies, and the command with it.
Lose ==
  /\ phase \in {"idle", "open"}
  /\ phase' = "lost"
  /\ running' = FALSE
  /\ UNCHANGED ran

Next == Open \/ Execute \/ Stop \/ Close \/ Lose

SafeSpec == Init /\ [][Next]_vars

Spec == SafeSpec /\ WF_vars(Close)
=============================================================================
