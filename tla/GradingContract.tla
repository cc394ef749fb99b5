--------------------------- MODULE GradingContract ---------------------------
(***************************************************************************)
(* What the worker promises to the submission topic, without saying how:   *)
(* every task is eventually answered, and the group's cursor, which is all *)
(* that survives a crash, never moves past a task that has no answer.      *)
(***************************************************************************)
EXTENDS Naturals

CONSTANTS
  Tasks,   \* offsets that hold a task
  End      \* number of messages in the log

VARIABLES
  answered,  \* tasks with at least one result on the result topic
  cursor     \* offset from which a restarted worker reads

contractVars == <<answered, cursor>>

Init ==
  /\ answered = {}
  /\ cursor = 0

\* A result appears for task o.
Answer(o) ==
  /\ answered' = answered \cup {o}
  /\ UNCHANGED cursor

\* The cursor moves anywhere, forwards or back, over answered tasks only.
MoveCursor(c) ==
  /\ \A o \in Tasks : o < c => o \in answered
  /\ cursor' = c
  /\ UNCHANGED answered

Next ==
  \/ \E o \in Tasks : Answer(o)
  \/ \E c \in 0..End : MoveCursor(c)

\* Every task is eventually answered.
Fairness == \A o \in Tasks : WF_contractVars(Answer(o))

SafeSpec == Init /\ [][Next]_contractVars

Spec == SafeSpec /\ Fairness
=============================================================================
