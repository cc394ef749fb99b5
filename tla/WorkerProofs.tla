---------------------------- MODULE WorkerProofs ----------------------------
(***************************************************************************)
(* Theorems about Worker, for every number of workers, permits, messages,  *)
(* crashes, interrupts, evictions and rebalances.                          *)
(***************************************************************************)
EXTENDS Worker, FiniteSetTheorems, TLAPS

-----------------------------------------------------------------------------
(* What an asynchronous commit queue holds after Append and Tail.          *)

\* An element of a queue has the queue's type.
LEMMA ElementType ==
  ASSUME NEW S, NEW q \in Seq(S), NEW i \in 1..Len(q)
  PROVE  q[i] \in S
  OBVIOUS

\* Append brings one element and keeps the others.
LEMMA AppendElement ==
  ASSUME NEW S, NEW q \in Seq(S), NEW e \in S, NEW r, r = Append(q, e),
         NEW i \in 1..Len(r)
  PROVE  r[i] = e \/ (i \in 1..Len(q) /\ r[i] = q[i])
  OBVIOUS

\* Tail brings none.
LEMMA TailElement ==
  ASSUME NEW S, NEW q \in Seq(S), q # <<>>, NEW i \in 1..Len(Tail(q))
  PROVE  i + 1 \in 1..Len(q) /\ Tail(q)[i] = q[i + 1]
  OBVIOUS

\* The head is an element.
LEMMA HeadElement ==
  ASSUME NEW S, NEW q \in Seq(S), q # <<>>
  PROVE  1 \in 1..Len(q) /\ Head(q) = q[1] /\ Head(q) \in S
  OBVIOUS

-----------------------------------------------------------------------------
(* A permit is free exactly when it has no task, and the loop waits for a  *)
(* permit exactly when it holds a message.                                 *)

Busy ==
  \A w \in Workers :
    /\ phase[w] = "permit" <=> held[w] # NoMsg
    /\ \A s \in Slots : stage[w][s] = "idle" <=> job[w][s] = NoMsg

TypeInv == TypeOK /\ Busy

\* The worker starts with the types.
LEMMA InitTypeInv == Init => TypeInv
<1> SUFFICES ASSUME Init PROVE TypeInv
  OBVIOUS
<1> USE WorkerAssumption
    DEF Init, Offsets, NoMsg, NoJobs, AllIdle, Phases, Stages
<1>1. NoJobs \in [Slots -> 0..NumMsgs] /\ AllIdle \in [Slots -> Stages]
  OBVIOUS
<1>2. TypeOK
  <2>1. /\ commitQ \in [Workers -> Seq(1..NumMsgs)]
        /\ job \in [Workers -> [Slots -> 0..NumMsgs]]
        /\ stage \in [Workers -> [Slots -> Stages]]
    BY <1>1
  <2>2. /\ results \in [Offsets -> Nat]
        /\ phase \in [Workers -> Phases]
        /\ held \in [Workers -> 0..NumMsgs]
        /\ position \in [Workers -> 0..NumMsgs]
        /\ interrupted \in [Workers -> BOOLEAN]
    OBVIOUS
  <2>3. /\ committed \in 0..NumMsgs
        /\ members \subseteq Workers
        /\ assigned \subseteq Workers
        /\ unsent \subseteq Offsets
        /\ assigns \in Nat
        /\ faults \in 0..MaxFaults
        /\ moves \in 0..MaxMoves
    OBVIOUS
  <2>4. crashed \in BOOLEAN
    OBVIOUS
  <2>5. QED
    BY ONLY <2>1, <2>2, <2>3, <2>4 DEF TypeOK
<1>3. Busy
  <2> SUFFICES ASSUME NEW w \in Workers
               PROVE  /\ phase[w] # "permit" /\ held[w] = NoMsg
                      /\ \A s \in Slots : stage[w][s] = "idle" /\ job[w][s] = NoMsg
    BY DEF Busy
  <2> QED
    OBVIOUS
<1>4. QED
  BY <1>2, <1>3 DEF TypeInv

\* ack_task_to_topic appends one commit to the worker's queue, or none.
LEMMA AckEffect ==
  ASSUME commitQ \in [Workers -> Seq(1..NumMsgs)],
         NEW w \in Workers, NEW o \in Offsets, AckTaskToTopic(w, o)
  PROVE  /\ commitQ' \in [Workers -> Seq(1..NumMsgs)]
         /\ commitQ'[w] \in {commitQ[w], Append(commitQ[w], o + 1)}
         /\ \A v \in Workers \ {w} : commitQ'[v] = commitQ[v]
<1>1. CASE UNCHANGED commitQ
  BY <1>1
<1>2. CASE commitQ' = [commitQ EXCEPT ![w] = Append(@, o + 1)]
  <2>1. o + 1 \in 1..NumMsgs
    BY WorkerAssumption DEF Offsets
  <2>2. QED
    BY <1>2, <2>1
<1>3. QED
  BY <1>1, <1>2 DEF AckTaskToTopic

\* No step breaks the types, or lets a permit and its job disagree.
LEMMA NextTypeInv == TypeInv /\ [Next]_vars => TypeInv'
<1> SUFFICES ASSUME TypeInv, [Next]_vars
             PROVE  TypeInv'
  OBVIOUS
<1> USE WorkerAssumption
    DEF TypeInv, TypeOK, Busy, Offsets, NoMsg, Phases, Stages, broker, group,
        tasks, history
<1>1. ASSUME NEW w \in Workers, Start(w)
      PROVE  TypeInv'
  BY SMTT(30), <1>1 DEF Start
<1>2. ASSUME NEW w \in Workers, RecvTask(w)
      PROVE  TypeInv'
  BY SMTT(30), <1>2 DEF RecvTask, Fetch
<1>3. ASSUME NEW w \in Workers, SkipUnparseable(w)
      PROVE  TypeInv'
  <2>1. commitQ' \in [Workers -> Seq(1..NumMsgs)]
    BY <1>3, AckEffect DEF SkipUnparseable, Fetch
  <2>2. TypeOK'
    <3>1. /\ position' \in [Workers -> 0..NumMsgs]
          /\ interrupted' \in [Workers -> BOOLEAN]
      BY SMTT(30), <1>3 DEF SkipUnparseable, Fetch
    <3>2. UNCHANGED <<broker, assigned, phase, held, tasks, history>>
      BY <1>3 DEF SkipUnparseable
    <3>3. QED
      BY <2>1, <3>1, <3>2
  <2>3. UNCHANGED <<phase, held, job, stage>>
    BY <1>3 DEF SkipUnparseable
  <2>4. QED
    BY <2>2, <2>3
<1>4. ASSUME NEW w \in Workers, NEW s \in Slots, GrantPermit(w, s)
      PROVE  TypeInv'
  BY SMTT(30), <1>4 DEF GrantPermit
<1>5. ASSUME NEW w \in Workers, StopLoop(w)
      PROVE  TypeInv'
  BY SMTT(30), <1>5 DEF StopLoop
<1>6. ASSUME NEW w \in Workers, Exit(w)
      PROVE  TypeInv'
  BY SMTT(30), <1>6 DEF Exit, DropTasks, LeaveGroup, NoJobs, AllIdle
<1>7. ASSUME NEW w \in Workers, RecvError(w)
      PROVE  TypeInv'
  BY SMTT(30), <1>7 DEF RecvError
<1>8. ASSUME NEW w \in Workers, Interrupt(w)
      PROVE  TypeInv'
  BY SMTT(30), <1>8 DEF Interrupt, Fault
<1>9. ASSUME NEW w \in Workers, Crash(w)
      PROVE  TypeInv'
  BY SMTT(30), <1>9 DEF Crash, Fault, DropTasks, LeaveGroup, NoJobs, AllIdle
<1>10. ASSUME NEW w \in Workers, NEW s \in Slots, GradeDone(w, s)
       PROVE  TypeInv'
  <2>1. stage[w][s] # "idle" /\ job[w][s] \in Offsets
    BY SMTT(30), <1>10 DEF GradeDone
  <2>2. TypeOK'
    BY SMTT(30), <1>10, <2>1 DEF GradeDone
  <2>3. Busy'
    BY SMTT(30), <1>10, <2>1 DEF GradeDone
  <2>4. QED
    BY <2>2, <2>3
<1>11. ASSUME NEW w \in Workers, NEW s \in Slots, SendDelivered(w, s)
       PROVE  TypeInv'
  <2>1. stage[w][s] # "idle" /\ job[w][s] \in Offsets
    BY SMTT(30), <1>11 DEF SendDelivered
  <2>2. TypeOK'
    <3>1. stage' \in [Workers -> [Slots -> Stages]]
      BY SMTT(30), <1>11 DEF SendDelivered
    <3>2. results' \in [Offsets -> Nat]
      BY SMTT(30), <1>11, <2>1 DEF SendDelivered
    <3>3. QED
      BY <1>11, <2>1, <3>1, <3>2 DEF SendDelivered
  <2>3. Busy'
    BY SMTT(30), <1>11, <2>1 DEF SendDelivered
  <2>4. QED
    BY <2>2, <2>3
<1>12. ASSUME NEW w \in Workers, NEW s \in Slots, SendFailed(w, s)
       PROVE  TypeInv'
  <2>1. stage[w][s] # "idle" /\ job[w][s] \in Offsets
    BY SMTT(30), <1>12 DEF SendFailed
  <2>2. TypeOK'
    <3>1. stage' \in [Workers -> [Slots -> Stages]]
      BY SMTT(30), <1>12 DEF SendFailed
    <3>2. PICK n \in 0..1 : results' = [results EXCEPT ![job[w][s]] = @ + n]
      BY <1>12 DEF SendFailed
    <3>3. results' \in [Offsets -> Nat]
      BY <2>1, <3>2
    <3>4. unsent' \subseteq Offsets
      BY <1>12, <2>1 DEF SendFailed
    <3>5. /\ UNCHANGED <<committed, members, assigned, phase, held, position>>
          /\ UNCHANGED <<job, commitQ, interrupted, assigns, faults, moves>>
          /\ crashed' = crashed
      BY SMTT(30), <1>12 DEF SendFailed
    <3>6. crashed' \in BOOLEAN
      BY <3>5
    <3>7. QED
      BY <3>1, <3>3, <3>4, <3>5, <3>6
  <2>3. Busy'
    BY SMTT(30), <1>12, <2>1 DEF SendFailed
  <2>4. QED
    BY <2>2, <2>3
<1>13. ASSUME NEW w \in Workers, NEW s \in Slots, AckTask(w, s)
       PROVE  TypeInv'
  <2>1. stage[w][s] # "idle" /\ job[w][s] \in Offsets
    BY SMTT(30), <1>13 DEF AckTask
  <2>2. TypeOK'
    <3>1. /\ stage' \in [Workers -> [Slots -> Stages]]
          /\ job' \in [Workers -> [Slots -> 0..NumMsgs]]
      BY SMTT(30), <1>13 DEF AckTask
    <3>2. commitQ' \in [Workers -> Seq(1..NumMsgs)]
      BY <1>13, <2>1, AckEffect DEF AckTask
    <3>3. QED
      BY <1>13, <3>1, <3>2 DEF AckTask
  <2>3. Busy'
    BY SMTT(30), <1>13, <2>1 DEF AckTask
  <2>4. QED
    BY <2>2, <2>3
<1>14. ASSUME NEW w \in Workers, Join(w)
       PROVE  TypeInv'
  BY SMTT(30), <1>14 DEF Join
<1>15. ASSUME NEW w \in Workers, Assign(w)
       PROVE  TypeInv'
  BY SMTT(30), <1>15 DEF Assign, AssignTo
<1>16. ASSUME NEW w \in Workers, Rebalance(w)
       PROVE  TypeInv'
  BY SMTT(30), <1>16 DEF Rebalance, AssignTo, Move
<1>17. ASSUME NEW w \in Workers, Evict(w)
       PROVE  TypeInv'
  BY SMTT(30), <1>17 DEF Evict, Move
<1>18. ASSUME NEW w \in Workers, BrokerCommit(w)
       PROVE  TypeInv'
  <2>1. committed' \in 0..NumMsgs
    BY <1>18, HeadElement DEF BrokerCommit
  <2>2. commitQ' \in [Workers -> Seq(1..NumMsgs)]
    BY SMTT(30), <1>18 DEF BrokerCommit
  <2>3. QED
    BY SMTT(30), <1>18, <2>1, <2>2 DEF BrokerCommit
<1>19. CASE UNCHANGED vars
  BY SMTT(30), <1>19 DEF vars
<1>20. QED
  BY <1>1, <1>2, <1>3, <1>4, <1>5, <1>6, <1>7, <1>8, <1>9, <1>10, <1>11,
     <1>12, <1>13, <1>14, <1>15, <1>16, <1>17, <1>18, <1>19
  DEF Next, LoopStep, TaskStep

\* Type correctness: every variable of the worker and of its broker keeps its
\* type, and a permit is free exactly when no task runs under it.
THEOREM TypeCorrect == Spec => [](TypeOK /\ Busy)
  BY InitTypeInv, NextTypeInv, PTL DEF Spec, TypeInv

-----------------------------------------------------------------------------
(* What one step may do, whichever action it is of.  The invariants below  *)
(* follow from these facts alone.                                          *)

\* Answers and failed sends are never taken back.
SettledStays ==
  /\ \A o \in Offsets : results[o] > 0 => results'[o] > 0
  /\ unsent \subseteq unsent'

\* A result is one record, and no step both answers and commits.
ResultsMoves ==
  \/ results' = results
  \/ /\ committed' = committed
     /\ \E o \in Offsets : \E n \in 0..1 : results' = [results EXCEPT ![o] = @ + n]

\* A send that fails is the only source of unsent.
UnsentMoves == unsent' = unsent \/ SendMayFail

\* The broker's offset comes from a queue of commits.
CommittedMoves ==
  \/ committed' = committed
  \/ \E w \in Workers : \E i \in 1..Len(commitQ[w]) : committed' = commitQ[w][i]

\* A commit is queued for an unparseable message that was just fetched, or for
\* the message of a task that is acknowledging.
QueueMoves ==
  \A w \in Workers : \A i \in 1..Len(commitQ'[w]) :
    \/ \E k \in 1..Len(commitQ[w]) : commitQ'[w][i] = commitQ[w][k]
    \/ /\ w \in assigned
       /\ position[w] \in Unparseable
       /\ commitQ'[w][i] = position[w] + 1
    \/ \E s \in Slots :
         /\ stage[w][s] = "acking"
         /\ commitQ'[w][i] = job[w][s] + 1

\* A task starts from the held message, under a free permit.
JobMoves ==
  \A w \in Workers : \A s \in Slots :
    \/ job'[w][s] = NoMsg
    \/ job'[w][s] = job[w][s]
    \/ /\ job[w][s] = NoMsg
       /\ held[w] # NoMsg
       /\ job'[w][s] = held[w]

\* A task acknowledges after its send, for better or worse.
StageMoves ==
  \A w \in Workers : \A s \in Slots : stage'[w][s] = "acking" =>
    /\ job'[w][s] = job[w][s]
    /\ \/ stage[w][s] = "acking"
       \/ results'[job[w][s]] > 0
       \/ job[w][s] \in unsent'

\* The loop holds the message it has just fetched.
HeldMoves ==
  \A w \in Workers :
    \/ held'[w] = NoMsg
    \/ held'[w] = held[w]
    \/ w \in assigned /\ held[w] = NoMsg /\ held'[w] = position[w]

\* An owner's position advances past a message that is held or unparseable, or
\* is reset to the committed offset.
PositionMoves ==
  \A w \in assigned' :
    \/ w \in assigned /\ position'[w] = position[w]
    \/ position'[w] = committed
    \/ /\ w \in assigned
       /\ position[w] \in Offsets
       /\ position'[w] = position[w] + 1
       /\ position[w] \in Unparseable \/ held'[w] = position[w]

\* Worker w has crashed: it holds nothing, not even the partition.
Crashed(w) ==
  /\ crashed
  /\ w \notin assigned
  /\ held[w] = NoMsg
  /\ \A s \in Slots : job[w][s] = NoMsg

\* Nothing leaves a worker's hands unsettled, except in its crash.
HandsKeep ==
  \A w \in Workers :
    \/ Crashed(w)'
    \/ /\ \/ held'[w] = held[w]
          \/ held[w] = NoMsg
          \/ \E s \in Slots : job'[w][s] = held[w]
       /\ \A s \in Slots : \/ job'[w][s] = job[w][s]
                           \/ job[w][s] = NoMsg
                           \/ stage[w][s] = "acking"

\* A crash is remembered.
CrashStays == crashed => crashed'

Moves ==
  /\ SettledStays
  /\ ResultsMoves
  /\ UnsentMoves
  /\ CommittedMoves
  /\ QueueMoves
  /\ JobMoves
  /\ StageMoves
  /\ HeldMoves
  /\ PositionMoves
  /\ HandsKeep
  /\ CrashStays

\* Every step moves offsets, queues and answers only as Moves says.
LEMMA NextMoves == TypeInv /\ [Next]_vars => Moves
<1> SUFFICES ASSUME TypeInv, [Next]_vars
             PROVE  Moves
  OBVIOUS
<1> USE WorkerAssumption
    DEF TypeInv, TypeOK, Busy, Offsets, NoMsg, Phases, Stages, broker, group,
        tasks, history, Moves, SettledStays, ResultsMoves, UnsentMoves,
        CommittedMoves, QueueMoves, JobMoves, StageMoves, HeldMoves, PositionMoves, HandsKeep,
        Crashed, CrashStays
<1>1. ASSUME NEW w \in Workers, Start(w)
      PROVE  Moves
  BY SMTT(30), <1>1 DEF Start
<1>2. ASSUME NEW w \in Workers, RecvTask(w)
      PROVE  Moves
  BY SMTT(30), <1>2 DEF RecvTask, Fetch
<1>3. ASSUME NEW w \in Workers, SkipUnparseable(w)
      PROVE  Moves
  <2>1. QueueMoves
    <3> SUFFICES ASSUME NEW v \in Workers, NEW i \in 1..Len(commitQ'[v])
                 PROVE  \/ \E k \in 1..Len(commitQ[v]) : commitQ'[v][i] = commitQ[v][k]
                        \/ /\ v \in assigned
                           /\ position[v] \in Unparseable
                           /\ commitQ'[v][i] = position[v] + 1
                        \/ \E t \in Slots :
                             /\ stage[v][t] = "acking"
                             /\ commitQ'[v][i] = job[v][t] + 1
      OBVIOUS
    <3>1. CASE v # w
      <4>1. position[w] \in Offsets
        BY <1>3 DEF SkipUnparseable, Fetch
      <4>2. QED
        BY <1>3, <3>1, <4>1, AckEffect DEF SkipUnparseable
    <3>2. CASE v = w
      <4>1. commitQ[w] \in Seq(1..NumMsgs) /\ position[w] + 1 \in 1..NumMsgs
        BY SMTT(30), <1>3 DEF SkipUnparseable, Fetch, AckTaskToTopic
      <4>2. commitQ'[w] \in {commitQ[w], Append(commitQ[w], position[w] + 1)}
        BY SMTT(30), <1>3 DEF SkipUnparseable, Fetch, AckTaskToTopic
      <4>3. \/ commitQ'[w][i] = position[w] + 1
            \/ i \in 1..Len(commitQ[w]) /\ commitQ'[w][i] = commitQ[w][i]
        BY ONLY <3>2, <4>1, <4>2, AppendElement
      <4>4. w \in assigned /\ position[w] \in Unparseable
        BY SMTT(30), <1>3 DEF SkipUnparseable, Fetch, AckTaskToTopic
      <4>5. QED
        BY <3>2, <4>3, <4>4
    <3>3. QED
      BY <3>1, <3>2
  <2>2. /\ SettledStays /\ ResultsMoves /\ UnsentMoves /\ CommittedMoves /\ JobMoves
        /\ StageMoves /\ HeldMoves /\ HandsKeep /\ CrashStays
    BY SMTT(30), <1>3 DEF SkipUnparseable, Fetch
  <2>3. PositionMoves
    BY SMTT(30), <1>3 DEF SkipUnparseable, Fetch
  <2>4. QED
    BY <2>1, <2>2, <2>3
<1>4. ASSUME NEW w \in Workers, NEW s \in Slots, GrantPermit(w, s)
      PROVE  Moves
  BY SMTT(30), <1>4 DEF GrantPermit
<1>5. ASSUME NEW w \in Workers, StopLoop(w)
      PROVE  Moves
  BY SMTT(30), <1>5 DEF StopLoop
<1>6. ASSUME NEW w \in Workers, Exit(w)
      PROVE  Moves
  BY SMTT(30), <1>6 DEF Exit, DropTasks, LeaveGroup, NoJobs, AllIdle
<1>7. ASSUME NEW w \in Workers, RecvError(w)
      PROVE  Moves
  BY SMTT(30), <1>7 DEF RecvError
<1>8. ASSUME NEW w \in Workers, Interrupt(w)
      PROVE  Moves
  BY SMTT(30), <1>8 DEF Interrupt, Fault
<1>9. ASSUME NEW w \in Workers, Crash(w)
      PROVE  Moves
  BY SMTT(30), <1>9 DEF Crash, Fault, DropTasks, LeaveGroup, NoJobs, AllIdle
<1>10. ASSUME NEW w \in Workers, NEW s \in Slots, GradeDone(w, s)
      PROVE  Moves
  BY SMTT(30), <1>10 DEF GradeDone
<1>11. ASSUME NEW w \in Workers, NEW s \in Slots, SendDelivered(w, s)
      PROVE  Moves
  <2> PICK n \in 0..1 : results' = [results EXCEPT ![job[w][s]] = @ + n]
    BY SMTT(30), <1>11 DEF SendDelivered
  <2>1. job[w][s] \in Offsets /\ committed' = committed
    BY SMTT(30), <1>11 DEF SendDelivered
  <2>2. ResultsMoves
    BY <2>1
  <2>3. SettledStays
    <3>1. \A o \in Offsets : results'[o] >= results[o]
      BY <2>1
    <3>2. unsent \subseteq unsent'
      BY SMTT(30), <1>11 DEF SendDelivered
    <3>3. QED
      BY <3>1, <3>2
  <2>4. StageMoves
    BY SMTT(30), <1>11, <2>1 DEF SendDelivered
  <2>5. /\ UnsentMoves /\ CommittedMoves /\ QueueMoves /\ JobMoves /\ HeldMoves
        /\ PositionMoves /\ HandsKeep /\ CrashStays
    BY SMTT(30), <1>11 DEF SendDelivered
  <2>6. QED
    BY <2>2, <2>3, <2>4, <2>5
<1>12. ASSUME NEW w \in Workers, NEW s \in Slots, SendFailed(w, s)
      PROVE  Moves
  <2> PICK n \in 0..1 : results' = [results EXCEPT ![job[w][s]] = @ + n]
    BY <1>12 DEF SendFailed
  <2>1. job[w][s] \in Offsets /\ committed' = committed
    BY SMTT(30), <1>12 DEF SendFailed
  <2>2. ResultsMoves
    BY <2>1
  <2>3. SettledStays
    <3>1. \A o \in Offsets : results'[o] >= results[o]
      BY <2>1
    <3>2. unsent \subseteq unsent'
      BY SMTT(30), <1>12 DEF SendFailed
    <3>3. QED
      BY <3>1, <3>2
  <2>4. StageMoves
    BY SMTT(30), <1>12, <2>1 DEF SendFailed
  <2>5. /\ UnsentMoves /\ CommittedMoves /\ QueueMoves /\ JobMoves /\ HeldMoves
        /\ PositionMoves /\ HandsKeep /\ CrashStays
    BY SMTT(30), <1>12 DEF SendFailed
  <2>6. QED
    BY <2>2, <2>3, <2>4, <2>5
<1>13. ASSUME NEW w \in Workers, NEW s \in Slots, AckTask(w, s)
      PROVE  Moves
  <2>1. QueueMoves
    <3> SUFFICES ASSUME NEW v \in Workers, NEW i \in 1..Len(commitQ'[v])
                 PROVE  \/ \E k \in 1..Len(commitQ[v]) : commitQ'[v][i] = commitQ[v][k]
                        \/ /\ v \in assigned
                           /\ position[v] \in Unparseable
                           /\ commitQ'[v][i] = position[v] + 1
                        \/ \E t \in Slots :
                             /\ stage[v][t] = "acking"
                             /\ commitQ'[v][i] = job[v][t] + 1
      OBVIOUS
    <3>1. CASE v # w
      <4>1. job[w][s] \in Offsets
        BY SMTT(30), <1>13 DEF AckTask
      <4>2. AckTaskToTopic(w, job[w][s])
        BY <1>13 DEF AckTask
      <4>3. commitQ'[v] = commitQ[v]
        BY <3>1, <4>1, <4>2, AckEffect
      <4>4. QED
        BY <4>3
    <3>2. CASE v = w
      <4> PICK e \in 1..NumMsgs : e = job[w][s] + 1
        BY SMTT(30), <1>13 DEF AckTask
      <4>1. commitQ[w] \in Seq(1..NumMsgs)
        OBVIOUS
      <4>2. commitQ'[w] \in {commitQ[w], Append(commitQ[w], e)}
        BY SMTT(30), <1>13 DEF AckTask, AckTaskToTopic
      <4>3. \/ commitQ'[w][i] = e
            \/ i \in 1..Len(commitQ[w]) /\ commitQ'[w][i] = commitQ[w][i]
        <5>1. CASE commitQ'[w] = commitQ[w]
          BY <3>2, <5>1, Zenon
        <5>2. CASE commitQ'[w] = Append(commitQ[w], e)
          <6> DEFINE r == commitQ'[w]
          <6>1. r = Append(commitQ[w], e) /\ i \in 1..Len(r)
            BY ONLY <3>2, <5>2
          <6>2. r[i] = e \/ (i \in 1..Len(commitQ[w]) /\ r[i] = commitQ[w][i])
            <7> HIDE DEF r
            <7> QED
              BY ONLY <4>1, <6>1, AppendElement
          <6>3. QED
            BY <6>2, Zenon
        <5>3. QED
          BY <4>2, <5>1, <5>2
      <4>4. stage[w][s] = "acking"
        BY SMTT(30), <1>13 DEF AckTask, AckTaskToTopic
      <4>5. QED
        BY <3>2, <4>3, <4>4
    <3>3. QED
      BY <3>1, <3>2
  <2>2. SettledStays /\ ResultsMoves /\ UnsentMoves /\ CommittedMoves /\ CrashStays
    BY SMTT(30), <1>13 DEF AckTask
  <2>3. JobMoves /\ StageMoves
    BY SMTT(30), <1>13 DEF AckTask
  <2>4. HeldMoves /\ PositionMoves
    BY SMTT(30), <1>13 DEF AckTask
  <2>5. HandsKeep
    BY SMTT(30), <1>13 DEF AckTask
  <2>6. QED
    BY ONLY <2>1, <2>2, <2>3, <2>4, <2>5 DEF Moves
<1>14. ASSUME NEW w \in Workers, Join(w)
      PROVE  Moves
  BY SMTT(30), <1>14 DEF Join
<1>15. ASSUME NEW w \in Workers, Assign(w)
      PROVE  Moves
  BY SMTT(30), <1>15 DEF Assign, AssignTo
<1>16. ASSUME NEW w \in Workers, Rebalance(w)
      PROVE  Moves
  BY SMTT(30), <1>16 DEF Rebalance, AssignTo, Move
<1>17. ASSUME NEW w \in Workers, Evict(w)
      PROVE  Moves
  BY SMTT(30), <1>17 DEF Evict, Move
<1>18. ASSUME NEW w \in Workers, BrokerCommit(w)
      PROVE  Moves
  <2>1. commitQ[w] \in Seq(1..NumMsgs) /\ commitQ[w] # <<>>
    BY SMTT(30), <1>18 DEF BrokerCommit
  <2>2. CommittedMoves
    BY <1>18, <2>1, HeadElement DEF BrokerCommit
  <2>3. QueueMoves
    <3> SUFFICES ASSUME NEW v \in Workers, NEW i \in 1..Len(commitQ'[v])
                 PROVE  \E k \in 1..Len(commitQ[v]) : commitQ'[v][i] = commitQ[v][k]
      OBVIOUS
    <3>1. CASE v # w
      BY <1>18, <3>1 DEF BrokerCommit
    <3>2. CASE v = w
      <4>1. commitQ'[w] = Tail(commitQ[w])
        BY SMTT(30), <1>18 DEF BrokerCommit
      <4>2. i + 1 \in 1..Len(commitQ[w]) /\ commitQ'[w][i] = commitQ[w][i + 1]
        BY ONLY <2>1, <3>2, <4>1, TailElement
      <4>3. QED
        BY <3>2, <4>2
    <3>3. QED
      BY <3>1, <3>2
  <2>4. QED
    BY <1>18, <2>2, <2>3 DEF BrokerCommit
<1>19. CASE UNCHANGED vars
  BY SMTT(30), <1>19 DEF vars
<1>20. QED
  BY <1>1, <1>2, <1>3, <1>4, <1>5, <1>6, <1>7, <1>8, <1>9, <1>10, <1>11,
     <1>12, <1>13, <1>14, <1>15, <1>16, <1>17, <1>18, <1>19
  DEF Next, LoopStep, TaskStep

-----------------------------------------------------------------------------
(* Produce before commit.                                                  *)

\* A task acknowledges only what its send has settled.
AckSettled ==
  \A w \in Workers : \A s \in Slots :
    stage[w][s] = "acking" => Settled(job[w][s])

\* What is answered or given up stays so.
LEMMA SettledKept ==
  ASSUME TypeInv, SettledStays, NEW o \in Offsets, Settled(o)
  PROVE  Settled(o)'
  BY DEF SettledStays, Settled, Answered

\* A task that acknowledges has a message.
LEMMA AckingJob ==
  ASSUME TypeInv, NEW w \in Workers, NEW s \in Slots, stage[w][s] = "acking"
  PROVE  job[w][s] \in Offsets
<1>1. job[w][s] \in 0..NumMsgs
  BY DEF TypeInv, TypeOK
<1>2. job[w][s] # NumMsgs
  BY DEF TypeInv, Busy, NoMsg
<1>3. QED
  BY <1>1, <1>2, WorkerAssumption DEF Offsets

\* A task comes to its commit only after its result was sent.
LEMMA NextAckSettled == TypeInv /\ AckSettled /\ Moves => AckSettled'
<1> SUFFICES ASSUME TypeInv, AckSettled, Moves,
                    NEW w \in Workers, NEW s \in Slots, stage'[w][s] = "acking"
             PROVE  Settled(job[w][s])'
  BY DEF AckSettled
<1>1. job'[w][s] = job[w][s]
  BY DEF Moves, StageMoves
<1>2. CASE stage[w][s] = "acking"
  <2>1. job[w][s] \in Offsets /\ Settled(job[w][s])
    BY <1>2, AckingJob DEF AckSettled
  <2>2. results'[job[w][s]] > 0 \/ job[w][s] \in Unparseable \/ job[w][s] \in unsent'
    BY <2>1 DEF Moves, SettledStays, Settled, Answered
  <2>3. QED
    BY <1>1, <2>2 DEF Settled, Answered
<1>3. CASE results'[job[w][s]] > 0 \/ job[w][s] \in unsent'
  BY <1>1, <1>3 DEF Settled, Answered
<1>4. QED
  BY <1>2, <1>3 DEF Moves, StageMoves

ProduceInv == TypeInv /\ AckSettled /\ ProduceBeforeCommit

\* No step commits ahead of a result.
LEMMA NextProduceInv == ProduceInv /\ [Next]_vars => ProduceInv'
<1> SUFFICES ASSUME ProduceInv, [Next]_vars
             PROVE  ProduceInv'
  OBVIOUS
<1>1. TypeInv /\ TypeInv' /\ Moves /\ AckSettled /\ AckSettled'
  BY NextTypeInv, NextMoves, NextAckSettled DEF ProduceInv
<1>2. \A o \in Offsets : Settled(o) => Settled(o)'
  BY <1>1, SettledKept DEF Moves
<1>3. ASSUME NEW w \in Workers, NEW i \in 1..Len(commitQ[w])
      PROVE  commitQ[w][i] \in 1..NumMsgs /\ Settled(commitQ[w][i] - 1)
  <2>1. commitQ[w] \in Seq(1..NumMsgs)
    BY <1>1 DEF TypeInv, TypeOK
  <2>2. commitQ[w][i] \in 1..NumMsgs
    BY ONLY <2>1, <1>3, ElementType
  <2>3. Settled(commitQ[w][i] - 1)
    BY DEF ProduceInv, ProduceBeforeCommit
  <2>4. QED
    BY <2>2, <2>3
<1>4. committed' > 0 => Settled(committed - 1)'
  <2>1. CASE committed' = committed
    <3> SUFFICES ASSUME committed > 0
                 PROVE  Settled(committed - 1)'
      BY <2>1
    <3>1. committed - 1 \in Offsets /\ Settled(committed - 1)
      BY <1>1, WorkerAssumption DEF ProduceInv, ProduceBeforeCommit, TypeInv, TypeOK, Offsets
    <3>2. QED
      BY <1>2, <2>1, <3>1 DEF Settled, Answered
  <2>2. ASSUME NEW w \in Workers, NEW i \in 1..Len(commitQ[w]),
               committed' = commitQ[w][i]
        PROVE  Settled(committed - 1)'
    <3>1. commitQ[w][i] - 1 \in Offsets
      BY <1>3, WorkerAssumption DEF Offsets
    <3>2. QED
      BY <1>2, <1>3, <2>2, <3>1 DEF Settled, Answered
  <2>3. QED
    BY <1>1, <2>1, <2>2 DEF Moves, CommittedMoves
<1>5. ASSUME NEW w \in Workers, NEW i \in 1..Len(commitQ'[w])
      PROVE  Settled(commitQ[w][i] - 1)'
  <2>1. ASSUME NEW k \in 1..Len(commitQ[w]), commitQ'[w][i] = commitQ[w][k]
        PROVE  Settled(commitQ[w][i] - 1)'
    <3>1. commitQ[w][k] - 1 \in Offsets
      BY <1>3, WorkerAssumption DEF Offsets
    <3>2. QED
      BY <1>2, <1>3, <2>1, <3>1 DEF Settled, Answered
  <2>2. ASSUME position[w] \in Unparseable, commitQ'[w][i] = position[w] + 1
        PROVE  Settled(commitQ[w][i] - 1)'
    <3>1. commitQ'[w][i] - 1 = position[w]
      BY SMTT(30), <1>1, <2>2 DEF TypeInv, TypeOK
    <3>2. QED
      BY <2>2, <3>1 DEF Settled
  <2>3. ASSUME NEW s \in Slots, stage[w][s] = "acking",
               commitQ'[w][i] = job[w][s] + 1
        PROVE  Settled(commitQ[w][i] - 1)'
    <3>1. job[w][s] \in Offsets
      BY <1>1, <2>3, AckingJob
    <3>2. commitQ'[w][i] - 1 = job[w][s]
      BY <2>3, <3>1 DEF Offsets
    <3>3. Settled(job[w][s]) 
      BY <1>1, <2>3 DEF AckSettled
    <3>4. QED
      BY <1>2, <3>1, <3>2, <3>3 DEF Settled, Answered
  <2>4. QED
    BY <1>1, <2>1, <2>2, <2>3 DEF Moves, QueueMoves
<1>6. QED
  BY <1>1, <1>4, <1>5 DEF ProduceInv, ProduceBeforeCommit

\* Nothing is committed at the start.
LEMMA InitProduceInv == Init => ProduceInv
<1> SUFFICES ASSUME Init PROVE ProduceInv
  OBVIOUS
<1>1. TypeInv
  BY InitTypeInv
<1>2. AckSettled /\ ProduceBeforeCommit
  BY DEF Init, AllIdle, AckSettled, ProduceBeforeCommit
<1>3. QED
  BY <1>1, <1>2 DEF ProduceInv

\* Produce first, commit second, with any number of workers and permits and
\* whatever fails: no offset is committed, nor even queued for commit, before
\* its own task's send returned (evaluate_grader_task).
THEOREM ProducedBeforeCommitted == Spec => []ProduceBeforeCommit
<1>1. ProduceInv => ProduceBeforeCommit
  BY DEF ProduceInv
<1>2. QED
  BY <1>1, InitProduceInv, NextProduceInv, PTL DEF Spec

-----------------------------------------------------------------------------
(* Without a crash nothing is lost.                                        *)

\* Every message below c is settled or in the hands of a live worker.
Covered(c) == \A o \in Offsets : o < c => Settled(o) \/ InHand(o)

\* Where the log is read or committed from: the committed offset, the commits
\* on their way, the messages in hand and the owners' positions.
Frontier(c) ==
  \/ c = committed
  \/ \E w \in Workers : \E i \in 1..Len(commitQ[w]) : c = commitQ[w][i]
  \/ \E w \in Workers : held[w] # NoMsg /\ c = held[w]
  \/ \E w \in Workers : \E s \in Slots : job[w][s] # NoMsg /\ c = job[w][s]
  \/ \E w \in assigned : c = position[w]

\* Everything behind the frontier is covered.  The committed offset alone would
\* not be inductive: it takes its values from the rest of the frontier.
Coverage == ~crashed => \A c \in 0..NumMsgs : Frontier(c) => Covered(c)

\* The frontier advances only over a message that is settled or now in hand.
LEMMA FrontierMoves ==
  ASSUME TypeInv, TypeInv', AckSettled, Moves,
         NEW c \in 0..NumMsgs, Frontier(c)'
  PROVE  \/ Frontier(c)
         \/ \E o \in Offsets : /\ c = o + 1
                               /\ Frontier(o)
                               /\ Settled(o) \/ InHand(o)'
<1>1. CASE c = committed'
  BY <1>1 DEF Moves, CommittedMoves, Frontier
<1>2. ASSUME NEW w \in Workers, NEW i \in 1..Len(commitQ'[w]),
             c = commitQ'[w][i]
      PROVE  \/ Frontier(c)
             \/ \E o \in Offsets : c = o + 1 /\ Frontier(o) /\ Settled(o)
  <2>1. ASSUME NEW k \in 1..Len(commitQ[w]), commitQ'[w][i] = commitQ[w][k]
        PROVE  Frontier(c)
    BY <1>2, <2>1 DEF Frontier
  <2>2. ASSUME w \in assigned, position[w] \in Unparseable,
               commitQ'[w][i] = position[w] + 1
        PROVE  \E o \in Offsets : c = o + 1 /\ Frontier(o) /\ Settled(o)
    BY <1>2, <2>2, WorkerAssumption DEF Frontier, Settled
  <2>3. ASSUME NEW s \in Slots, stage[w][s] = "acking",
               commitQ'[w][i] = job[w][s] + 1
        PROVE  \E o \in Offsets : c = o + 1 /\ Frontier(o) /\ Settled(o)
    <3>1. job[w][s] \in Offsets /\ job[w][s] # NoMsg
      BY <2>3, AckingJob, WorkerAssumption DEF Offsets, NoMsg
    <3>2. Settled(job[w][s])
      BY <2>3 DEF AckSettled
    <3>3. QED
      BY <1>2, <2>3, <3>1, <3>2 DEF Frontier
  <2>4. QED
    BY <2>1, <2>2, <2>3 DEF Moves, QueueMoves
<1>3. ASSUME NEW w \in Workers, held'[w] # NoMsg, c = held'[w]
      PROVE  Frontier(c)
  BY <1>3 DEF Moves, HeldMoves, Frontier
<1>4. ASSUME NEW w \in Workers, NEW s \in Slots, job'[w][s] # NoMsg, c = job'[w][s]
      PROVE  Frontier(c)
  BY <1>4 DEF Moves, JobMoves, Frontier
<1>5. ASSUME NEW w \in assigned', c = position'[w]
      PROVE  \/ Frontier(c)
             \/ \E o \in Offsets : /\ c = o + 1
                                   /\ Frontier(o)
                                   /\ Settled(o) \/ InHand(o)'
  <2>1. w \in Workers
    BY DEF TypeInv, TypeOK
  <2>2. ASSUME w \in assigned, position[w] \in Offsets,
               position'[w] = position[w] + 1,
               position[w] \in Unparseable \/ held'[w] = position[w]
        PROVE  \E o \in Offsets : /\ c = o + 1
                                  /\ Frontier(o)
                                  /\ Settled(o) \/ InHand(o)'
    BY <1>5, <2>1, <2>2 DEF Frontier, Settled, InHand
  <2>3. QED
    BY <1>5, <2>2 DEF Moves, PositionMoves, Frontier
<1>6. QED
  BY <1>1, <1>2, <1>3, <1>4, <1>5 DEF Frontier, NoMsg

\* What is in hand stays in hand until it is settled.
LEMMA HandsMoves ==
  ASSUME TypeInv, AckSettled, Moves, ~crashed', NEW o \in Offsets, InHand(o)
  PROVE  Settled(o) \/ InHand(o)'
<1>1. o # NoMsg
  BY WorkerAssumption DEF Offsets, NoMsg
<1>2. ASSUME NEW w \in Workers, held[w] = o
      PROVE  InHand(o)'
  BY <1>1, <1>2 DEF Moves, HandsKeep, Crashed, InHand
<1>3. ASSUME NEW w \in Workers, NEW s \in Slots, job[w][s] = o
      PROVE  Settled(o) \/ InHand(o)'
  BY <1>1, <1>3 DEF Moves, HandsKeep, Crashed, InHand, AckSettled
<1>4. QED
  BY <1>2, <1>3 DEF InHand

LossInv == TypeInv /\ AckSettled /\ Coverage

\* Without a crash no step leaves a message behind that nobody holds.
LEMMA NextLossInv == LossInv /\ [Next]_vars => LossInv'
<1> SUFFICES ASSUME LossInv, [Next]_vars
             PROVE  LossInv'
  OBVIOUS
<1>1. TypeInv /\ TypeInv' /\ Moves /\ AckSettled /\ AckSettled'
  BY NextTypeInv, NextMoves, NextAckSettled DEF LossInv
<1>2. Coverage'
  <2> SUFFICES ASSUME ~crashed', NEW c \in 0..NumMsgs, Frontier(c)',
                      NEW o \in Offsets, o < c
               PROVE  Settled(o)' \/ InHand(o)'
    BY DEF Coverage, Covered
  <2>1. \A d \in 0..NumMsgs : Frontier(d) => Covered(d)
    BY <1>1 DEF Moves, CrashStays, LossInv, Coverage
  <2>2. Settled(o) \/ InHand(o) => Settled(o)' \/ InHand(o)'
    BY <1>1, SettledKept, HandsMoves DEF Moves
  <2>3. CASE Frontier(c)
    BY <2>1, <2>2, <2>3 DEF Covered
  <2>4. ASSUME NEW p \in Offsets, c = p + 1, Frontier(p),
               Settled(p) \/ InHand(p)'
        PROVE  Settled(o)' \/ InHand(o)'
    <3>1. CASE o = p
      BY <1>1, <2>4, <3>1, SettledKept DEF Moves
    <3>2. CASE o < p
      <4>1. p \in 0..NumMsgs
        BY WorkerAssumption DEF Offsets
      <4>2. QED
        BY <2>1, <2>2, <2>4, <3>2, <4>1 DEF Covered
    <3>3. QED
      BY <2>4, <3>1, <3>2, WorkerAssumption DEF Offsets
  <2>5. QED
    BY <1>1, <2>3, <2>4, FrontierMoves
<1>3. QED
  BY <1>1, <1>2 DEF LossInv

\* Nothing is behind the frontier at the start.
LEMMA InitLossInv == Init => LossInv
<1> SUFFICES ASSUME Init PROVE LossInv
  OBVIOUS
<1>1. TypeInv /\ AckSettled
  BY InitTypeInv, InitProduceInv DEF ProduceInv
<1>2. Coverage
  <2> SUFFICES ASSUME NEW c \in 0..NumMsgs, Frontier(c)
               PROVE  c = 0
    BY WorkerAssumption DEF Coverage, Covered, Offsets
  <2>1. QED
    BY DEF Init, Frontier, NoJobs
<1>3. QED
  BY <1>1, <1>2 DEF LossInv

\* Without a crash no message is lost, at any concurrency and whatever
\* evictions, rebalances and graceful shutdowns happen: a committed message is
\* settled or still in the hands of a live worker (the loop and drain of main).
THEOREM NothingLostWithoutCrash == Spec => []NoLossWithoutCrash
<1>1. LossInv => NoLossWithoutCrash
  BY DEF LossInv, Coverage, Covered, Frontier, NoLossWithoutCrash, TypeInv, TypeOK
<1>2. QED
  BY <1>1, InitLossInv, NextLossInv, PTL DEF Spec

-----------------------------------------------------------------------------
(* With one permit nothing is lost at all, crashes included.               *)

\* The conditions under which the worker keeps its promise.
Serial ==
  /\ \A s, t \in Slots : s = t
  /\ Unparseable = {}
  /\ ~SendMayFail

\* Every message below c has been answered.
Firm(c) == \A o \in Offsets : o < c => Answered(o)

\* Worker w grades o.
Grades(w, o) == \E s \in Slots : job[w][s] = o

\* A worker reads ahead of the answers by what it has in its hands only, and
\* what it commits it reads from there: this is what a second permit breaks.
SerialOrder ==
  /\ unsent = {}
  /\ Firm(committed)
  /\ \A w \in Workers : \A i \in 1..Len(commitQ[w]) : Firm(commitQ[w][i])
  /\ \A w \in Workers : \A s \in Slots : job[w][s] # NoMsg => Firm(job[w][s])
  /\ \A w \in Workers : held[w] # NoMsg =>
       \A o \in Offsets : o < held[w] => Answered(o) \/ Grades(w, o)
  /\ \A w \in assigned : \A o \in Offsets :
       o < position[w] => Answered(o) \/ held[w] = o \/ Grades(w, o)

SerialInv == TypeInv /\ AckSettled /\ SerialOrder

\* With one permit no step overtakes an unanswered message.
LEMMA NextSerialInv ==
  ASSUME Serial
  PROVE  SerialInv /\ [Next]_vars => SerialInv'
<1> SUFFICES ASSUME SerialInv, [Next]_vars
             PROVE  SerialInv'
  OBVIOUS
<1>1. TypeInv /\ TypeInv' /\ Moves /\ AckSettled /\ AckSettled'
  BY NextTypeInv, NextMoves, NextAckSettled DEF SerialInv
<1>2. /\ unsent' = {}
      /\ \A o \in Offsets : Settled(o) => Answered(o)
      /\ \A o \in Offsets : Answered(o) => Answered(o)'
  BY <1>1 DEF Serial, SerialInv, SerialOrder, Moves, UnsentMoves, SettledStays,
              Settled, Answered
<1>3. ASSUME NEW c, Firm(c)
      PROVE  Firm(c)'
  BY <1>2, <1>3 DEF Firm
<1>4. ASSUME NEW w \in Workers, NEW i \in 1..Len(commitQ[w])
      PROVE  Firm(commitQ[w][i])
  BY DEF SerialInv, SerialOrder
<1>5. Firm(committed')
  BY <1>1, <1>4 DEF SerialInv, SerialOrder, Moves, CommittedMoves
<1>6. ASSUME NEW w \in Workers, NEW i \in 1..Len(commitQ'[w])
      PROVE  Firm(commitQ'[w][i])
  <2>1. ASSUME NEW s \in Slots, stage[w][s] = "acking",
               commitQ'[w][i] = job[w][s] + 1
        PROVE  Firm(commitQ'[w][i])
    <3>1. job[w][s] \in Offsets /\ job[w][s] # NoMsg
      BY <1>1, <2>1, AckingJob, WorkerAssumption DEF Offsets, NoMsg
    <3>2. Answered(job[w][s])
      BY <1>1, <1>2, <2>1, <3>1 DEF AckSettled
    <3>3. Firm(job[w][s])
      BY <3>1 DEF SerialInv, SerialOrder
    <3>4. \A o \in Offsets : o < job[w][s] + 1 => o < job[w][s] \/ o = job[w][s]
      BY <3>1, WorkerAssumption DEF Offsets
    <3>5. QED
      BY <2>1, <3>2, <3>3, <3>4 DEF Firm
  <2>2. QED
    BY <1>1, <1>4, <2>1 DEF Moves, QueueMoves, Serial
<1>7. ASSUME NEW w \in Workers, NEW o \in Offsets, Grades(w, o), ~Crashed(w)'
      PROVE  Answered(o) \/ Grades(w, o)'
  <2> PICK s \in Slots : job[w][s] = o
    BY <1>7 DEF Grades
  <2>1. o # NoMsg
    BY WorkerAssumption DEF Offsets, NoMsg
  <2>2. CASE stage[w][s] = "acking"
    BY <1>1, <1>2, <2>2 DEF AckSettled
  <2>3. CASE job'[w][s] = job[w][s]
    BY <2>3 DEF Grades
  <2>4. QED
    BY <1>1, <1>7, <2>1, <2>2, <2>3 DEF Moves, HandsKeep
<1>8. ASSUME NEW w \in Workers, NEW s \in Slots, job'[w][s] # NoMsg
      PROVE  Firm(job'[w][s])
  <2>1. CASE job'[w][s] = job[w][s]
    BY <1>8, <2>1 DEF SerialInv, SerialOrder
  <2>2. CASE job[w][s] = NoMsg /\ held[w] # NoMsg /\ job'[w][s] = held[w]
    <3>1. \A o \in Offsets : ~Grades(w, o)
      BY <2>2, WorkerAssumption DEF Serial, Grades, Offsets, NoMsg
    <3>2. QED
      BY <2>2, <3>1 DEF SerialInv, SerialOrder, Firm
  <2>3. QED
    BY <1>1, <1>8, <2>1, <2>2 DEF Moves, JobMoves
<1>9. ASSUME NEW w \in Workers, held'[w] # NoMsg, NEW o \in Offsets, o < held'[w]
      PROVE  Answered(o)' \/ Grades(w, o)'
  <2>1. ~Crashed(w)'
    BY <1>9 DEF Crashed
  <2>2. CASE held'[w] = held[w]
    BY <1>2, <1>7, <1>9, <2>1, <2>2 DEF SerialInv, SerialOrder
  <2>3. CASE w \in assigned /\ held[w] = NoMsg /\ held'[w] = position[w]
    <3>1. held[w] # o
      BY <2>3, WorkerAssumption DEF Offsets, NoMsg
    <3>2. Answered(o) \/ Grades(w, o)
      BY <1>9, <2>3, <3>1 DEF SerialInv, SerialOrder
    <3>3. QED
      BY <1>2, <1>7, <2>1, <3>2
  <2>4. QED
    BY <1>1, <1>9, <2>2, <2>3 DEF Moves, HeldMoves
<1>10. ASSUME NEW w \in assigned', NEW o \in Offsets, o < position'[w]
       PROVE  Answered(o)' \/ held'[w] = o \/ Grades(w, o)'
  <2>1. w \in Workers /\ ~Crashed(w)'
    BY <1>1 DEF Crashed, TypeInv, TypeOK
  <2>2. CASE w \in assigned /\ o < position[w]
    <3>1. CASE Answered(o) \/ Grades(w, o)
      BY <1>2, <1>7, <2>1, <3>1
    <3>2. CASE held[w] = o
      <4>1. held[w] # NoMsg
        BY <3>2, WorkerAssumption DEF Offsets, NoMsg
      <4>2. held'[w] = held[w] \/ \E s \in Slots : job'[w][s] = held[w]
        BY <1>1, <2>1, <4>1 DEF Moves, HandsKeep
      <4>3. QED
        BY <3>2, <4>2 DEF Grades
    <3>3. QED
      BY <2>2, <3>1, <3>2 DEF SerialInv, SerialOrder
  <2>3. CASE position'[w] = committed
    BY <1>2, <1>10, <2>3 DEF SerialInv, SerialOrder, Firm
  <2>4. ASSUME w \in assigned, position[w] \in Offsets,
               position'[w] = position[w] + 1, held'[w] = position[w]
        PROVE  Answered(o)' \/ held'[w] = o \/ Grades(w, o)'
    <3>1. o < position[w] \/ o = position[w]
      BY <1>10, <2>4, WorkerAssumption DEF Offsets
    <3>2. QED
      BY <2>2, <2>4, <3>1
  <2>5. QED
    BY <1>1, <1>10, <2>2, <2>3, <2>4 DEF Moves, PositionMoves, Serial
<1>11. SerialOrder'
  <2>1. Firm(committed)'
    BY <1>2, <1>5 DEF Firm
  <2>2. ASSUME NEW w \in Workers, NEW i \in 1..Len(commitQ'[w])
        PROVE  Firm(commitQ[w][i])'
    BY <1>2, <1>6 DEF Firm
  <2>3. ASSUME NEW w \in Workers, NEW s \in Slots, job'[w][s] # NoMsg
        PROVE  Firm(job[w][s])'
    BY <1>2, <1>8, <2>3 DEF Firm
  <2>4. QED
    BY <1>2, <1>9, <1>10, <2>1, <2>2, <2>3 DEF SerialOrder, NoMsg
<1>12. QED
  BY <1>1, <1>11 DEF SerialInv

\* With one permit there is nothing to overtake at the start.
LEMMA InitSerialInv == Init => SerialInv
<1> SUFFICES ASSUME Init PROVE SerialInv
  OBVIOUS
<1>1. TypeInv /\ AckSettled
  BY InitTypeInv, InitProduceInv DEF ProduceInv
<1>2. SerialOrder
  BY WorkerAssumption DEF Init, SerialOrder, Firm, Offsets, NoJobs
<1>3. QED
  BY <1>1, <1>2 DEF SerialInv

\* With one permit, parseable payloads and sends that do not fail, a committed
\* task has been answered: "a crash in between replays the task" holds for any
\* number of workers, crashes, evictions and rebalances.
THEOREM SerialLosesNothing == Serial => (Spec => []NoTaskLost)
<1>1. SerialInv => NoTaskLost
  BY DEF SerialInv, SerialOrder, Firm, NoTaskLost
<1>2. ASSUME Serial
      PROVE  Spec => []NoTaskLost
  BY <1>1, <1>2, InitSerialInv, NextSerialInv, PTL DEF Spec
<1>3. QED
  BY <1>2

\* The step of the contract a step of the worker amounts to.
LEMMA NextContract ==
  ASSUME Serial
  PROVE  SerialInv /\ SerialInv' /\ [Next]_vars => [Contract!Next]_Contract!contractVars
<1> SUFFICES ASSUME SerialInv, SerialInv', [Next]_vars
             PROVE  [Contract!Next]_Contract!contractVars
  OBVIOUS
<1>1. TypeInv /\ Moves
  BY NextMoves DEF SerialInv
<1>2. CASE results' = results
  <2>1. committed' \in 0..NumMsgs /\ Firm(committed')
    BY <1>2 DEF SerialInv, SerialOrder, TypeInv, TypeOK, Firm, Answered
  <2>2. Contract!MoveCursor(committed')
    BY <1>2, <2>1 DEF Contract!MoveCursor, Firm, Answered
  <2>3. QED
    BY <2>1, <2>2 DEF Contract!Next
<1>3. ASSUME committed' = committed, NEW o \in Offsets, NEW n \in 0..1,
             results' = [results EXCEPT ![o] = @ + n]
      PROVE  [Contract!Next]_Contract!contractVars
  <2>1. results \in [Offsets -> Nat]
    BY <1>1 DEF TypeInv, TypeOK
  <2>2. CASE n = 0
    BY <1>3, <2>1, <2>2 DEF Contract!contractVars, Answered
  <2>3. CASE n = 1
    <3>1. \A p \in Offsets : results'[p] > 0 <=> results[p] > 0 \/ p = o
      BY <1>3, <2>1, <2>3
    <3>2. Contract!Answer(o)
      BY <1>3, <3>1 DEF Contract!Answer, Answered, Serial
    <3>3. QED
      BY <3>2 DEF Contract!Next, Serial
  <2>4. QED
    BY <2>2, <2>3
<1>4. QED
  BY <1>1, <1>2, <1>3 DEF Moves, ResultsMoves

\* Under the same conditions the worker implements the safety of the grading
\* contract: the cursor moves over answered tasks only.
THEOREM SerialImplementsContract == Serial => (Spec => Contract!SafeSpec)
<1>1. Init => Contract!Init
  BY DEF Init, Contract!Init, Answered
<1>2. ASSUME Serial
      PROVE  Spec => Contract!SafeSpec
  BY <1>1, <1>2, InitSerialInv, NextSerialInv, NextContract, PTL
  DEF Spec, Contract!SafeSpec
<1>3. QED
  BY <1>2
-----------------------------------------------------------------------------
(* Duplicates are paid for by assignments.                                 *)

\* Who may still bring message o an answer: the owners that have yet to read
\* it, the loops that hold it, and the tasks that have not sent yet.
Readers(o) == {w \in assigned : position[w] <= o}
Holders(o) == {w \in Workers : held[w] = o}
Graders(o) ==
  {x \in Workers \X Slots :
     job[x[1]][x[2]] = o /\ stage[x[1]][x[2]] \in {"grading", "sending"}}

FiniteClaims ==
  \A o \in Offsets : /\ IsFiniteSet(Readers(o))
                     /\ IsFiniteSet(Holders(o))
                     /\ IsFiniteSet(Graders(o))

\* Every answer of o, given or still to come, goes back to one assignment.
PaidFor ==
  \A o \in Offsets :
    results[o] + Cardinality(Readers(o)) + Cardinality(Holders(o))
      + Cardinality(Graders(o)) <= assigns

\* No claim on o is new.
KeepClaims(o) ==
  /\ Readers(o)' \subseteq Readers(o)
  /\ Holders(o)' \subseteq Holders(o)
  /\ Graders(o)' \subseteq Graders(o)
  /\ results'[o] = results[o]
  /\ assigns' >= assigns

\* A loop reads o, and holds it from now on.
TakeClaim(o) ==
  /\ \E w \in Readers(o) : /\ Readers(o)' \subseteq Readers(o) \ {w}
                           /\ Holders(o)' \subseteq Holders(o) \cup {w}
  /\ Graders(o)' \subseteq Graders(o)
  /\ results'[o] = results[o]
  /\ assigns' = assigns

\* The message held becomes a task.
SpawnClaim(o) ==
  /\ \E w \in Holders(o), x \in Workers \X Slots :
       /\ Holders(o)' \subseteq Holders(o) \ {w}
       /\ Graders(o)' \subseteq Graders(o) \cup {x}
  /\ Readers(o)' \subseteq Readers(o)
  /\ results'[o] = results[o]
  /\ assigns' = assigns

\* A task sends: its claim becomes an answer.
SpendClaim(o) ==
  /\ \E x \in Graders(o) : Graders(o)' \subseteq Graders(o) \ {x}
  /\ Readers(o)' \subseteq Readers(o)
  /\ Holders(o)' \subseteq Holders(o)
  /\ results'[o] <= results[o] + 1
  /\ assigns' = assigns

\* The partition is assigned: one more owner may read o.
GiveClaim(o) ==
  /\ \E w \in Workers : Readers(o)' \subseteq Readers(o) \cup {w}
  /\ Holders(o)' \subseteq Holders(o)
  /\ Graders(o)' \subseteq Graders(o)
  /\ results'[o] = results[o]
  /\ assigns' = assigns + 1

ClaimMoves ==
  \A o \in Offsets :
    \/ KeepClaims(o)
    \/ TakeClaim(o)
    \/ SpawnClaim(o)
    \/ SpendClaim(o)
    \/ GiveClaim(o)

\* Whoever has sent the result no longer claims, and a result is one record.
LEMMA SendClaims ==
  ASSUME TypeInv, NEW w \in Workers, NEW s \in Slots,
         SendDelivered(w, s) \/ SendFailed(w, s)
  PROVE  ClaimMoves
<1> USE WorkerAssumption DEF TypeInv, TypeOK, Busy, Offsets, NoMsg, Stages
<1>1. /\ stage[w][s] = "sending"
      /\ stage' = [stage EXCEPT ![w][s] = "acking"]
      /\ UNCHANGED <<assigned, held, position, job, assigns>>
  BY DEF SendDelivered, SendFailed, history, group
<1>2. PICK n \in 0..1 : results' = [results EXCEPT ![job[w][s]] = @ + n]
  BY DEF SendDelivered, SendFailed
<1>3. job[w][s] \in Offsets
  BY <1>1
<1>4. \A v \in Workers : \A t \in Slots :
        stage'[v][t] = IF v = w /\ t = s THEN "acking" ELSE stage[v][t]
  BY <1>1
<1> SUFFICES ASSUME NEW o \in Offsets
             PROVE  SpendClaim(o) \/ KeepClaims(o)
  BY DEF ClaimMoves
<1>5. Readers(o)' = Readers(o) /\ Holders(o)' = Holders(o)
  BY <1>1 DEF Readers, Holders
<1>6. Graders(o)' \subseteq Graders(o) \ {<<w, s>>}
  <2>1. \A x \in Graders(o)' : x \in Graders(o) /\ x # <<w, s>>
    BY <1>1, <1>4 DEF Graders
  <2>2. QED
    BY <2>1
<1>7. CASE o = job[w][s]
  <2>1. <<w, s>> \in Graders(o)
    BY <1>1, <1>7 DEF Graders
  <2>2. results'[o] <= results[o] + 1
    BY <1>2, <1>3, <1>7
  <2>3. QED
    BY <1>1, <1>5, <1>6, <2>1, <2>2 DEF SpendClaim
<1>8. CASE o # job[w][s]
  <2>1. results'[o] = results[o]
    BY <1>2, <1>8
  <2>2. QED
    BY <1>1, <1>5, <1>6, <2>1 DEF KeepClaims
<1>9. QED
  BY <1>7, <1>8

\* A message that is read leaves the reader's log, and is held at most.
LEMMA FetchClaims ==
  ASSUME TypeInv, NEW w \in Workers, RecvTask(w) \/ SkipUnparseable(w)
  PROVE  ClaimMoves
<1> USE WorkerAssumption DEF TypeInv, TypeOK, Busy, Offsets, NoMsg
<1>1. /\ w \in assigned
      /\ position[w] \in Offsets
      /\ position' = [position EXCEPT ![w] = @ + 1]
      /\ UNCHANGED <<assigned, tasks, results, assigns>>
      /\ held' = held \/ held' = [held EXCEPT ![w] = position[w]]
  BY DEF RecvTask, SkipUnparseable, Fetch, broker, history
<1> SUFFICES ASSUME NEW o \in Offsets
             PROVE  TakeClaim(o) \/ KeepClaims(o)
  BY DEF ClaimMoves
<1>2. Graders(o)' = Graders(o)
  BY <1>1 DEF Graders, tasks
<1>3. CASE o = position[w]
  <2>1. w \in Readers(o)
    BY <1>1, <1>3 DEF Readers
  <2>2. Readers(o)' \subseteq Readers(o) \ {w}
    BY <1>1, <1>3 DEF Readers
  <2>3. Holders(o)' \subseteq Holders(o) \cup {w}
    BY <1>1 DEF Holders
  <2>4. results'[o] = results[o] /\ assigns' = assigns
    BY <1>1
  <2>5. QED
    BY ONLY <1>2, <2>1, <2>2, <2>3, <2>4 DEF TakeClaim
<1>4. CASE o # position[w]
  <2>1. Readers(o)' \subseteq Readers(o)
    BY <1>1 DEF Readers
  <2>2. Holders(o)' \subseteq Holders(o)
    BY <1>1, <1>4 DEF Holders
  <2>3. QED
    BY <1>1, <1>2, <2>1, <2>2 DEF KeepClaims
<1>5. QED
  BY <1>3, <1>4

\* The task that starts claims what its loop has held.
LEMMA GrantClaims ==
  ASSUME TypeInv, NEW w \in Workers, NEW s \in Slots, GrantPermit(w, s)
  PROVE  ClaimMoves
<1> USE WorkerAssumption DEF TypeInv, TypeOK, Busy, Offsets, NoMsg, Stages
<1>1. /\ held[w] # NoMsg
      /\ job' = [job EXCEPT ![w][s] = held[w]]
      /\ stage' = [stage EXCEPT ![w][s] = "grading"]
      /\ held' = [held EXCEPT ![w] = NoMsg]
      /\ UNCHANGED <<assigned, position, results, assigns>>
  BY DEF GrantPermit, broker, history
<1>2. \A v \in Workers : \A t \in Slots : v # w \/ t # s =>
        job'[v][t] = job[v][t] /\ stage'[v][t] = stage[v][t]
  BY <1>1
<1>3. job'[w][s] = held[w]
  BY <1>1
<1> SUFFICES ASSUME NEW o \in Offsets
             PROVE  SpawnClaim(o) \/ KeepClaims(o)
  BY DEF ClaimMoves
<1>4. Readers(o)' = Readers(o)
  BY <1>1 DEF Readers
<1>5. Holders(o)' \subseteq Holders(o) \ {w}
  BY <1>1 DEF Holders
<1>6. \A x \in Graders(o)' : x \in Graders(o) \/ (x = <<w, s>> /\ held[w] = o)
  BY <1>2, <1>3 DEF Graders
<1>7. CASE held[w] = o
  <2>1. w \in Holders(o) /\ <<w, s>> \in Workers \X Slots
    BY <1>7 DEF Holders
  <2>2. Graders(o)' \subseteq Graders(o) \cup {<<w, s>>}
    BY <1>6
  <2>3. results'[o] = results[o] /\ assigns' = assigns
    BY <1>1
  <2>4. QED
    BY ONLY <1>4, <1>5, <2>1, <2>2, <2>3 DEF SpawnClaim
<1>8. CASE held[w] # o
  BY <1>1, <1>4, <1>5, <1>6, <1>8 DEF KeepClaims
<1>9. QED
  BY <1>7, <1>8

\* An assignment gives one worker the log to read.
LEMMA AssignClaims ==
  ASSUME TypeInv, NEW w \in Workers, AssignTo(w)
  PROVE  ClaimMoves
<1> USE DEF TypeInv, TypeOK
<1>1. /\ assigned' = (assigned \ members) \cup {w}
      /\ position' = [position EXCEPT ![w] = committed]
      /\ assigns' = assigns + 1
      /\ UNCHANGED <<held, tasks, results>>
  BY DEF AssignTo, broker
<1> SUFFICES ASSUME NEW o \in Offsets
             PROVE  GiveClaim(o)
  BY DEF ClaimMoves
<1>2. Readers(o)' \subseteq Readers(o) \cup {w}
  BY <1>1 DEF Readers
<1>3. Holders(o)' = Holders(o) /\ Graders(o)' = Graders(o)
  BY <1>1 DEF Holders, Graders, tasks
<1>4. QED
  BY <1>1, <1>2, <1>3 DEF GiveClaim

\* Every step keeps, hands on, spends or grants claims, one at a time.
LEMMA NextClaims == TypeInv /\ [Next]_vars => ClaimMoves
<1> SUFFICES ASSUME TypeInv, [Next]_vars
             PROVE  ClaimMoves
  OBVIOUS
<1> DEFINE Frame == UNCHANGED <<assigned, held, position, tasks, results, assigns>>
<1>1. ASSUME Frame
      PROVE  ClaimMoves
  BY <1>1 DEF ClaimMoves, KeepClaims, Readers, Holders, Graders, tasks, TypeInv,
              TypeOK
<1>2. ASSUME NEW w \in Workers,
             \/ Start(w) \/ StopLoop(w) \/ RecvError(w) \/ Interrupt(w)
             \/ Evict(w) \/ BrokerCommit(w)
      PROVE  ClaimMoves
  <2>1. Frame
    BY <1>2 DEF Start, StopLoop, RecvError, Interrupt, Evict, BrokerCommit,
                broker, group, history, tasks
  <2>2. QED
    BY <1>1, <2>1
<1>3. ASSUME NEW w \in Workers, Exit(w) \/ Crash(w) \/ Join(w)
      PROVE  ClaimMoves
  <2>1. /\ assigned' = assigned \ {w}
        /\ UNCHANGED <<position, results, assigns>>
        /\ held' = held \/ held' = [held EXCEPT ![w] = NoMsg]
        /\ \/ UNCHANGED tasks
           \/ /\ job' = [job EXCEPT ![w] = NoJobs]
              /\ stage' = [stage EXCEPT ![w] = AllIdle]
    BY <1>3 DEF Exit, Crash, Join, LeaveGroup, DropTasks, history
  <2> SUFFICES ASSUME NEW o \in Offsets
               PROVE  KeepClaims(o)
    BY DEF ClaimMoves
  <2>2. Readers(o)' \subseteq Readers(o)
    BY <2>1 DEF Readers
  <2>3. Holders(o)' \subseteq Holders(o)
    BY <2>1, WorkerAssumption DEF Holders, TypeInv, TypeOK, Offsets, NoMsg
  <2>4. Graders(o)' \subseteq Graders(o)
    <3>1. CASE UNCHANGED tasks
      BY <3>1 DEF Graders, tasks
    <3>2. CASE /\ job' = [job EXCEPT ![w] = NoJobs]
               /\ stage' = [stage EXCEPT ![w] = AllIdle]
      <4>1. \A v \in Workers : \A t \in Slots :
              \/ stage'[v][t] = "idle"
              \/ job'[v][t] = job[v][t] /\ stage'[v][t] = stage[v][t]
        BY <3>2 DEF AllIdle, TypeInv, TypeOK
      <4>2. \A x \in Graders(o)' : x \in Graders(o)
        BY <4>1 DEF Graders
      <4>3. QED
        BY <4>2
    <3>3. QED
      BY <2>1, <3>1, <3>2
  <2>5. QED
    BY <2>1, <2>2, <2>3, <2>4 DEF KeepClaims, TypeInv, TypeOK
<1>4. ASSUME NEW w \in Workers, NEW s \in Slots, GradeDone(w, s) \/ AckTask(w, s)
      PROVE  ClaimMoves
  <2>1. /\ UNCHANGED <<assigned, held, position, results, assigns>>
        /\ \/ /\ stage[w][s] = "grading"
              /\ job' = job
              /\ stage' = [stage EXCEPT ![w][s] = "sending"]
           \/ /\ job' = [job EXCEPT ![w][s] = NoMsg]
              /\ stage' = [stage EXCEPT ![w][s] = "idle"]
    BY <1>4 DEF GradeDone, AckTask, broker, history
  <2> SUFFICES ASSUME NEW o \in Offsets
               PROVE  KeepClaims(o)
    BY DEF ClaimMoves
  <2>2. \A v \in Workers : \A t \in Slots :
          \/ stage'[v][t] = "idle"
          \/ /\ job'[v][t] = job[v][t]
             /\ stage'[v][t] = stage[v][t] \/ stage[v][t] = "grading"
    <3>1. CASE /\ stage[w][s] = "grading"
               /\ job' = job
               /\ stage' = [stage EXCEPT ![w][s] = "sending"]
      BY <3>1 DEF TypeInv, TypeOK
    <3>2. CASE /\ job' = [job EXCEPT ![w][s] = NoMsg]
               /\ stage' = [stage EXCEPT ![w][s] = "idle"]
      BY <3>2 DEF TypeInv, TypeOK
    <3>3. QED
      BY <2>1, <3>1, <3>2
  <2>3. \A x \in Graders(o)' : x \in Graders(o)
    BY <2>2 DEF Graders
  <2>4. Readers(o)' = Readers(o) /\ Holders(o)' = Holders(o)
    BY <2>1 DEF Readers, Holders
  <2>5. QED
    BY <2>1, <2>3, <2>4 DEF KeepClaims, TypeInv, TypeOK
<1>5. CASE UNCHANGED vars
  <2>1. Frame
    BY <1>5 DEF vars, tasks
  <2>2. QED
    BY <1>1, <2>1
<1>6. QED
  BY <1>2, <1>3, <1>4, <1>5, SendClaims, FetchClaims, GrantClaims, AssignClaims
  DEF Next, LoopStep, TaskStep, Assign, Rebalance

\* A set that does not grow.
LEMMA Shrinks ==
  ASSUME NEW S, IsFiniteSet(S), NEW T, T \subseteq S
  PROVE  /\ IsFiniteSet(T)
         /\ Cardinality(S) \in Nat
         /\ Cardinality(T) \in Nat
         /\ Cardinality(T) <= Cardinality(S)
  BY FS_Subset, FS_CardinalityType

\* A set that grows by one element at most.
LEMMA Grows ==
  ASSUME NEW S, IsFiniteSet(S), NEW x, NEW T, T \subseteq S \cup {x}
  PROVE  /\ IsFiniteSet(T)
         /\ Cardinality(S) \in Nat
         /\ Cardinality(T) \in Nat
         /\ Cardinality(T) <= Cardinality(S) + 1
<1>1. /\ IsFiniteSet(S \cup {x})
      /\ Cardinality(S \cup {x}) <= Cardinality(S) + 1
      /\ Cardinality(S) \in Nat
  BY FS_AddElement, FS_CardinalityType
<1>2. QED
  BY <1>1, Shrinks

\* A set that loses an element.
LEMMA Loses ==
  ASSUME NEW S, IsFiniteSet(S), NEW x \in S, NEW T, T \subseteq S \ {x}
  PROVE  /\ IsFiniteSet(T)
         /\ Cardinality(S) \in Nat
         /\ Cardinality(T) \in Nat
         /\ Cardinality(T) + 1 <= Cardinality(S)
<1>1. /\ IsFiniteSet(S \ {x})
      /\ Cardinality(S \ {x}) = Cardinality(S) - 1
      /\ Cardinality(S) \in Nat
  BY FS_RemoveElement, FS_CardinalityType
<1>2. QED
  BY <1>1, Shrinks

ClaimInv == TypeInv /\ FiniteClaims /\ PaidFor

\* The claims on one message stay finite and within the assignments.
LEMMA ClaimBalance ==
  ASSUME TypeInv, TypeInv', FiniteClaims, PaidFor, ClaimMoves, NEW o \in Offsets
  PROVE  /\ IsFiniteSet(Readers(o)')
         /\ IsFiniteSet(Holders(o)')
         /\ IsFiniteSet(Graders(o)')
         /\ results'[o] + Cardinality(Readers(o)') + Cardinality(Holders(o)')
              + Cardinality(Graders(o)') <= assigns'
<1>1. /\ results[o] \in Nat /\ results'[o] \in Nat
      /\ assigns \in Nat /\ assigns' \in Nat
  BY DEF TypeInv, TypeOK
<1>2. /\ IsFiniteSet(Readers(o)) /\ IsFiniteSet(Holders(o))
      /\ IsFiniteSet(Graders(o))
  BY DEF FiniteClaims
<1>3. results[o] + Cardinality(Readers(o)) + Cardinality(Holders(o))
        + Cardinality(Graders(o)) <= assigns
  BY DEF PaidFor
<1> DEFINE Kept(S, T) == /\ IsFiniteSet(T)
                         /\ Cardinality(S) \in Nat
                         /\ Cardinality(T) \in Nat
                         /\ Cardinality(T) <= Cardinality(S)
           More(S, T) == /\ IsFiniteSet(T)
                         /\ Cardinality(S) \in Nat
                         /\ Cardinality(T) \in Nat
                         /\ Cardinality(T) <= Cardinality(S) + 1
           Less(S, T) == /\ IsFiniteSet(T)
                         /\ Cardinality(S) \in Nat
                         /\ Cardinality(T) \in Nat
                         /\ Cardinality(T) + 1 <= Cardinality(S)
<1>4. CASE KeepClaims(o)
  <2>1. /\ Kept(Readers(o), Readers(o)')
        /\ Kept(Holders(o), Holders(o)')
        /\ Kept(Graders(o), Graders(o)')
    BY <1>2, <1>4, Shrinks DEF KeepClaims
  <2>2. QED
    BY <1>1, <1>3, <1>4, <2>1 DEF KeepClaims
<1>5. CASE TakeClaim(o)
  <2>1. /\ Less(Readers(o), Readers(o)')
        /\ More(Holders(o), Holders(o)')
        /\ Kept(Graders(o), Graders(o)')
    BY <1>2, <1>5, Shrinks, Grows, Loses DEF TakeClaim
  <2>2. QED
    BY <1>1, <1>3, <1>5, <2>1 DEF TakeClaim
<1>6. CASE SpawnClaim(o)
  <2>1. /\ Kept(Readers(o), Readers(o)')
        /\ Less(Holders(o), Holders(o)')
        /\ More(Graders(o), Graders(o)')
    BY <1>2, <1>6, Shrinks, Grows, Loses DEF SpawnClaim
  <2>2. QED
    BY <1>1, <1>3, <1>6, <2>1 DEF SpawnClaim
<1>7. CASE SpendClaim(o)
  <2>1. /\ Kept(Readers(o), Readers(o)')
        /\ Kept(Holders(o), Holders(o)')
        /\ Less(Graders(o), Graders(o)')
    BY <1>2, <1>7, Shrinks, Loses DEF SpendClaim
  <2>2. QED
    BY <1>1, <1>3, <1>7, <2>1 DEF SpendClaim
<1>8. CASE GiveClaim(o)
  <2>1. /\ More(Readers(o), Readers(o)')
        /\ Kept(Holders(o), Holders(o)')
        /\ Kept(Graders(o), Graders(o)')
    BY <1>2, <1>8, Shrinks, Grows DEF GiveClaim
  <2>2. QED
    BY <1>1, <1>3, <1>8, <2>1 DEF GiveClaim
<1>9. QED
  BY <1>4, <1>5, <1>6, <1>7, <1>8 DEF ClaimMoves

\* No step answers without spending a claim.
LEMMA NextClaimInv == ClaimInv /\ [Next]_vars => ClaimInv'
<1> SUFFICES ASSUME ClaimInv, [Next]_vars
             PROVE  ClaimInv'
  OBVIOUS
<1>1. TypeInv /\ TypeInv' /\ FiniteClaims /\ PaidFor /\ ClaimMoves
  BY NextTypeInv, NextClaims DEF ClaimInv
<1>2. FiniteClaims' /\ PaidFor'
  BY <1>1, ClaimBalance DEF FiniteClaims, PaidFor, Offsets
<1>3. QED
  BY <1>1, <1>2 DEF ClaimInv

\* There are no claims before the first assignment.
LEMMA InitClaimInv == Init => ClaimInv
<1> SUFFICES ASSUME Init PROVE ClaimInv
  OBVIOUS
<1>1. TypeInv
  BY InitTypeInv
<1>2. ASSUME NEW o \in Offsets
      PROVE  Readers(o) = {} /\ Holders(o) = {} /\ Graders(o) = {}
  BY WorkerAssumption DEF Init, Readers, Holders, Graders, AllIdle, Offsets, NoMsg
<1>3. \A o \in Offsets : results[o] = 0
  BY DEF Init
<1>4. assigns = 0
  BY DEF Init
<1>5. FiniteClaims /\ PaidFor
  BY <1>2, <1>3, <1>4, FS_EmptySet DEF FiniteClaims, PaidFor
<1>6. QED
  BY <1>1, <1>5 DEF ClaimInv

\* At-least-once has a bounded price: no task is answered more often than the
\* partition was assigned, for any number of workers and permits, whatever
\* crashes, zombies and failing sends there are (evaluate_grader_task).
THEOREM DuplicatesAreBounded == Spec => []DuplicatesBounded
<1>1. ClaimInv => DuplicatesBounded
  <2> SUFFICES ASSUME ClaimInv, NEW o \in Offsets
               PROVE  results[o] <= assigns
    BY DEF DuplicatesBounded
  <2>1. /\ Cardinality(Readers(o)) \in Nat
        /\ Cardinality(Holders(o)) \in Nat
        /\ Cardinality(Graders(o)) \in Nat
    BY FS_CardinalityType DEF ClaimInv, FiniteClaims
  <2>2. results[o] \in Nat /\ assigns \in Nat
    BY DEF ClaimInv, TypeInv, TypeOK
  <2>3. QED
    BY <2>1, <2>2 DEF ClaimInv, PaidFor
<1>2. QED
  BY <1>1, InitClaimInv, NextClaimInv, PTL DEF Spec
=============================================================================
