------------------------------- MODULE Worker -------------------------------
(***************************************************************************)
(* The grading worker as a member of a Kafka consumer group: the receive   *)
(* loop of app/grader/src/main.rs, the permit and the spawned task of      *)
(* evaluate_grader_task, the send and the offset commit of kafka_types,    *)
(* and as much of the broker as those calls depend on.                     *)
(*                                                                         *)
(* The submission topic has one partition, a log of NumMsgs messages at    *)
(* the offsets 0..NumMsgs-1, read through a position (offset commits of    *)
(* different partitions do not interact).  Several workers may share the   *)
(* group.  What a task does between its permit and its result is module    *)
(* GradeTask; here it is the stage "grading".                              *)
(***************************************************************************)
EXTENDS Naturals, Sequences

CONSTANTS
  Workers,      \* worker processes of the consumer group
  Slots,        \* the permits of one worker's semaphore (GRADER_CONCURRENCY)
  NumMsgs,      \* length of the submission partition
  Unparseable,  \* offsets whose payload process_kafka_payload rejects
  SendMayFail,  \* whether producer.send may report an error
  CommitMayFail, \* offsets whose commit may fail, at the call or later
  MaxFaults,    \* bound on crashes and interrupts of workers
  MaxMoves      \* bound on evictions and rebalances by the broker

Offsets == 0..(NumMsgs - 1)

\* "No message": the one position past the log.
NoMsg == NumMsgs

ASSUME WorkerAssumption ==
  /\ NumMsgs \in Nat
  /\ Unparseable \subseteq Offsets
  /\ SendMayFail \in BOOLEAN
  /\ CommitMayFail \subseteq Offsets
  /\ MaxFaults \in Nat
  /\ MaxMoves \in Nat

VARIABLES
  \* the broker
  committed,    \* the group's committed offset: where a new owner starts
  members,      \* workers that are members of the group
  results,      \* results[o]: how often offset o was answered on the topic
  \* the workers
  assigned,     \* workers that take the partition for theirs, zombies included
  phase,        \* phase[w]: where the receive loop of w is
  held,         \* held[w]: message waiting for a permit, or NoMsg
  position,     \* position[w]: next offset w fetches
  job,          \* job[w][s]: offset graded under permit s, or NoMsg
  stage,        \* stage[w][s]: progress of the spawned task under permit s
  commitQ,      \* commitQ[w]: asynchronous commits not yet at the broker
  interrupted,  \* interrupted[w]: Ctrl+C seen by the live ctrl_c() future
  \* history, read by the properties and by the bound only
  unsent,       \* offsets for which a send reported an error
  crashed,      \* whether some worker ever died without draining
  assigns,      \* how often the partition was assigned
  faults,       \* crashes and interrupts so far
  moves         \* evictions and rebalances so far

broker  == <<committed, members, results>>
group   == <<members, assigned>>
tasks   == <<job, stage>>
history == <<unsent, crashed, assigns, faults, moves>>
vars    == <<committed, members, results, assigned, phase, held, position, job,
             stage, commitQ, interrupted, unsent, crashed, assigns, faults,
             moves>>

Phases == {"down", "recv", "permit", "drain", "exited"}
Stages == {"idle", "grading", "sending", "acking"}

TypeOK ==
  /\ committed \in 0..NumMsgs
  /\ members \subseteq Workers
  /\ results \in [Offsets -> Nat]
  /\ assigned \subseteq Workers
  /\ phase \in [Workers -> Phases]
  /\ held \in [Workers -> 0..NumMsgs]
  /\ position \in [Workers -> 0..NumMsgs]
  /\ job \in [Workers -> [Slots -> 0..NumMsgs]]
  /\ stage \in [Workers -> [Slots -> Stages]]
  /\ commitQ \in [Workers -> Seq(1..NumMsgs)]
  /\ interrupted \in [Workers -> BOOLEAN]
  /\ unsent \subseteq Offsets
  /\ crashed \in BOOLEAN
  /\ assigns \in Nat
  /\ faults \in 0..MaxFaults
  /\ moves \in 0..MaxMoves

-----------------------------------------------------------------------------
NoJobs   == [s \in Slots |-> NoMsg]
AllIdle  == [s \in Slots |-> "idle"]

Init ==
  /\ committed = 0
  /\ members = {}
  /\ results = [o \in Offsets |-> 0]
  /\ assigned = {}
  /\ phase = [w \in Workers |-> "down"]
  /\ held = [w \in Workers |-> NoMsg]
  /\ position = [w \in Workers |-> 0]
  /\ job = [w \in Workers |-> NoJobs]
  /\ stage = [w \in Workers |-> AllIdle]
  /\ commitQ = [w \in Workers |-> <<>>]
  /\ interrupted = [w \in Workers |-> FALSE]
  /\ unsent = {}
  /\ crashed = FALSE
  /\ assigns = 0
  /\ faults = 0
  /\ moves = 0

Fault == faults < MaxFaults /\ faults' = faults + 1 /\ UNCHANGED moves
Move  == moves < MaxMoves /\ moves' = moves + 1 /\ UNCHANGED faults

\* Mutants of AckTaskToTopic: the offset itself, or one too many.
AckSameOffset(w, o) == commitQ' = [commitQ EXCEPT ![w] = Append(@, o)]
AckTwoAhead(w, o)   == commitQ' = [commitQ EXCEPT ![w] = Append(@, o + 2)]

\* ack_task_to_topic: CommitMode::Async only queues "next offset to read is
\* o + 1"; the call never waits for the broker.  Its error, or that of building
\* the partition list, is only logged: nothing is queued, then or later.
AckTaskToTopic(w, o) ==
  \/ commitQ' = [commitQ EXCEPT ![w] = Append(@, o + 1)]
  \/ o \in CommitMayFail /\ UNCHANGED commitQ

LeaveGroup(w) ==
  /\ members' = members \ {w}
  /\ assigned' = assigned \ {w}

DropTasks(w) ==
  /\ job' = [job EXCEPT ![w] = NoJobs]
  /\ stage' = [stage EXCEPT ![w] = AllIdle]

-----------------------------------------------------------------------------
(* The receive loop of main.                                               *)

\* A (re)started process reaches its loop; it joins the group only by polling.
Start(w) ==
  /\ phase[w] \in {"down", "exited"}
  /\ phase' = [phase EXCEPT ![w] = "recv"]
  /\ UNCHANGED <<broker, assigned, held, position, tasks, commitQ, interrupted, history>>

\* recv() of a message that is not yet parsed.  Whenever select! takes the
\* recv branch the ctrl_c() future is dropped, and with it a signal it saw.
Fetch(w) ==
  /\ phase[w] = "recv"
  /\ w \in assigned
  /\ position[w] < NumMsgs
  /\ position' = [position EXCEPT ![w] = @ + 1]
  /\ interrupted' = [interrupted EXCEPT ![w] = FALSE]

\* Mutant of RecvTask: the offset is committed on receipt, as by auto-commit.
RecvTaskCommits(w) ==
  /\ Fetch(w)
  /\ position[w] \notin Unparseable
  /\ held' = [held EXCEPT ![w] = position[w]]
  /\ phase' = [phase EXCEPT ![w] = "permit"]
  /\ AckTaskToTopic(w, position[w])
  /\ UNCHANGED <<broker, assigned, tasks, history>>

\* A payload that parses: evaluate_grader_task is called and the loop waits
\* in acquire_owned, which is the backpressure.
RecvTask(w) ==
  /\ Fetch(w)
  /\ position[w] \notin Unparseable
  /\ held' = [held EXCEPT ![w] = position[w]]
  /\ phase' = [phase EXCEPT ![w] = "permit"]
  /\ UNCHANGED <<broker, assigned, tasks, commitQ, history>>

\* A payload that does not parse has no task id to answer: commit it at once.
SkipUnparseable(w) ==
  /\ Fetch(w)
  /\ position[w] \in Unparseable
  /\ AckTaskToTopic(w, position[w])
  /\ UNCHANGED <<broker, assigned, phase, held, tasks, history>>

\* recv() returned an error: logged, and the loop goes round.
RecvError(w) ==
  /\ phase[w] = "recv"
  /\ interrupted[w]
  /\ interrupted' = [interrupted EXCEPT ![w] = FALSE]
  /\ UNCHANGED <<broker, assigned, phase, held, position, tasks, commitQ, history>>

\* acquire_owned returns: the task is spawned and the loop polls again.
GrantPermit(w, s) ==
  /\ phase[w] = "permit"
  /\ stage[w][s] = "idle"
  /\ job' = [job EXCEPT ![w][s] = held[w]]
  /\ stage' = [stage EXCEPT ![w][s] = "grading"]
  /\ held' = [held EXCEPT ![w] = NoMsg]
  /\ phase' = [phase EXCEPT ![w] = "recv"]
  /\ UNCHANGED <<broker, assigned, position, commitQ, interrupted, history>>

\* Ctrl+C while the loop is in select!.  In any other phase no ctrl_c() future
\* exists, the signal is swallowed and nothing changes.
Interrupt(w) ==
  /\ phase[w] = "recv"
  /\ ~interrupted[w]
  /\ Fault
  /\ interrupted' = [interrupted EXCEPT ![w] = TRUE]
  /\ UNCHANGED <<broker, assigned, phase, held, position, tasks, commitQ, unsent,
                 crashed, assigns>>

\* select! takes the ctrl_c branch: break, then acquire_many(concurrency).
StopLoop(w) ==
  /\ phase[w] = "recv"
  /\ interrupted[w]
  /\ interrupted' = [interrupted EXCEPT ![w] = FALSE]
  /\ phase' = [phase EXCEPT ![w] = "drain"]
  /\ UNCHANGED <<broker, assigned, held, position, tasks, commitQ, history>>

\* Mutant of Exit: main returns without its permits.
ExitAtOnce(w) ==
  /\ phase[w] = "drain"
  /\ commitQ[w] = <<>>
  /\ phase' = [phase EXCEPT ![w] = "exited"]
  /\ DropTasks(w)
  /\ LeaveGroup(w)
  /\ UNCHANGED <<committed, results, held, position, commitQ, interrupted,
                 history>>

\* All permits are back and main returns.  Dropping the consumer closes it:
\* its queued commits are flushed and the group is left.  The runtime drops
\* whatever is left of the spawned tasks.
Exit(w) ==
  /\ phase[w] = "drain"
  /\ \A s \in Slots : stage[w][s] = "idle"
  /\ commitQ[w] = <<>>
  /\ phase' = [phase EXCEPT ![w] = "exited"]
  /\ DropTasks(w)
  /\ LeaveGroup(w)
  /\ UNCHANGED <<committed, results, held, position, commitQ, interrupted,
                 history>>

-----------------------------------------------------------------------------
(* The spawned task of evaluate_grader_task.                               *)

\* Mutants of GradeDone: the commit comes first; an Err is never sent; the task
\* is polled by the receive loop and not spawned.
GradeDoneCommitFirst(w, s) ==
  /\ stage[w][s] = "grading"
  /\ stage' = [stage EXCEPT ![w][s] = "acking"]
  /\ UNCHANGED <<broker, assigned, phase, held, position, job, commitQ, interrupted,
                 history>>

GradeDoneDropsErr(w, s) ==
  /\ stage[w][s] = "grading"
  /\ stage' = [stage EXCEPT ![w][s] = "idle"]
  /\ job' = [job EXCEPT ![w][s] = NoMsg]
  /\ UNCHANGED <<broker, assigned, phase, held, position, commitQ, interrupted,
                 history>>

GradeDoneInLoop(w, s) ==
  /\ phase[w] = "recv"
  /\ stage[w][s] = "grading"
  /\ stage' = [stage EXCEPT ![w][s] = "sending"]
  /\ UNCHANGED <<broker, assigned, phase, held, position, job, commitQ, interrupted,
                 history>>

\* grade_task returned; Ok and Err both become a ResponsePayload.
GradeDone(w, s) ==
  /\ stage[w][s] = "grading"
  /\ stage' = [stage EXCEPT ![w][s] = "sending"]
  /\ UNCHANGED <<broker, assigned, phase, held, position, job, commitQ, interrupted,
                 history>>

\* send_kafka_response: delivered and acknowledged.
SendDelivered(w, s) ==
  /\ stage[w][s] = "sending"
  /\ results' = [results EXCEPT ![job[w][s]] = @ + 1]
  /\ stage' = [stage EXCEPT ![w][s] = "acking"]
  /\ UNCHANGED <<committed, group, phase, held, position, job,
                 commitQ, interrupted, history>>

\* Mutant of SendFailed: the send is tried again until it succeeds.
SendFailedRetries(w, s) ==
  /\ SendMayFail
  /\ stage[w][s] = "sending"
  /\ \E n \in 0..1 : results' = [results EXCEPT ![job[w][s]] = @ + n]
  /\ UNCHANGED <<committed, group, phase, held, position, tasks, commitQ,
                 interrupted, history>>

\* send_kafka_response: an error (queue full, message.timeout.ms) is logged
\* and swallowed.  The record may have been appended or not.
SendFailed(w, s) ==
  /\ SendMayFail
  /\ stage[w][s] = "sending"
  /\ \E n \in 0..1 : results' = [results EXCEPT ![job[w][s]] = @ + n]
  /\ unsent' = unsent \cup {job[w][s]}
  /\ stage' = [stage EXCEPT ![w][s] = "acking"]
  /\ UNCHANGED <<committed, group, phase, held, position, job,
                 commitQ, interrupted, crashed, assigns, faults, moves>>

\* The offset is committed and the end of the task drops the permit.
AckTask(w, s) ==
  /\ stage[w][s] = "acking"
  /\ AckTaskToTopic(w, job[w][s])
  /\ job' = [job EXCEPT ![w][s] = NoMsg]
  /\ stage' = [stage EXCEPT ![w][s] = "idle"]
  /\ UNCHANGED <<broker, assigned, phase, held, position, interrupted, history>>

-----------------------------------------------------------------------------
(* The process dies: SIGKILL, a host crash, SIGTERM's grace period running *)
(* out.  Its tasks and its queued commits are gone.                        *)

Crash(w) ==
  /\ phase[w] \notin {"down", "exited"}
  /\ Fault
  /\ phase' = [phase EXCEPT ![w] = "down"]
  /\ held' = [held EXCEPT ![w] = NoMsg]
  /\ DropTasks(w)
  /\ commitQ' = [commitQ EXCEPT ![w] = <<>>]
  /\ interrupted' = [interrupted EXCEPT ![w] = FALSE]
  /\ LeaveGroup(w)
  /\ crashed' = TRUE
  /\ UNCHANGED <<committed, results, position, unsent, assigns>>

-----------------------------------------------------------------------------
(* The broker and its group coordinator, as the code's calls see them.     *)

\* Only a polling loop joins, or learns that it was evicted and joins again.
Join(w) ==
  /\ phase[w] = "recv"
  /\ w \notin members
  /\ members' = members \cup {w}
  /\ assigned' = assigned \ {w}
  /\ UNCHANGED <<committed, results, phase, held, position, tasks, commitQ,
                 interrupted, history>>

\* Whoever is assigned the partition starts at the committed offset.
AssignTo(w) ==
  /\ phase[w] = "recv"
  /\ w \in members
  /\ assigned' = (assigned \ members) \cup {w}
  /\ position' = [position EXCEPT ![w] = committed]
  /\ assigns' = assigns + 1
  /\ UNCHANGED <<broker, phase, held, tasks, commitQ, interrupted, unsent,
                 crashed>>

Assign(w) ==
  /\ members \cap assigned = {}
  /\ AssignTo(w)
  /\ UNCHANGED <<faults, moves>>

\* A rebalance may move the partition, or hand it back to the same worker,
\* once the loop of its owner polls; tasks in flight are not told.
Rebalance(w) ==
  /\ \E v \in members \cap assigned : phase[v] = "recv"
  /\ Move
  /\ AssignTo(w)

\* Session timeout, or max.poll.interval.ms exceeded while the loop waits for
\* a permit or drains.  The worker learns of it only when it joins again.
Evict(w) ==
  /\ w \in members
  /\ Move
  /\ members' = members \ {w}
  /\ UNCHANGED <<committed, results, assigned, phase, held, position, tasks,
                 commitQ, interrupted, unsent, crashed, assigns>>

\* A commit is cumulative and last-writer-wins; it is accepted from any
\* current member, owner or not, and rejected from a worker that was evicted.
\* No callback is told of a commit that failed, and none is tried again.
BrokerCommit(w) ==
  /\ commitQ[w] # <<>>
  /\ \/ w \in members /\ committed' = Head(commitQ[w])
     \/ /\ w \in members => Head(commitQ[w]) - 1 \in CommitMayFail
        /\ UNCHANGED committed
  /\ commitQ' = [commitQ EXCEPT ![w] = Tail(@)]
  /\ UNCHANGED <<group, results, phase, held, position, tasks, interrupted,
                 history>>

-----------------------------------------------------------------------------
TaskStep(w, s) ==
  \/ GradeDone(w, s)
  \/ SendDelivered(w, s)
  \/ SendFailed(w, s)
  \/ AckTask(w, s)

LoopStep(w) ==
  \/ RecvTask(w)
  \/ SkipUnparseable(w)
  \/ \E s \in Slots : GrantPermit(w, s)
  \/ StopLoop(w)
  \/ Exit(w)

Next ==
  \E w \in Workers :
    \/ Start(w)
    \/ LoopStep(w)
    \/ RecvError(w)
    \/ Interrupt(w)
    \/ Crash(w)
    \/ \E s \in Slots : TaskStep(w, s)
    \/ Join(w)
    \/ Assign(w)
    \/ Rebalance(w)
    \/ Evict(w)
    \/ BrokerCommit(w)

Spec == Init /\ [][Next]_vars

\* The loop, the tasks and the broker keep moving and a stopped container is
\* restarted; crashes, signals, evictions and receive errors need not happen.
Fairness ==
  \A w \in Workers :
    /\ WF_vars(Start(w))
    /\ WF_vars(LoopStep(w))
    /\ \A s \in Slots : WF_vars(TaskStep(w, s))
    /\ WF_vars(Join(w))
    /\ WF_vars(Assign(w))
    /\ WF_vars(BrokerCommit(w))

FairSpec == Spec /\ Fairness

-----------------------------------------------------------------------------
(* Safety.                                                                 *)

Answered(o) == results[o] > 0

Settled(o) == Answered(o) \/ o \in Unparseable \/ o \in unsent

\* A live worker still has the message: it waits for a permit or is graded.
InHand(o) ==
  \E w \in Workers : held[w] = o \/ \E s \in Slots : job[w][s] = o

\* Produce first, commit second: no commit, queued or at the broker, is for a
\* message that has neither been answered, nor had its send fail, nor been
\* unparseable (evaluate_grader_task, ack_task_to_topic).
ProduceBeforeCommit ==
  /\ committed > 0 => Settled(committed - 1)
  /\ \A w \in Workers : \A i \in 1..Len(commitQ[w]) :
       Settled(commitQ[w][i] - 1)

\* While no worker has crashed, a message below the committed offset is settled
\* or still in the hands of a live worker, at every concurrency, through
\* graceful shutdowns, evictions and rebalances (main's drain).
NoLossWithoutCrash ==
  ~crashed => \A o \in Offsets : o < committed => Settled(o) \/ InHand(o)

\* A task below the committed offset, which no restart would replay, has been
\* answered or is in the hands of a live worker: what "a crash replays the
\* task rather than losing it" promises of evaluate_grader_task.  It takes
\* sends that succeed and one permit.
NoTaskLost ==
  \A o \in Offsets \ Unparseable :
    o < committed => Answered(o) \/ InHand(o)

\* The price of at-least-once is bounded: a task is answered at most once per
\* assignment of the partition, so never twice without a restart or rebalance.
DuplicatesBounded == \A o \in Offsets : results[o] <= assigns

-----------------------------------------------------------------------------
(* Liveness.                                                               *)

\* Without a crash every task is eventually answered, or its answer was handed
\* to a send that failed, at every concurrency, with evictions and rebalances.
AnsweredOrCrashed ==
  \A o \in Offsets : <>(Settled(o) \/ crashed)

\* A graceful shutdown terminates: main's acquire_many gets all its permits.
DrainEnds == \A w \in Workers : phase[w] = "drain" ~> phase[w] # "drain"

\* A receive loop stalled on a permit is released (evaluate_grader_task).
StallEnds == \A w \in Workers : phase[w] = "permit" ~> phase[w] # "permit"

\* With one permit and no eviction or rebalance, the committed offset passes
\* every message whose commit does not fail, and stays past it through crashes
\* and shutdowns: a lost commit is never tried again, but the next one that is
\* not lost makes up for it (ack_task_to_topic, whose offset is cumulative).
CommitCatchesUp ==
  <>[](moves > 0 \/ \A o \in Offsets \ CommitMayFail : o < committed)

-----------------------------------------------------------------------------
(* The contract.                                                           *)

\* With one permit, parseable payloads and reliable sends, the worker is an
\* at-least-once grader, whatever crashes, rebalances and evictions happen.
Contract == INSTANCE GradingContract WITH
  Tasks    <- Offsets \ Unparseable,
  End      <- NumMsgs,
  answered <- {o \in Offsets \ Unparseable : Answered(o)},
  cursor   <- committed

ContractSpec == Contract!Spec
=============================================================================
