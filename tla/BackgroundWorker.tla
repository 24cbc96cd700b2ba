-------------------------- MODULE BackgroundWorker --------------------------
(***************************************************************************)
(* The BackgroundWorkerPool: an unbounded asyncio queue, worker coroutines *)
(* that take tasks from it, retries, a dead letter queue, cancellation and *)
(* shutdown.  One event loop runs it all; a worker is interrupted only     *)
(* while it waits for the queue or for the handler of its task.            *)
(***************************************************************************)
EXTENDS Naturals, FiniteSets, SequencesExt

CONSTANTS
  Tasks,        \* identifiers submit_task() hands out
  Slots,        \* worker coroutines that may be alive at a time
  MaxWorkers,   \* coroutines that start() spawns
  MaxRetries,   \* task.max_retries
  NoTask

ASSUME PoolAssumption ==
  /\ IsFiniteSet(Slots) /\ MaxWorkers \in Nat \ {0} /\ MaxRetries \in Nat
  /\ NoTask \notin Tasks

VARIABLES
  task_status,     \* task.status, "absent" before it is submitted
  task_retries,    \* task.retry_count
  task_queue,      \* self._queue
  unfinished,      \* its count of tasks put and not yet task_done()
  dead_letter,     \* self._dead_letter
  coroutine,       \* "stopped", "waiting" for the queue, or "running" a task
  current,         \* the task a running worker executes
  running,         \* self._running
  shutdown_event,  \* self._shutdown_event
  draining,        \* a shutdown(drain=True) awaits queue.join()
  begun            \* history: how often each task was begun

taskVars == <<task_status, task_retries, task_queue, unfinished, dead_letter>>
coroutineVars == <<coroutine, current>>
poolVars == <<running, shutdown_event, draining>>
workerVars == <<taskVars, coroutineVars, poolVars, begun>>

Settled == {"completed", "failed", "cancelled"}

-----------------------------------------------------------------------------
WorkerInit ==
  /\ task_status = [t \in Tasks |-> "absent"]
  /\ task_retries = [t \in Tasks |-> 0]
  /\ task_queue = <<>> /\ unfinished = 0 /\ dead_letter = <<>>
  /\ coroutine = [w \in Slots |-> "stopped"]
  /\ current = [w \in Slots |-> NoTask]
  /\ running = FALSE /\ shutdown_event = FALSE /\ draining = FALSE
  /\ begun = [t \in Tasks |-> 0]

(* start() spawns its workers next to any that an earlier shutdown has not *)
(* stopped yet.                                                            *)
Start ==
  /\ ~running
  /\ \E new \in SUBSET {w \in Slots : coroutine[w] = "stopped"} :
       /\ Cardinality(new) = MaxWorkers
       /\ coroutine' = [w \in Slots |-> IF w \in new THEN "waiting" ELSE coroutine[w]]
  /\ running' = TRUE /\ shutdown_event' = FALSE
  /\ UNCHANGED <<taskVars, current, draining, begun>>

(* Tasks are accepted whether the pool is running or not. *)
SubmitTask(t) ==
  /\ task_status[t] = "absent"
  /\ task_status' = [task_status EXCEPT ![t] = "pending"]
  /\ task_queue' = Append(task_queue, t)
  /\ unfinished' = unfinished + 1
  /\ UNCHANGED <<task_retries, dead_letter, coroutineVars, poolVars, begun>>

(* Mutant of CancelTask: a task that is already in the dead letter queue is *)
(* cancelled like any other.                                               *)
CancelFailedTask(t) ==
  /\ task_status[t] \in {"pending", "running", "failed"}
  /\ task_status' = [task_status EXCEPT ![t] = "cancelled"]
  /\ UNCHANGED <<task_retries, task_queue, unfinished, dead_letter, coroutineVars, poolVars, begun>>

CancelTask(t) ==
  /\ task_status[t] \in {"pending", "running"}
  /\ task_status' = [task_status EXCEPT ![t] = "cancelled"]
  /\ UNCHANGED <<task_retries, task_queue, unfinished, dead_letter, coroutineVars, poolVars, begun>>

(* The loop condition, evaluated after each task and each timeout. *)
LoopAgain == IF shutdown_event THEN "stopped" ELSE "waiting"

(* queue.get() returns; a task cancelled in the queue is dropped, any      *)
(* other begins.                                                           *)
TakeTask(w) ==
  /\ coroutine[w] = "waiting"
  /\ task_queue # <<>>
  /\ task_queue' = Tail(task_queue)
  /\ LET t == Head(task_queue) IN
       IF task_status[t] = "cancelled"
       THEN /\ unfinished' = unfinished - 1
            /\ coroutine' = [coroutine EXCEPT ![w] = LoopAgain]
            /\ UNCHANGED <<task_status, current, begun>>
       ELSE /\ task_status' = [task_status EXCEPT ![t] = "running"]
            /\ begun' = [begun EXCEPT ![t] = @ + 1]
            /\ coroutine' = [coroutine EXCEPT ![w] = "running"]
            /\ current' = [current EXCEPT ![w] = t]
            /\ UNCHANGED unfinished
  /\ UNCHANGED <<task_retries, dead_letter, poolVars>>

(* wait_for(queue.get(), 1.0) timed out and the shutdown event is set; the *)
(* timeout may beat a task that was put at the last moment.                *)
StopOnTimeout(w) ==
  /\ coroutine[w] = "waiting"
  /\ shutdown_event
  /\ coroutine' = [coroutine EXCEPT ![w] = "stopped"]
  /\ UNCHANGED <<taskVars, current, poolVars, begun>>

EndOfTask(w) ==
  /\ coroutine' = [coroutine EXCEPT ![w] = LoopAgain]
  /\ current' = [current EXCEPT ![w] = NoTask]
  /\ UNCHANGED <<poolVars, begun>>

(* The handler returned.  The status is not looked at again. *)
CompleteTask(w) ==
  /\ coroutine[w] = "running"
  /\ task_status' = [task_status EXCEPT ![current[w]] = "completed"]
  /\ unfinished' = unfinished - 1
  /\ EndOfTask(w)
  /\ UNCHANGED <<task_retries, task_queue, dead_letter>>

(* Whether the task gets another attempt after this failure. *)
Retries(t) == task_retries[t] + 1 < MaxRetries

(* Mutant of FailTask: a retry is not put back into the queue. *)
FailTaskLosesRetry(w) ==
  /\ coroutine[w] = "running"
  /\ LET t == current[w] IN
     /\ task_retries' = [task_retries EXCEPT ![t] = @ + 1]
     /\ task_status' = [task_status EXCEPT ![t] = IF Retries(t) THEN "pending" ELSE "failed"]
     /\ dead_letter' = IF Retries(t) THEN dead_letter ELSE Append(dead_letter, t)
  /\ unfinished' = unfinished - 1
  /\ UNCHANGED task_queue
  /\ EndOfTask(w)

(* The handler raised: back to the end of the queue (which counts it again *)
(* before task_done), or to the dead letter queue.                         *)
FailTask(w) ==
  /\ coroutine[w] = "running"
  /\ LET t == current[w] IN
     /\ task_retries' = [task_retries EXCEPT ![t] = @ + 1]
     /\ IF Retries(t)
        THEN /\ task_status' = [task_status EXCEPT ![t] = "pending"]
             /\ task_queue' = Append(task_queue, t)
             /\ UNCHANGED <<unfinished, dead_letter>>
        ELSE /\ task_status' = [task_status EXCEPT ![t] = "failed"]
             /\ dead_letter' = Append(dead_letter, t)
             /\ unfinished' = unfinished - 1
             /\ UNCHANGED task_queue
  /\ EndOfTask(w)

(* Mutant of CancelWorkers: idle workers acknowledge a task as well. *)
CancelWorkersMiscounts ==
  /\ coroutine' = [w \in Slots |-> "stopped"]
  /\ current' = [w \in Slots |-> NoTask]
  /\ unfinished' = unfinished - Cardinality({w \in Slots : coroutine[w] # "stopped"})
  /\ UNCHANGED <<task_status, task_retries, task_queue, dead_letter, begun>>

(* worker.cancel() on every worker and gather(): a handler that is cut off *)
(* leaves its task "running", only task_done() is called for it.           *)
CancelWorkers ==
  /\ coroutine' = [w \in Slots |-> "stopped"]
  /\ current' = [w \in Slots |-> NoTask]
  /\ unfinished' = unfinished - Cardinality({w \in Slots : coroutine[w] = "running"})
  /\ UNCHANGED <<task_status, task_retries, task_queue, dead_letter, begun>>

(* One shutdown() at a time is modelled. *)
ShutdownNow ==
  /\ running /\ ~draining
  /\ running' = FALSE /\ shutdown_event' = TRUE
  /\ CancelWorkers
  /\ UNCHANGED draining

BeginDrain ==
  /\ running /\ ~draining
  /\ running' = FALSE /\ shutdown_event' = TRUE /\ draining' = TRUE
  /\ UNCHANGED <<taskVars, coroutineVars, begun>>

(* Mutant of EndDrain: waits for the queue, not for the work. *)
EndDrainOnEmptyQueue ==
  /\ draining
  /\ task_queue = <<>>
  /\ draining' = FALSE
  /\ CancelWorkers
  /\ UNCHANGED <<running, shutdown_event>>

(* queue.join() returns when every task that was put is done. *)
EndDrain ==
  /\ draining
  /\ unfinished = 0
  /\ draining' = FALSE
  /\ CancelWorkers
  /\ UNCHANGED <<running, shutdown_event>>

WorkerStep(w) == TakeTask(w) \/ StopOnTimeout(w) \/ CompleteTask(w) \/ FailTask(w)

WorkerNext ==
  \/ Start \/ ShutdownNow \/ BeginDrain \/ EndDrain
  \/ \E t \in Tasks : SubmitTask(t) \/ CancelTask(t)
  \/ \E w \in Slots : WorkerStep(w)

WorkerSpec == WorkerInit /\ [][WorkerNext]_workerVars

(* The event loop resumes every worker whose wait is over, handlers end,   *)
(* and the server starts its pool; nobody restarts one that was shut down. *)
FairWorkerSpec ==
  /\ WorkerSpec
  /\ WF_workerVars(EndDrain) /\ WF_workerVars(Start /\ ~shutdown_event)
  /\ \A w \in Slots : WF_workerVars(WorkerStep(w))

-----------------------------------------------------------------------------
Runners(t) == {w \in Slots : current[w] = t}
InQueue(t) == {i \in DOMAIN task_queue : task_queue[i] = t}

(* Every variable holds values of the shape the code gives it. *)
PoolTypeOK ==
  /\ task_status \in [Tasks -> {"absent", "pending", "running"} \cup Settled]
  /\ task_retries \in [Tasks -> Nat] /\ begun \in [Tasks -> Nat]
  /\ task_queue \in Seq(Tasks) /\ dead_letter \in Seq(Tasks)
  /\ unfinished \in Nat
  /\ coroutine \in [Slots -> {"stopped", "waiting", "running"}]
  /\ current \in [Slots -> Tasks \cup {NoTask}]
  /\ running \in BOOLEAN /\ shutdown_event \in BOOLEAN /\ draining \in BOOLEAN

(* A task is in one place at a time: queued once or executed by one worker *)
(* or neither, however often it was retried and cancelled; one that waits  *)
(* in status "pending" is queued.                                          *)
OnePlace ==
  \A t \in Tasks :
    /\ Cardinality(InQueue(t)) + Cardinality(Runners(t)) <= 1
    /\ task_status[t] = "pending" => InQueue(t) # {}
    /\ task_status[t] \in {"absent", "completed", "failed"} => InQueue(t) = {} /\ Runners(t) = {}

(* What queue.join() waits for is exactly the work that is left. *)
JoinCountsTheWork ==
  unfinished = Len(task_queue) + Cardinality({w \in Slots : coroutine[w] = "running"})

(* However tasks are cancelled and pools shut down and started again, no   *)
(* task is lost while it waits, queued twice or run by two workers, and    *)
(* the queue knows what is left.                                           *)
WorkIsAccountedFor == PoolTypeOK /\ OnePlace /\ JoinCountsTheWork

(* The dead letter queue holds each failed task once and nothing else,     *)
(* whoever cancels, retries and shuts down meanwhile; a task is there only *)
(* after it was attempted, and no task, however often it is cancelled and  *)
(* put back, is begun more often than once and max_retries times again.    *)
DeadLettersAreTheFailed ==
  /\ ToSet(dead_letter) = {t \in Tasks : task_status[t] = "failed"}
  /\ Len(dead_letter) = Cardinality(ToSet(dead_letter))
  /\ \A t \in Tasks : begun[t] <= 1 + MaxRetries /\ (task_status[t] = "failed" => begun[t] >= 1)

(* A drained shutdown interrupts no handler: when the join is over, no     *)
(* task is being executed by anybody.                                      *)
DrainInterruptsNothing ==
  [][draining /\ ~draining' => \A w \in Slots : coroutine[w] # "running"]_workerVars

(* In a pool that is never shut down every submitted task settles,         *)
(* failures and retries included.                                          *)
EveryTaskSettles ==
  []~shutdown_event => \A t \in Tasks : task_status[t] = "pending" ~> task_status[t] \in Settled

(* "Graceful shutdown with task draining": shutdown() comes back.          *)
DrainEnds == draining ~> ~draining
=============================================================================
