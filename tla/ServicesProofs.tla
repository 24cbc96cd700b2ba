--------------------------- MODULE ServicesProofs ---------------------------
(***************************************************************************)
(* Proofs about the services that somebody waits for: the background       *)
(* worker pool, for any number of tasks, workers and retries, and any      *)
(* order of cancellations, shutdowns and restarts; the failover manager,   *)
(* for any number of regions and of calls that await a promotion; and the  *)
(* invariants that the run of MCServices checks, for every number of       *)
(* requests, sessions, agents and capabilities.                            *)
(***************************************************************************)
EXTENDS Services, RegionFailover, SequenceTheorems, FiniteSetTheorems, TLAPS

-----------------------------------------------------------------------------
(* The background worker pool.  What the runs check counts occurrences of  *)
(* a task.  The invariant below says the same without counting, and adds   *)
(* where a task of each status may be and how often it has been begun      *)
(* there; the queue is seen as the set of the tasks in it.                 *)

Allowed == IF MaxRetries = 0 THEN 1 ELSE MaxRetries

Waiting == ToSet(task_queue)

RunningSlots == {w \in Slots : coroutine[w] = "running"}

NoRepeat(q) == \A i, j \in DOMAIN q : q[i] = q[j] => i = j

(* A worker runs one task, that nobody else runs and that is not queued. *)
RunnersHoldOne ==
  \A w \in Slots :
    /\ coroutine[w] = "running" <=> current[w] # NoTask
    /\ current[w] \notin Waiting
    /\ \A v \in Slots : current[v] = current[w] /\ current[v] # NoTask => v = w

StatusTellsPlace ==
  \A t \in Tasks :
    /\ t \in Waiting => task_status[t] \in {"pending", "cancelled"}
    /\ task_status[t] = "pending" => t \in Waiting
    /\ \A w \in Slots : current[w] = t => task_status[t] \in {"running", "cancelled"}

(* A task has been begun once for each failure, and once more while it     *)
(* runs; as long as it is queued it has an attempt left.                   *)
AttemptsCounted ==
  \A t \in Tasks :
    /\ begun[t] <= Allowed
    /\ task_status[t] = "absent" => begun[t] = 0 /\ task_retries[t] = 0
    /\ t \in Waiting => begun[t] = task_retries[t] /\ begun[t] < Allowed
    /\ \A w \in Slots : current[w] = t => begun[t] = task_retries[t] + 1
    /\ task_status[t] = "failed" => begun[t] = Allowed

FailuresListed ==
  /\ ToSet(dead_letter) = {t \in Tasks : task_status[t] = "failed"}
  /\ IsFiniteSet(ToSet(dead_letter))
  /\ Len(dead_letter) = Cardinality(ToSet(dead_letter))

WorkerIInv == /\ PoolTypeOK
              /\ NoRepeat(task_queue)
              /\ RunnersHoldOne
              /\ StatusTellsPlace
              /\ AttemptsCounted
              /\ JoinCountsTheWork
              /\ FailuresListed

-----------------------------------------------------------------------------
(* What a sequence holds after an element is added at its end. *)
LEMMA AppendedSet ==
  ASSUME NEW S, NEW q \in Seq(S), NEW x \in S
  PROVE  /\ Append(q, x) \in Seq(S) /\ Len(Append(q, x)) = Len(q) + 1 /\ Len(q) \in Nat
         /\ ToSet(Append(q, x)) = ToSet(q) \cup {x}
         /\ NoRepeat(q) /\ x \notin ToSet(q) => NoRepeat(Append(q, x))
<1> DEFINE n == Len(q) + 1
           longer == Append(q, x)
<1>1. /\ longer \in Seq(S) /\ Len(longer) = n /\ Len(q) \in Nat
      /\ DOMAIN q = 1 .. Len(q) /\ DOMAIN longer = 1 .. n
      /\ longer[n] = x /\ \A i \in 1 .. Len(q) : longer[i] = q[i]
  BY AppendProperties, LenProperties
<1>2. DOMAIN longer = DOMAIN q \cup {n} /\ n \notin DOMAIN q
  BY <1>1
<1> HIDE DEF n, longer
<1>3. ToSet(longer) = ToSet(q) \cup {x}
  BY <1>1, <1>2 DEF ToSet
<1>4. NoRepeat(q) /\ x \notin ToSet(q) => NoRepeat(longer)
  BY <1>1, <1>2 DEF ToSet, NoRepeat
<1>5. QED BY <1>1, <1>3, <1>4 DEF n, longer

(* What a queue without repetitions holds after its head is taken. *)
LEMMA TakenSet ==
  ASSUME NEW S, NEW q \in Seq(S), q # <<>>, NoRepeat(q)
  PROVE  /\ Tail(q) \in Seq(S) /\ Len(q) = Len(Tail(q)) + 1 /\ Len(Tail(q)) \in Nat
         /\ Head(q) \in S /\ Head(q) \in ToSet(q)
         /\ ToSet(Tail(q)) = ToSet(q) \ {Head(q)}
         /\ NoRepeat(Tail(q))
<1> DEFINE rest == Tail(q)
<1>1. /\ rest \in Seq(S) /\ Len(rest) = Len(q) - 1 /\ Head(q) \in S
      /\ \A i \in 1 .. Len(rest) : rest[i] = q[i + 1]
      /\ Len(q) \in Nat \ {0} /\ DOMAIN q = 1 .. Len(q)
      /\ DOMAIN rest = 1 .. Len(rest) /\ Head(q) = q[1]
  BY HeadTailProperties, LenProperties, EmptySeq
<1> HIDE DEF rest
<1>2. 1 \in DOMAIN q /\ Head(q) \in ToSet(q)
  BY <1>1 DEF ToSet
<1>3. \A i \in DOMAIN rest : i + 1 \in DOMAIN q /\ i + 1 # 1 /\ rest[i] = q[i + 1]
  BY <1>1
<1>4. \A j \in DOMAIN q : j # 1 => j - 1 \in DOMAIN rest /\ rest[j - 1] = q[j]
  BY <1>1
<1>5. ToSet(rest) \subseteq ToSet(q) \ {Head(q)}
  BY <1>1, <1>2, <1>3 DEF ToSet, NoRepeat
<1>6. ToSet(q) \ {Head(q)} \subseteq ToSet(rest)
  BY <1>1, <1>4 DEF ToSet
<1>7. NoRepeat(rest)
  <2> SUFFICES ASSUME NEW i \in DOMAIN rest, NEW j \in DOMAIN rest, rest[i] = rest[j]
               PROVE  i = j
    BY DEF NoRepeat
  <2>1. i + 1 = j + 1
    BY <1>3 DEF NoRepeat
  <2>2. QED BY <1>1, <2>1
<1>8. QED BY <1>1, <1>2, <1>5, <1>6, <1>7 DEF rest

(* The number of workers that run a task. *)
LEMMA RunningCounted ==
  ASSUME NEW f, NEW g, NEW w \in Slots, \A v \in Slots \ {w} : g[v] = f[v]
  PROVE  LET before == {v \in Slots : f[v] = "running"}
             after == {v \in Slots : g[v] = "running"} IN
         /\ Cardinality(before) \in Nat /\ Cardinality(after) \in Nat
         /\ f[w] = "running" /\ g[w] # "running" => Cardinality(before) = Cardinality(after) + 1
         /\ f[w] # "running" /\ g[w] = "running" => Cardinality(after) = Cardinality(before) + 1
         /\ f[w] # "running" /\ g[w] # "running" => Cardinality(after) = Cardinality(before)
<1> DEFINE before == {v \in Slots : f[v] = "running"}
           after == {v \in Slots : g[v] = "running"}
<1>1. IsFiniteSet(before) /\ IsFiniteSet(after)
  BY FS_Subset, PoolAssumption
<1>2. Cardinality(before) \in Nat /\ Cardinality(after) \in Nat
  BY <1>1, FS_CardinalityType
<1>3. ASSUME f[w] = "running", g[w] # "running" PROVE Cardinality(before) = Cardinality(after) + 1
  <2>1. before = after \cup {w} /\ w \notin after
    BY <1>3
  <2> HIDE DEF before, after
  <2>2. QED BY <1>1, <2>1, FS_AddElement
<1>4. ASSUME f[w] # "running", g[w] = "running" PROVE Cardinality(after) = Cardinality(before) + 1
  <2>1. after = before \cup {w} /\ w \notin before
    BY <1>4
  <2> HIDE DEF before, after
  <2>2. QED BY <1>1, <2>1, FS_AddElement
<1>5. ASSUME f[w] # "running", g[w] # "running" PROVE Cardinality(after) = Cardinality(before)
  <2>1. after = before
    BY <1>5
  <2>2. QED BY <2>1
<1>6. QED BY <1>2, <1>3, <1>4, <1>5

-----------------------------------------------------------------------------
(* Before the pool is started there is nothing to account for. *)
LEMMA WorkerInitIInv == WorkerInit => WorkerIInv
<1> SUFFICES ASSUME WorkerInit PROVE WorkerIInv
  OBVIOUS
<1>1. task_queue = <<>> /\ dead_letter = <<>> /\ ToSet(<<>>) = {} /\ Len(<<>>) = 0
  BY DEF WorkerInit, ToSet
<1>2. PoolTypeOK
  <2>1. task_queue \in Seq(Tasks) /\ dead_letter \in Seq(Tasks)
    BY <1>1, EmptySeq
  <2>2. QED BY <2>1 DEF WorkerInit, PoolTypeOK
<1>3. NoRepeat(task_queue)
  BY <1>1 DEF NoRepeat
<1>4. RunnersHoldOne
  BY <1>1, PoolAssumption DEF WorkerInit, RunnersHoldOne, Waiting
<1>5. StatusTellsPlace
  BY <1>1, PoolAssumption DEF WorkerInit, StatusTellsPlace, Waiting
<1>6. AttemptsCounted
  BY <1>1, PoolAssumption DEF WorkerInit, AttemptsCounted, Waiting, Allowed
<1>7. JoinCountsTheWork
  <2>1. RunningSlots = {}
    BY DEF WorkerInit, RunningSlots
  <2>2. unfinished = Len(task_queue) + Cardinality(RunningSlots)
    BY <1>1, <2>1, FS_EmptySet DEF WorkerInit
  <2>3. QED BY <2>2 DEF JoinCountsTheWork, RunningSlots
<1>8. FailuresListed
  BY <1>1, FS_EmptySet DEF WorkerInit, FailuresListed
<1>9. QED BY <1>2, <1>3, <1>4, <1>5, <1>6, <1>7, <1>8 DEF WorkerIInv

(* Starting and stopping idle workers, and shutting the pool down, moves   *)
(* no task.                                                                *)
LEMMA IdleStepKeeps ==
  ASSUME WorkerIInv, UNCHANGED <<taskVars, current, begun>>,
         coroutine' \in [Slots -> {"stopped", "waiting", "running"}],
         \A w \in Slots : coroutine'[w] = "running" <=> coroutine[w] = "running",
         running' \in BOOLEAN, shutdown_event' \in BOOLEAN, draining' \in BOOLEAN
  PROVE  WorkerIInv'
<1>1. UNCHANGED <<task_status, task_retries, task_queue, unfinished, dead_letter, current, begun>>
  BY DEF taskVars
<1>2. RunningSlots' = RunningSlots /\ Waiting' = Waiting
  BY <1>1 DEF RunningSlots, Waiting
<1>3. JoinCountsTheWork'
  <2>1. unfinished' = Len(task_queue') + Cardinality(RunningSlots')
    BY <1>1, <1>2 DEF WorkerIInv, JoinCountsTheWork, RunningSlots
  <2>2. QED BY <2>1 DEF JoinCountsTheWork, RunningSlots
<1>4. PoolTypeOK' /\ NoRepeat(task_queue)' /\ FailuresListed'
  BY <1>1 DEF WorkerIInv, PoolTypeOK, FailuresListed
<1>5. RunnersHoldOne'
  BY <1>1, <1>2 DEF WorkerIInv, RunnersHoldOne
<1>6. StatusTellsPlace' /\ AttemptsCounted'
  BY <1>1, <1>2 DEF WorkerIInv, StatusTellsPlace, AttemptsCounted
<1>7. QED BY <1>3, <1>4, <1>5, <1>6 DEF WorkerIInv

(* Starting a pool, again after a shutdown too. *)
LEMMA StartIInv == ASSUME WorkerIInv, Start PROVE WorkerIInv'
<1>1. PICK new \in SUBSET {w \in Slots : coroutine[w] = "stopped"} :
        coroutine' = [w \in Slots |-> IF w \in new THEN "waiting" ELSE coroutine[w]]
  BY DEF Start
<1>2. /\ coroutine' \in [Slots -> {"stopped", "waiting", "running"}]
      /\ \A w \in Slots : coroutine'[w] = "running" <=> coroutine[w] = "running"
  BY <1>1 DEF WorkerIInv, PoolTypeOK
<1>3. /\ UNCHANGED <<taskVars, current, begun>>
      /\ running' \in BOOLEAN /\ shutdown_event' \in BOOLEAN /\ draining' \in BOOLEAN
  BY DEF Start, WorkerIInv, PoolTypeOK
<1>4. QED BY <1>2, <1>3, IdleStepKeeps

(* A worker whose wait for a task times out finds the pool shut down. *)
LEMMA StopOnTimeoutIInv == ASSUME WorkerIInv, NEW w \in Slots, StopOnTimeout(w) PROVE WorkerIInv'
<1>1. /\ coroutine' \in [Slots -> {"stopped", "waiting", "running"}]
      /\ \A v \in Slots : coroutine'[v] = "running" <=> coroutine[v] = "running"
  BY DEF StopOnTimeout, WorkerIInv, PoolTypeOK
<1>2. /\ UNCHANGED <<taskVars, current, begun>>
      /\ running' \in BOOLEAN /\ shutdown_event' \in BOOLEAN /\ draining' \in BOOLEAN
  BY DEF StopOnTimeout, poolVars, WorkerIInv, PoolTypeOK
<1>3. QED BY <1>1, <1>2, IdleStepKeeps

(* A drained shutdown waits for the join. *)
LEMMA BeginDrainIInv == ASSUME WorkerIInv, BeginDrain PROVE WorkerIInv'
BY IdleStepKeeps DEF BeginDrain, coroutineVars, WorkerIInv, PoolTypeOK

(* A new task is queued behind the others, with all its attempts. *)
LEMMA SubmitTaskIInv == ASSUME WorkerIInv, NEW t \in Tasks, SubmitTask(t) PROVE WorkerIInv'
<1> USE DEF WorkerIInv
<1>1. /\ task_status[t] = "absent"
      /\ task_status' = [task_status EXCEPT ![t] = "pending"]
      /\ task_queue' = Append(task_queue, t) /\ unfinished' = unfinished + 1
      /\ UNCHANGED <<task_retries, dead_letter, coroutine, current, running, shutdown_event,
                     draining, begun>>
  BY DEF SubmitTask, coroutineVars, poolVars
<1>2. t \notin Waiting /\ \A w \in Slots : current[w] # t
  BY <1>1 DEF StatusTellsPlace
<1>3. /\ task_queue' \in Seq(Tasks) /\ Len(task_queue') = Len(task_queue) + 1
      /\ Len(task_queue) \in Nat
      /\ Waiting' = Waiting \cup {t} /\ NoRepeat(task_queue)'
  BY <1>1, <1>2, AppendedSet DEF PoolTypeOK, Waiting
<1>4. PoolTypeOK'
  BY <1>1, <1>3 DEF PoolTypeOK
<1>5. RunnersHoldOne'
  BY <1>1, <1>2, <1>3 DEF RunnersHoldOne
<1>6. StatusTellsPlace'
  BY <1>1, <1>2, <1>3 DEF StatusTellsPlace, PoolTypeOK
<1>7. AttemptsCounted'
  <2>1. 0 < Allowed
    BY PoolAssumption DEF Allowed
  <2>2. QED BY <1>1, <1>2, <1>3, <2>1 DEF AttemptsCounted, PoolTypeOK
<1>8. JoinCountsTheWork'
  <2> DEFINE n == Cardinality({w \in Slots : coroutine[w] = "running"})
  <2>1. n \in Nat
    BY FS_Subset, FS_CardinalityType, PoolAssumption
  <2>2. unfinished = Len(task_queue) + n /\ n' = n
    BY <1>1 DEF JoinCountsTheWork
  <2> HIDE DEF n
  <2>3. unfinished' = Len(task_queue') + n
    BY <1>1, <1>3, <2>1, <2>2
  <2>4. QED BY <2>2, <2>3 DEF JoinCountsTheWork, n
<1>9. FailuresListed'
  BY <1>1 DEF FailuresListed, PoolTypeOK
<1>10. QED BY <1>3, <1>4, <1>5, <1>6, <1>7, <1>8, <1>9

(* A cancelled task stays where it is. *)
LEMMA CancelTaskIInv == ASSUME WorkerIInv, NEW t \in Tasks, CancelTask(t) PROVE WorkerIInv'
<1> USE DEF WorkerIInv
<1>1. /\ task_status[t] \in {"pending", "running"}
      /\ task_status' = [task_status EXCEPT ![t] = "cancelled"]
      /\ UNCHANGED <<task_retries, task_queue, unfinished, dead_letter, coroutine, current,
                     running, shutdown_event, draining, begun>>
  BY DEF CancelTask, coroutineVars, poolVars
<1>2. Waiting' = Waiting
  BY <1>1 DEF Waiting
<1>3. PoolTypeOK'
  BY <1>1 DEF PoolTypeOK, Settled
<1>4. RunnersHoldOne' /\ NoRepeat(task_queue)' /\ JoinCountsTheWork'
  BY <1>1, <1>2 DEF RunnersHoldOne, JoinCountsTheWork
<1>5. StatusTellsPlace'
  BY <1>1, <1>2 DEF StatusTellsPlace, PoolTypeOK
<1>6. AttemptsCounted'
  BY <1>1, <1>2 DEF AttemptsCounted, PoolTypeOK
<1>7. FailuresListed'
  BY <1>1 DEF FailuresListed, PoolTypeOK
<1>8. QED BY <1>3, <1>4, <1>5, <1>6, <1>7

(* A worker takes the head of the queue: it runs, or is dropped. *)
LEMMA TakeTaskIInv == ASSUME WorkerIInv, NEW w \in Slots, TakeTask(w) PROVE WorkerIInv'
<1> USE DEF WorkerIInv
<1> DEFINE t == Head(task_queue)
<1>1. /\ coroutine[w] = "waiting" /\ task_queue # <<>> /\ task_queue' = Tail(task_queue)
      /\ UNCHANGED <<task_retries, dead_letter, running, shutdown_event, draining>>
  BY DEF TakeTask, poolVars
<1>2. /\ task_queue' \in Seq(Tasks) /\ Len(task_queue) = Len(task_queue') + 1
      /\ Len(task_queue') \in Nat /\ t \in Tasks /\ t \in Waiting
      /\ Waiting' = Waiting \ {t} /\ NoRepeat(task_queue)'
  BY <1>1, TakenSet DEF PoolTypeOK, Waiting
<1>3. current[w] = NoTask /\ \A v \in Slots : current[v] # t
  BY <1>1, <1>2 DEF RunnersHoldOne
<1>4. CASE task_status[t] = "cancelled"
  <2>1. /\ unfinished' = unfinished - 1 /\ coroutine' = [coroutine EXCEPT ![w] = LoopAgain]
        /\ UNCHANGED <<task_status, current, begun>>
    BY <1>4 DEF TakeTask
  <2>2. LoopAgain \in {"stopped", "waiting"}
    BY DEF LoopAgain
  <2> HIDE DEF t
  <2>3. JoinCountsTheWork' /\ unfinished' \in Nat
    <3>1. /\ \A v \in Slots \ {w} : coroutine'[v] = coroutine[v]
          /\ coroutine'[w] # "running" /\ coroutine[w] # "running"
      BY <1>1, <2>1, <2>2 DEF PoolTypeOK
    <3>2. /\ Cardinality({v \in Slots : coroutine'[v] = "running"})
               = Cardinality({v \in Slots : coroutine[v] = "running"})
          /\ Cardinality({v \in Slots : coroutine[v] = "running"}) \in Nat
      BY <3>1, RunningCounted
    <3>3. QED BY <1>2, <2>1, <3>2 DEF JoinCountsTheWork
  <2>4. PoolTypeOK'
    BY <1>1, <1>2, <2>1, <2>2, <2>3 DEF PoolTypeOK
  <2>5. RunnersHoldOne'
    BY <1>1, <1>2, <2>1, <2>2 DEF RunnersHoldOne, PoolTypeOK
  <2>6. StatusTellsPlace'
    BY <1>2, <1>4, <2>1 DEF StatusTellsPlace
  <2>7. AttemptsCounted'
    BY <1>1, <1>2, <2>1 DEF AttemptsCounted
  <2>8. FailuresListed'
    BY <1>1, <2>1 DEF FailuresListed
  <2>9. QED BY <1>2, <2>3, <2>4, <2>5, <2>6, <2>7, <2>8
<1>5. CASE task_status[t] # "cancelled"
  <2>1. /\ task_status' = [task_status EXCEPT ![t] = "running"]
        /\ begun' = [begun EXCEPT ![t] = @ + 1]
        /\ coroutine' = [coroutine EXCEPT ![w] = "running"]
        /\ current' = [current EXCEPT ![w] = t] /\ unfinished' = unfinished
    BY <1>5 DEF TakeTask
  <2>2. task_status[t] = "pending"
    BY <1>2, <1>5 DEF StatusTellsPlace
  <2> HIDE DEF t
  <2>3. /\ current'[w] = t /\ coroutine'[w] = "running"
        /\ \A v \in Slots \ {w} : current'[v] = current[v] /\ coroutine'[v] = coroutine[v]
        /\ task_status'[t] = "running" /\ begun'[t] = begun[t] + 1
        /\ \A u \in Tasks \ {t} : task_status'[u] = task_status[u] /\ begun'[u] = begun[u]
    BY <1>2, <2>1 DEF PoolTypeOK
  <2>4. JoinCountsTheWork' /\ unfinished' \in Nat
    <3>1. /\ \A v \in Slots \ {w} : coroutine'[v] = coroutine[v]
          /\ coroutine[w] # "running" /\ coroutine'[w] = "running"
      BY <1>1, <2>3
    <3>2. /\ Cardinality({v \in Slots : coroutine'[v] = "running"})
               = Cardinality({v \in Slots : coroutine[v] = "running"}) + 1
          /\ Cardinality({v \in Slots : coroutine[v] = "running"}) \in Nat
      BY <3>1, RunningCounted
    <3>3. QED BY <1>2, <2>1, <3>2 DEF JoinCountsTheWork
  <2>5. PoolTypeOK'
    BY <1>1, <1>2, <2>1, <2>4 DEF PoolTypeOK
  <2>6. RunnersHoldOne'
    BY <1>2, <1>3, <2>3, PoolAssumption DEF RunnersHoldOne
  <2>7. StatusTellsPlace'
    BY <1>2, <1>3, <2>3 DEF StatusTellsPlace
  <2>8. AttemptsCounted'
    BY <1>1, <1>2, <1>3, <2>2, <2>3, PoolAssumption DEF AttemptsCounted, PoolTypeOK, Allowed
  <2>9. FailuresListed'
    BY <1>1, <2>2, <2>3 DEF FailuresListed
  <2>10. QED BY <1>2, <2>4, <2>5, <2>6, <2>7, <2>8, <2>9
<1>6. QED BY <1>4, <1>5

(* A worker whose handler has ended runs nothing, and has run one task. *)
LEMMA EndOfTaskFacts ==
  ASSUME WorkerIInv, NEW w \in Slots, coroutine[w] = "running", EndOfTask(w)
  PROVE  /\ current[w] \in Tasks /\ current[w] \notin Waiting
         /\ current'[w] = NoTask
         /\ \A v \in Slots \ {w} : /\ current'[v] = current[v] /\ current[v] # current[w]
                                   /\ coroutine'[v] = coroutine[v]
         /\ coroutine'[w] \in {"stopped", "waiting"}
         /\ coroutine' \in [Slots -> {"stopped", "waiting", "running"}]
         /\ current' \in [Slots -> Tasks \cup {NoTask}]
         /\ Cardinality({v \in Slots : coroutine'[v] = "running"}) \in Nat
         /\ Cardinality({v \in Slots : coroutine[v] = "running"})
              = Cardinality({v \in Slots : coroutine'[v] = "running"}) + 1
         /\ UNCHANGED <<running, shutdown_event, draining, begun>>
<1>1. /\ coroutine' = [coroutine EXCEPT ![w] = LoopAgain]
      /\ current' = [current EXCEPT ![w] = NoTask]
      /\ UNCHANGED <<running, shutdown_event, draining, begun>>
  BY DEF EndOfTask, poolVars
<1>2. LoopAgain \in {"stopped", "waiting"}
  BY DEF LoopAgain
<1>3. current[w] \in Tasks /\ current[w] \notin Waiting
      /\ \A v \in Slots \ {w} : current[v] # current[w]
  BY DEF WorkerIInv, PoolTypeOK, RunnersHoldOne
<1>4. /\ current'[w] = NoTask /\ coroutine'[w] \in {"stopped", "waiting"}
      /\ \A v \in Slots \ {w} : current'[v] = current[v] /\ coroutine'[v] = coroutine[v]
      /\ coroutine' \in [Slots -> {"stopped", "waiting", "running"}]
      /\ current' \in [Slots -> Tasks \cup {NoTask}]
  BY <1>1, <1>2 DEF WorkerIInv, PoolTypeOK
<1>5. /\ Cardinality({v \in Slots : coroutine'[v] = "running"}) \in Nat
      /\ Cardinality({v \in Slots : coroutine[v] = "running"})
           = Cardinality({v \in Slots : coroutine'[v] = "running"}) + 1
  <2>1. /\ \A v \in Slots \ {w} : coroutine'[v] = coroutine[v]
        /\ coroutine[w] = "running" /\ coroutine'[w] # "running"
    BY <1>4
  <2>2. QED BY <2>1, RunningCounted
<1>6. QED BY <1>1, <1>3, <1>4, <1>5

(* The name of no task is not queued. *)
LEMMA NoTaskIsQueued == ASSUME WorkerIInv PROVE NoTask \notin Waiting
<1>1. DOMAIN task_queue = 1 .. Len(task_queue) /\ \A i \in 1 .. Len(task_queue) : task_queue[i] \in Tasks
  BY LenProperties, ElementOfSeq DEF WorkerIInv, PoolTypeOK
<1>2. QED BY <1>1, PoolAssumption DEF Waiting, ToSet

(* A handler that returns completes its task, cancelled meanwhile or not. *)
LEMMA CompleteTaskIInv == ASSUME WorkerIInv, NEW w \in Slots, CompleteTask(w) PROVE WorkerIInv'
<1> USE DEF WorkerIInv
<1> DEFINE t == current[w]
<1>1. /\ coroutine[w] = "running" /\ EndOfTask(w)
      /\ task_status' = [task_status EXCEPT ![t] = "completed"]
      /\ unfinished' = unfinished - 1 /\ UNCHANGED <<task_retries, task_queue, dead_letter>>
  BY DEF CompleteTask
<1>2. /\ t \in Tasks /\ t \notin Waiting /\ current'[w] = NoTask
      /\ \A v \in Slots \ {w} : current'[v] = current[v] /\ current[v] # t
                                /\ coroutine'[v] = coroutine[v]
      /\ coroutine'[w] \in {"stopped", "waiting"}
      /\ coroutine' \in [Slots -> {"stopped", "waiting", "running"}]
      /\ current' \in [Slots -> Tasks \cup {NoTask}]
      /\ UNCHANGED <<running, shutdown_event, draining, begun>>
  BY <1>1, EndOfTaskFacts
<1>3. Waiting' = Waiting
  BY <1>1 DEF Waiting
<1>4. task_status[t] \in {"running", "cancelled"}
  BY <1>2 DEF StatusTellsPlace
<1> HIDE DEF t
<1>5. JoinCountsTheWork' /\ unfinished' \in Nat
  <2>1. /\ Cardinality({v \in Slots : coroutine'[v] = "running"}) \in Nat
        /\ Cardinality({v \in Slots : coroutine[v] = "running"})
             = Cardinality({v \in Slots : coroutine'[v] = "running"}) + 1
    BY <1>1, EndOfTaskFacts
  <2>2. Len(task_queue) \in Nat
    BY LenProperties DEF PoolTypeOK
  <2>3. QED BY <1>1, <2>1, <2>2 DEF JoinCountsTheWork
<1>6. PoolTypeOK'
  BY <1>1, <1>2, <1>5 DEF PoolTypeOK, Settled
<1>7. RunnersHoldOne'
  <2>1. \A v \in Slots : current'[v] # NoTask => v # w /\ current'[v] = current[v]
    BY <1>2, <1>3
  <2>2. NoTask \notin Waiting'
    BY <1>2, <1>3, NoTaskIsQueued
  <2>3. \A v \in Slots : coroutine'[v] = "running" <=> current'[v] # NoTask
    BY <1>2, <1>3 DEF RunnersHoldOne
  <2>4. QED BY <1>2, <1>3, <2>1, <2>2, <2>3 DEF RunnersHoldOne
<1>8. StatusTellsPlace'
  BY <1>1, <1>2, <1>3, PoolAssumption DEF StatusTellsPlace, PoolTypeOK
<1>9. AttemptsCounted'
  BY <1>1, <1>2, <1>3, PoolAssumption DEF AttemptsCounted, PoolTypeOK
<1>10. FailuresListed'
  BY <1>1, <1>2, <1>4 DEF FailuresListed, PoolTypeOK
<1>11. QED BY <1>1, <1>5, <1>6, <1>7, <1>8, <1>9, <1>10

(* A failed attempt that is not the last one puts the task back. *)
LEMMA FailTaskIInv == ASSUME WorkerIInv, NEW w \in Slots, FailTask(w) PROVE WorkerIInv'
<1> USE DEF WorkerIInv
<1> DEFINE t == current[w]
<1>1. /\ coroutine[w] = "running" /\ EndOfTask(w)
      /\ task_retries' = [task_retries EXCEPT ![t] = @ + 1]
      /\ IF Retries(t)
         THEN /\ task_status' = [task_status EXCEPT ![t] = "pending"]
              /\ task_queue' = Append(task_queue, t)
              /\ UNCHANGED <<unfinished, dead_letter>>
         ELSE /\ task_status' = [task_status EXCEPT ![t] = "failed"]
              /\ dead_letter' = Append(dead_letter, t)
              /\ unfinished' = unfinished - 1
              /\ UNCHANGED task_queue
  BY DEF FailTask
<1>2. /\ t \in Tasks /\ t \notin Waiting /\ current'[w] = NoTask
      /\ \A v \in Slots \ {w} : current'[v] = current[v] /\ current[v] # t
                                /\ coroutine'[v] = coroutine[v]
      /\ coroutine'[w] \in {"stopped", "waiting"}
      /\ coroutine' \in [Slots -> {"stopped", "waiting", "running"}]
      /\ current' \in [Slots -> Tasks \cup {NoTask}]
      /\ UNCHANGED <<running, shutdown_event, draining, begun>>
  BY <1>1, EndOfTaskFacts
<1>3. /\ task_status[t] \in {"running", "cancelled"} /\ begun[t] = task_retries[t] + 1
      /\ begun[t] <= Allowed
  BY <1>2 DEF StatusTellsPlace, AttemptsCounted
<1>4. /\ Cardinality({v \in Slots : coroutine'[v] = "running"}) \in Nat
      /\ Cardinality({v \in Slots : coroutine[v] = "running"})
           = Cardinality({v \in Slots : coroutine'[v] = "running"}) + 1
  BY <1>1, EndOfTaskFacts
<1>5. task_retries' \in [Tasks -> Nat] /\ task_retries'[t] = begun[t]
      /\ \A u \in Tasks \ {t} : task_retries'[u] = task_retries[u]
  BY <1>1, <1>2, <1>3 DEF PoolTypeOK
<1>6. \A v \in Slots : current'[v] # t
  BY <1>2, PoolAssumption
<1>7. CASE Retries(t)
  <2>1. /\ task_status' = [task_status EXCEPT ![t] = "pending"]
        /\ task_queue' = Append(task_queue, t) /\ UNCHANGED <<unfinished, dead_letter>>
    BY <1>1, <1>7
  <2>2. begun[t] < Allowed
    BY <1>2, <1>3, <1>7, PoolAssumption DEF Retries, Allowed, PoolTypeOK
  <2>3. /\ task_queue' \in Seq(Tasks) /\ Len(task_queue') = Len(task_queue) + 1
        /\ Len(task_queue) \in Nat
        /\ Waiting' = Waiting \cup {t} /\ NoRepeat(task_queue)'
    BY <1>2, <2>1, AppendedSet DEF PoolTypeOK, Waiting
  <2> HIDE DEF t
  <2>4. PoolTypeOK'
    BY <1>2, <1>5, <2>1, <2>3 DEF PoolTypeOK
  <2>5. JoinCountsTheWork'
    BY <1>4, <2>1, <2>3 DEF JoinCountsTheWork
  <2>6. RunnersHoldOne'
    <3>1. \A v \in Slots : current'[v] # NoTask => v # w /\ current'[v] = current[v]
      BY <1>2, <1>6, <2>3
    <3>2. NoTask \notin Waiting'
      BY <1>2, <2>3, NoTaskIsQueued, PoolAssumption
    <3>3. \A v \in Slots : coroutine'[v] = "running" <=> current'[v] # NoTask
      BY <1>2, <1>6, <2>3 DEF RunnersHoldOne
    <3>4. QED BY <1>2, <1>6, <2>3, <3>1, <3>2, <3>3 DEF RunnersHoldOne
  <2>7. StatusTellsPlace'
    BY <1>2, <1>6, <2>1, <2>3, PoolAssumption DEF StatusTellsPlace, PoolTypeOK
  <2>8. AttemptsCounted'
    BY <1>2, <1>5, <1>6, <2>1, <2>2, <2>3, PoolAssumption DEF AttemptsCounted, PoolTypeOK
  <2>9. FailuresListed'
    BY <1>2, <1>3, <2>1 DEF FailuresListed, PoolTypeOK
  <2>10. QED BY <2>3, <2>4, <2>5, <2>6, <2>7, <2>8, <2>9
<1>8. CASE ~Retries(t)
  <2>1. /\ task_status' = [task_status EXCEPT ![t] = "failed"]
        /\ dead_letter' = Append(dead_letter, t)
        /\ unfinished' = unfinished - 1 /\ UNCHANGED task_queue
    BY <1>1, <1>8
  <2>2. begun[t] = Allowed
    BY <1>2, <1>3, <1>8, PoolAssumption DEF Retries, Allowed, PoolTypeOK
  <2>3. Waiting' = Waiting /\ Len(task_queue) \in Nat
    BY <2>1, LenProperties DEF Waiting, PoolTypeOK
  <2>4. t \notin ToSet(dead_letter)
    BY <1>3 DEF FailuresListed
  <2>5. /\ dead_letter' \in Seq(Tasks) /\ Len(dead_letter') = Len(dead_letter) + 1
        /\ ToSet(dead_letter') = ToSet(dead_letter) \cup {t}
    BY <1>2, <2>1, AppendedSet DEF PoolTypeOK
  <2> HIDE DEF t
  <2>6. JoinCountsTheWork' /\ unfinished' \in Nat
    BY <1>4, <2>1, <2>3 DEF JoinCountsTheWork
  <2>7. PoolTypeOK'
    BY <1>2, <1>5, <2>1, <2>5, <2>6 DEF PoolTypeOK, Settled
  <2>8. RunnersHoldOne'
    <3>1. \A v \in Slots : current'[v] # NoTask => v # w /\ current'[v] = current[v]
      BY <1>2, <2>3
    <3>2. NoTask \notin Waiting'
      BY <1>2, <2>3, NoTaskIsQueued
    <3>3. \A v \in Slots : coroutine'[v] = "running" <=> current'[v] # NoTask
      BY <1>2, <2>3 DEF RunnersHoldOne
    <3>4. QED BY <1>2, <2>3, <3>1, <3>2, <3>3 DEF RunnersHoldOne
  <2>9. StatusTellsPlace'
    BY <1>2, <1>6, <2>1, <2>3, PoolAssumption DEF StatusTellsPlace, PoolTypeOK
  <2>10. AttemptsCounted'
    BY <1>2, <1>5, <1>6, <2>1, <2>2, <2>3, PoolAssumption DEF AttemptsCounted, PoolTypeOK
  <2>11. FailuresListed'
    <3>1. ToSet(dead_letter') = {u \in Tasks : task_status'[u] = "failed"}
      BY <1>2, <2>1, <2>5 DEF FailuresListed, PoolTypeOK
    <3>2. /\ IsFiniteSet(ToSet(dead_letter'))
          /\ Cardinality(ToSet(dead_letter')) = Cardinality(ToSet(dead_letter)) + 1
      BY <2>4, <2>5, FS_AddElement DEF FailuresListed
    <3>3. QED BY <2>5, <3>1, <3>2 DEF FailuresListed
  <2>12. QED BY <2>1, <2>6, <2>7, <2>8, <2>9, <2>10, <2>11
<1>9. QED BY <1>7, <1>8

(* Cancelling every worker leaves tasks "running" that nobody runs, and    *)
(* acknowledges them.                                                      *)
LEMMA CancelWorkersIInv ==
  ASSUME WorkerIInv, CancelWorkers,
         running' \in BOOLEAN, shutdown_event' \in BOOLEAN, draining' \in BOOLEAN
  PROVE  WorkerIInv'
<1> USE DEF WorkerIInv
<1> DEFINE n == Cardinality({w \in Slots : coroutine[w] = "running"})
<1>1. /\ coroutine' = [w \in Slots |-> "stopped"] /\ current' = [w \in Slots |-> NoTask]
      /\ unfinished' = unfinished - n
      /\ UNCHANGED <<task_status, task_retries, task_queue, dead_letter, begun>>
  BY DEF CancelWorkers
<1>2. n \in Nat /\ Len(task_queue) \in Nat /\ unfinished = Len(task_queue) + n
  BY FS_Subset, FS_CardinalityType, PoolAssumption, LenProperties DEF PoolTypeOK, JoinCountsTheWork
<1> HIDE DEF n
<1>3. unfinished' = Len(task_queue) /\ unfinished' \in Nat
  BY <1>1, <1>2
<1>4. Waiting' = Waiting /\ NoTask \notin Waiting
  <2>1. ToSet(task_queue) \subseteq Tasks
    BY LenProperties DEF ToSet, PoolTypeOK
  <2>2. QED BY <1>1, <2>1, PoolAssumption DEF Waiting
<1>5. PoolTypeOK'
  BY <1>1, <1>3 DEF PoolTypeOK
<1>6. JoinCountsTheWork'
  <2>1. RunningSlots' = {}
    BY <1>1 DEF RunningSlots
  <2>2. unfinished' = Len(task_queue') + Cardinality(RunningSlots')
    BY <1>1, <1>2, <1>3, <2>1, FS_EmptySet
  <2>3. QED BY <2>2 DEF JoinCountsTheWork, RunningSlots
<1>7. RunnersHoldOne'
  BY <1>1, <1>4 DEF RunnersHoldOne
<1>8. StatusTellsPlace'
  BY <1>1, <1>4, PoolAssumption DEF StatusTellsPlace
<1>9. AttemptsCounted'
  BY <1>1, <1>4, PoolAssumption DEF AttemptsCounted
<1>10. FailuresListed'
  BY <1>1 DEF FailuresListed
<1>11. QED BY <1>1, <1>5, <1>6, <1>7, <1>8, <1>9, <1>10

(* Every step of pool, workers and callers keeps the invariant. *)
LEMMA WorkerNextIInv == WorkerIInv /\ [WorkerNext]_workerVars => WorkerIInv'
<1> SUFFICES ASSUME WorkerIInv, [WorkerNext]_workerVars PROVE WorkerIInv'
  OBVIOUS
<1>1. ASSUME ShutdownNow \/ EndDrain PROVE WorkerIInv'
  <2>1. CancelWorkers
    BY <1>1 DEF ShutdownNow, EndDrain
  <2>2. running' \in BOOLEAN /\ shutdown_event' \in BOOLEAN /\ draining' \in BOOLEAN
    BY <1>1 DEF ShutdownNow, EndDrain, WorkerIInv, PoolTypeOK
  <2>3. QED BY <2>1, <2>2, CancelWorkersIInv
<1>2. CASE UNCHANGED workerVars
  <2>1. /\ UNCHANGED <<taskVars, current, begun>>
        /\ UNCHANGED <<coroutine, running, shutdown_event, draining>>
    BY <1>2 DEF workerVars, coroutineVars, poolVars
  <2>2. QED BY <2>1, IdleStepKeeps DEF WorkerIInv, PoolTypeOK
<1>3. CASE WorkerNext
  BY <1>1, <1>3, StartIInv, BeginDrainIInv, SubmitTaskIInv, CancelTaskIInv, TakeTaskIInv,
    StopOnTimeoutIInv, CompleteTaskIInv, FailTaskIInv DEF WorkerNext, WorkerStep
<1>4. QED BY <1>2, <1>3

(* The inductive invariant of the pool. *)
LEMMA WorkerInvariance == WorkerSpec => []WorkerIInv
BY WorkerInitIInv, WorkerNextIInv, PTL DEF WorkerSpec

-----------------------------------------------------------------------------
(* The invariant, in the numbers of the properties: a queue without        *)
(* repetitions holds a task once, and a task without a second runner is    *)
(* run once.                                                               *)
LEMMA PlacesCounted == WorkerIInv => OnePlace
<1> SUFFICES ASSUME WorkerIInv, NEW t \in Tasks
             PROVE  /\ Cardinality(InQueue(t)) + Cardinality(Runners(t)) <= 1
                    /\ task_status[t] = "pending" => InQueue(t) # {}
                    /\ task_status[t] \in {"absent", "completed", "failed"} =>
                         InQueue(t) = {} /\ Runners(t) = {}
  BY DEF OnePlace
<1> USE DEF WorkerIInv
<1>1. t \in Waiting <=> InQueue(t) # {}
  BY DEF Waiting, ToSet, InQueue
<1>2. InQueue(t) = {} \/ \E i : InQueue(t) = {i}
  <2> SUFFICES ASSUME NEW i \in InQueue(t) PROVE InQueue(t) = {i}
    OBVIOUS
  <2>1. \A j \in InQueue(t) : j = i
    BY DEF InQueue, NoRepeat
  <2>2. QED BY <2>1
<1>3. Runners(t) = {} \/ \E w : Runners(t) = {w}
  <2> SUFFICES ASSUME NEW w \in Runners(t) PROVE Runners(t) = {w}
    OBVIOUS
  <2>1. \A v \in Runners(t) : v = w
    BY PoolAssumption DEF Runners, RunnersHoldOne
  <2>2. QED BY <2>1
<1>4. InQueue(t) = {} \/ Runners(t) = {}
  BY <1>1 DEF Runners, RunnersHoldOne
<1>5. /\ InQueue(t) = {} => Cardinality(InQueue(t)) = 0
      /\ Runners(t) = {} => Cardinality(Runners(t)) = 0
  BY FS_EmptySet
<1>6. Cardinality(InQueue(t)) \in {0, 1} /\ Cardinality(Runners(t)) \in {0, 1}
  BY <1>2, <1>3, <1>5, FS_Singleton
<1>7. Cardinality(InQueue(t)) + Cardinality(Runners(t)) <= 1
  BY <1>4, <1>5, <1>6
<1>8. QED BY <1>1, <1>7 DEF StatusTellsPlace, Runners

(* However tasks are cancelled, retried, and pools shut down and started   *)
(* again, no task is lost while it waits, queued twice or run by two       *)
(* workers, and queue.join() waits for exactly the work that is left.      *)
THEOREM NoTaskIsLostOrDoubled == WorkerSpec => []WorkIsAccountedFor
<1>1. WorkerIInv => WorkIsAccountedFor
  BY PlacesCounted DEF WorkerIInv, WorkIsAccountedFor
<1>2. QED BY <1>1, WorkerInvariance, PTL

(* The dead letter queue holds each failed task once and nothing else, and *)
(* no task is begun more often than once and max_retries times again.      *)
THEOREM DeadLettersAreComplete == WorkerSpec => []DeadLettersAreTheFailed
<1>1. WorkerIInv => DeadLettersAreTheFailed
  <2>1. Allowed \in Nat /\ Allowed >= 1 /\ Allowed <= 1 + MaxRetries
    BY PoolAssumption DEF Allowed
  <2>2. WorkerIInv => \A t \in Tasks : begun[t] \in Nat /\ begun[t] <= Allowed
                                         /\ (task_status[t] = "failed" => begun[t] = Allowed)
    BY DEF WorkerIInv, PoolTypeOK, AttemptsCounted
  <2>3. WorkerIInv => \A t \in Tasks : begun[t] <= 1 + MaxRetries /\ (task_status[t] = "failed" => begun[t] >= 1)
    BY <2>1, <2>2, PoolAssumption
  <2>4. QED BY <2>3 DEF WorkerIInv, FailuresListed, DeadLettersAreTheFailed
<1>2. QED BY <1>1, WorkerInvariance, PTL

(* When the join of a drained shutdown is over, no handler is running that *)
(* the cancellation of the workers could cut off.                          *)
THEOREM DrainsAreGraceful == WorkerSpec => DrainInterruptsNothing
<1>1. WorkerIInv /\ [WorkerNext]_workerVars =>
        [draining /\ ~draining' => \A w \in Slots : coroutine[w] # "running"]_workerVars
  <2> SUFFICES ASSUME WorkerIInv, WorkerNext, draining, ~draining'
               PROVE  \A w \in Slots : coroutine[w] # "running"
    OBVIOUS
  <2>1. EndDrain
    BY DEF WorkerNext, Start, ShutdownNow, BeginDrain, SubmitTask, CancelTask, WorkerStep,
      TakeTask, StopOnTimeout, CompleteTask, FailTask, EndOfTask, poolVars
  <2>2. /\ IsFiniteSet(RunningSlots) /\ Cardinality(RunningSlots) \in Nat
        /\ Len(task_queue) \in Nat /\ 0 = Len(task_queue) + Cardinality(RunningSlots)
    BY <2>1, FS_Subset, FS_CardinalityType, LenProperties, PoolAssumption
       DEF EndDrain, WorkerIInv, PoolTypeOK, JoinCountsTheWork, RunningSlots
  <2>3. RunningSlots = {}
    BY <2>2, FS_EmptySet
  <2>4. QED BY <2>3 DEF RunningSlots
<1>2. QED BY <1>1, WorkerInvariance, PTL DEF WorkerSpec, DrainInterruptsNothing

-----------------------------------------------------------------------------
(* The failover manager.  PrimaryIsWritable and OnePrimary are not         *)
(* inductive: they need what a suspended call has read before its await    *)
(* and still relies on after it.  IInv adds that.                          *)

Suspended(c) == call[c] # NoCall

(* A suspended failover is the only one, and active_failover names it. *)
FailoverHoldsManager ==
  /\ \A c, d \in Calls : call[c].kind = "failover" /\ call[d].kind = "failover" => c = d
  /\ active_failover # None => \E c \in Calls : call[c].kind = "failover"
  /\ \A c \in Calls : call[c].kind = "failover" =>
       call[c].failed = active_failover /\ active_failover # None

(* A call promotes another region than the primary it has read. *)
PromotesAnother == \A c \in Calls : Suspended(c) => call[c].target # call[c].previous

(* As long as calls came one at a time, what the suspended one has read    *)
(* still holds.                                                            *)
NothingReadIsStale ==
  crossed \/
    /\ \A c, d \in Calls : Suspended(c) /\ Suspended(d) => c = d
    /\ \A c \in Calls : Suspended(c) => call[c].previous = primary_region
    /\ \A c \in Calls : call[c].kind = "failover" => call[c].failed = primary_region

IInv == /\ TypeOK
        /\ FailoverHoldsManager
        /\ PrimaryIsWritable
        /\ PromotesAnother
        /\ NothingReadIsStale
        /\ OnePrimary

-----------------------------------------------------------------------------
(* What a slot for a call may hold. *)
LEMMA CallShape ==
  ASSUME TypeOK, NEW c \in Calls
  PROVE  /\ call[c].kind \in {"none", "failover", "rollback"}
         /\ Suspended(c) <=> call[c].kind # "none"
         /\ Suspended(c) => call[c] \in Pending /\ call[c].target \in Regions
                            /\ call[c].previous \in Regions
         /\ call[c].kind = "failover" => call[c].failed \in Regions
BY DEF TypeOK, Pending, NoCall, Suspended

(* The invariant holds at the start. *)
LEMMA InitIInv == Init => IInv
<1> SUFFICES ASSUME Init PROVE IInv
  OBVIOUS
<1>1. TypeOK
  BY TopologyAssumption DEF Init, TopologyInit, TypeOK, TopologyTypeOK
<1>2. \A c \in Calls : call[c] = NoCall /\ call[c].kind = "none"
  BY DEF Init, NoCall
<1>3. FailoverHoldsManager /\ PromotesAnother /\ NothingReadIsStale
  BY <1>2 DEF Init, FailoverHoldsManager, PromotesAnother, NothingReadIsStale, Suspended
<1>4. PrimaryIsWritable /\ OnePrimary
  BY TopologyAssumption DEF Init, TopologyInit, PrimaryIsWritable, OnePrimary
<1>5. QED BY <1>1, <1>3, <1>4 DEF IInv

(* A probe only changes what the router thinks of a region's health. *)
LEMMA ProbeIInv ==
  ASSUME IInv, NEW r \in Regions, Probe(r)
  PROVE  IInv'
<1>1. TypeOK'
  BY DEF IInv, Probe, TypeOK, TopologyTypeOK, topology, manager
<1>2. QED
  BY <1>1 DEF IInv, Probe, topology, manager, FailoverHoldsManager, PrimaryIsWritable,
    PromotesAnother, NothingReadIsStale, OnePrimary, Suspended

(* A failover that begins finds no other, and reads the primary of now. *)
LEMMA TriggerFailoverIInv ==
  ASSUME IInv, NEW c \in Calls, NEW failed \in Regions, NEW target \in Regions,
         TriggerFailover(c, failed, target)
  PROVE  IInv'
<1> DEFINE f == Failover(failed, target)
<1>1. /\ call[c] = NoCall /\ active_failover = None
      /\ primary_region' = primary_region /\ replica_regions' = replica_regions
      /\ role' = role /\ is_primary' = is_primary
      /\ crossed' = (crossed \/ failed # primary_region \/ \E d \in Calls : call[d] # NoCall)
  BY DEF TriggerFailover, MayBegin, Begin, topology
<1>2. \A d \in Calls : call[d].kind # "failover"
  BY <1>1 DEF IInv, FailoverHoldsManager
<1>3. f \in Pending /\ f # NoCall /\ f.kind = "failover" /\ f.failed = failed
      /\ f.target = target /\ f.previous = primary_region
  BY DEF Failover, Pending, NoCall, IInv, TypeOK, TopologyTypeOK
<1>4. PrimaryIsWritable'
  BY <1>1 DEF IInv, PrimaryIsWritable
<1>5. OnePrimary'
  BY <1>1 DEF IInv, OnePrimary
<1>6. CASE MayPromote(target)
  <2>1. active_failover' = failed /\ call' = [call EXCEPT ![c] = f]
    BY <1>6 DEF TriggerFailover
  <2>2. \A d \in Calls : call'[d] = IF d = c THEN f ELSE call[d]
    BY <2>1 DEF IInv, TypeOK
  <2>3. TypeOK'
    BY <1>1, <1>3, <2>1 DEF IInv, TypeOK, TopologyTypeOK, TriggerFailover
  <2>4. FailoverHoldsManager'
    BY <1>2, <1>3, <2>1, <2>2, ManagerAssumption DEF FailoverHoldsManager
  <2>5. target # primary_region
    BY <1>6 DEF IInv, PrimaryIsWritable, MayPromote
  <2>6. PromotesAnother'
    BY <1>3, <2>2, <2>5 DEF IInv, PromotesAnother, Suspended
  <2>7. NothingReadIsStale'
    BY <1>1, <1>3, <2>2, CallShape DEF IInv, NothingReadIsStale, Suspended
  <2>8. QED BY <1>4, <1>5, <2>3, <2>4, <2>6, <2>7 DEF IInv
<1>7. CASE ~MayPromote(target)
  <2>1. active_failover' = active_failover /\ call' = call
    BY <1>7 DEF TriggerFailover
  <2>2. TypeOK'
    BY <1>1, <2>1 DEF IInv, TypeOK, TopologyTypeOK, TriggerFailover
  <2>3. FailoverHoldsManager' /\ PromotesAnother'
    BY <2>1 DEF IInv, FailoverHoldsManager, PromotesAnother, Suspended
  <2>4. NothingReadIsStale'
    BY <1>1, <2>1 DEF IInv, NothingReadIsStale, Suspended
  <2>5. QED BY <1>4, <1>5, <2>2, <2>3, <2>4 DEF IInv
<1>8. QED BY <1>6, <1>7

(* The auto-detection marks a region, or triggers a failover. *)
LEMMA DetectFailureIInv ==
  ASSUME IInv, NEW c \in Calls, NEW r \in Regions, DetectFailure(c, r)
  PROVE  IInv'
<1>1. CASE Preferred[r] # None /\ active_failover = None
  BY <1>1, TriggerFailoverIInv, ManagerAssumption DEF DetectFailure
<1>2. CASE ~(Preferred[r] # None /\ active_failover = None)
  <2>1. /\ region_status' = [region_status EXCEPT ![r] = "unavailable"]
        /\ UNCHANGED <<topology, is_primary, manager, call, crossed>>
    BY <1>2 DEF DetectFailure
  <2>2. TypeOK'
    BY <2>1 DEF IInv, TypeOK, TopologyTypeOK, topology, manager
  <2>3. QED
    BY <2>1, <2>2 DEF IInv, topology, manager, FailoverHoldsManager, PrimaryIsWritable,
      PromotesAnother, NothingReadIsStale, OnePrimary, Suspended
<1>3. QED BY <1>1, <1>2

(* The promoted region gets the primary role and leaves the replicas, if   *)
(* it is another one than the previous primary.                            *)
LEMMA PromotedIsWritable ==
  ASSUME TopologyTypeOK, NEW r \in Regions, NEW previous \in Regions, r # previous,
         Promoted(r, previous)
  PROVE  /\ TopologyTypeOK'
         /\ PrimaryIsWritable'
         /\ \A q \in Regions : role'[q] = IF q = r THEN "primary"
                                          ELSE IF q = previous THEN "replica" ELSE role[q]
BY DEF TopologyTypeOK, Promoted, PrimaryIsWritable

(* A failover that comes back clears the manager. *)
LEMMA FinishFailoverIInv ==
  ASSUME IInv, NEW c \in Calls, FinishFailover(c)
  PROVE  IInv'
<1> DEFINE target == call[c].target
           previous == call[c].previous
           failed == call[c].failed
<1>1. /\ call[c].kind = "failover" /\ Suspended(c) /\ call[c] \in Pending
      /\ target \in Regions /\ previous \in Regions /\ failed \in Regions
      /\ target # previous
  BY CallShape DEF IInv, FinishFailover, PromotesAnother
<1>2. /\ Promoted(target, previous)
      /\ is_primary' = [is_primary EXCEPT ![target] = TRUE, ![failed] = FALSE]
      /\ region_status' = [region_status EXCEPT ![target] = "failover"]
      /\ active_failover' = None
      /\ call' = [call EXCEPT ![c] = NoCall]
      /\ original_primary' = original_primary /\ crossed' = crossed
  BY DEF FinishFailover
<1>3. TopologyTypeOK' /\ PrimaryIsWritable'
      /\ \A q \in Regions : role'[q] = IF q = target THEN "primary"
                                       ELSE IF q = previous THEN "replica" ELSE role[q]
  BY <1>1, <1>2, PromotedIsWritable DEF IInv, TypeOK
<1>4. \A d \in Calls : call'[d] = IF d = c THEN NoCall ELSE call[d]
  BY <1>2 DEF IInv, TypeOK
<1>5. TypeOK'
  BY <1>1, <1>2, <1>3 DEF IInv, TypeOK
<1>6. FailoverHoldsManager'
  BY <1>1, <1>2, <1>4 DEF IInv, FailoverHoldsManager, NoCall
<1>7. PromotesAnother'
  BY <1>4 DEF IInv, PromotesAnother, Suspended
<1>8. NothingReadIsStale' /\ OnePrimary'
  <2>1. CASE crossed
    BY <1>2, <2>1 DEF NothingReadIsStale, OnePrimary
  <2>2. CASE ~crossed
    <3>1. failed = primary_region /\ previous = primary_region
      BY <1>1, <2>2 DEF IInv, NothingReadIsStale
    <3>2. \A d \in Calls : call'[d] = NoCall /\ call'[d].kind = "none"
      BY <1>1, <1>4, <2>2 DEF IInv, NothingReadIsStale, Suspended, NoCall
    <3>3. NothingReadIsStale'
      BY <3>2 DEF NothingReadIsStale, Suspended
    <3>4. primary_region' = target
          /\ replica_regions' = (replica_regions \ {target}) \cup {previous}
      BY <1>2 DEF Promoted
    <3>5. \A q \in Regions : is_primary'[q] <=> q = target
      BY <1>1, <1>2, <2>2, <3>1 DEF IInv, TypeOK, OnePrimary
    <3>6. OnePrimary'
      BY <1>1, <1>3, <2>2, <3>1, <3>4, <3>5 DEF IInv, OnePrimary
    <3>7. QED BY <3>3, <3>6
  <2>3. QED BY <2>1, <2>2
<1>9. QED BY <1>3, <1>5, <1>6, <1>7, <1>8 DEF IInv

(* A rollback that begins reads the primary of now, and leaves             *)
(* active_failover alone.                                                  *)
LEMMA BeginRollbackIInv ==
  ASSUME IInv, NEW c \in Calls, NEW r \in Regions, BeginRollback(c, r)
  PROVE  IInv'
<1> DEFINE b == [kind |-> "rollback", target |-> r, previous |-> primary_region]
<1>1. /\ call[c] = NoCall /\ r \in replica_regions
      /\ call' = [call EXCEPT ![c] = b]
      /\ crossed' = (crossed \/ \E d \in Calls : call[d] # NoCall)
      /\ UNCHANGED <<primary_region, replica_regions, role, region_status, is_primary,
                     active_failover, original_primary>>
  BY DEF BeginRollback, MayBegin, MayPromote, Begin, topology, router, manager
<1>2. /\ b \in Pending /\ b # NoCall /\ r # primary_region
      /\ b.kind = "rollback" /\ b.target = r /\ b.previous = primary_region
  BY <1>1 DEF Pending, NoCall, IInv, TypeOK, TopologyTypeOK, PrimaryIsWritable
<1>3. \A d \in Calls : call'[d] = IF d = c THEN b ELSE call[d]
  BY <1>1 DEF IInv, TypeOK
<1>4. call[c].kind = "none"
  BY <1>1 DEF NoCall
<1>5. TypeOK'
  BY <1>1, <1>2 DEF IInv, TypeOK, TopologyTypeOK
<1>6. FailoverHoldsManager'
  BY <1>1, <1>3, <1>4 DEF IInv, FailoverHoldsManager
<1>7. PromotesAnother'
  BY <1>2, <1>3 DEF IInv, PromotesAnother, Suspended
<1>8. NothingReadIsStale'
  <2> HIDE DEF b
  <2>1. CASE crossed'
    BY <2>1 DEF NothingReadIsStale
  <2>2. CASE ~crossed'
    <3>1. \A d \in Calls : call[d] = NoCall
      BY <1>1, <2>2, Zenon
    <3>2. \A d \in Calls : d # c => call'[d] = NoCall /\ call'[d].kind = "none"
      BY <1>3, <3>1 DEF NoCall
    <3>3. call'[c] = b
      BY <1>3
    <3>4. QED BY <1>1, <1>2, <3>2, <3>3 DEF NothingReadIsStale, Suspended
  <2>3. QED BY <2>1, <2>2
<1>9. PrimaryIsWritable' /\ OnePrimary'
  BY <1>1 DEF IInv, PrimaryIsWritable, OnePrimary
<1>10. QED BY <1>5, <1>6, <1>7, <1>8, <1>9 DEF IInv

(* A rollback that comes back makes its region the only primary. *)
LEMMA FinishRollbackIInv ==
  ASSUME IInv, NEW c \in Calls, FinishRollback(c)
  PROVE  IInv'
<1> DEFINE r == call[c].target
           previous == call[c].previous
<1>1. /\ call[c].kind = "rollback" /\ Suspended(c)
      /\ r \in Regions /\ previous \in Regions /\ r # previous
  BY CallShape DEF IInv, FinishRollback, PromotesAnother
<1>2. /\ Promoted(r, previous)
      /\ is_primary' = [q \in Regions |-> q = r]
      /\ region_status' = [q \in Regions |-> IF q = r \/ is_primary[q] THEN "healthy"
                                             ELSE region_status[q]]
      /\ original_primary' = None
      /\ call' = [call EXCEPT ![c] = NoCall]
      /\ active_failover' = active_failover /\ crossed' = crossed
  BY DEF FinishRollback
<1>3. TopologyTypeOK' /\ PrimaryIsWritable'
      /\ \A q \in Regions : role'[q] = IF q = r THEN "primary"
                                       ELSE IF q = previous THEN "replica" ELSE role[q]
  BY <1>1, <1>2, PromotedIsWritable DEF IInv, TypeOK
<1>4. \A d \in Calls : call'[d] = IF d = c THEN NoCall ELSE call[d]
  BY <1>2 DEF IInv, TypeOK
<1>5. TypeOK'
  BY <1>1, <1>2, <1>3 DEF IInv, TypeOK
<1>6. FailoverHoldsManager'
  BY <1>1, <1>2, <1>4 DEF IInv, FailoverHoldsManager, NoCall
<1>7. PromotesAnother'
  BY <1>4 DEF IInv, PromotesAnother, Suspended
<1>8. NothingReadIsStale' /\ OnePrimary'
  <2>1. CASE crossed
    BY <1>2, <2>1 DEF NothingReadIsStale, OnePrimary
  <2>2. CASE ~crossed
    <3>1. previous = primary_region
      BY <1>1, <2>2 DEF IInv, NothingReadIsStale
    <3>2. \A d \in Calls : call'[d] = NoCall /\ call'[d].kind = "none"
      BY <1>1, <1>4, <2>2 DEF IInv, NothingReadIsStale, Suspended, NoCall
    <3>3. NothingReadIsStale'
      BY <3>2 DEF NothingReadIsStale, Suspended
    <3>4. primary_region' = r /\ replica_regions' = (replica_regions \ {r}) \cup {previous}
      BY <1>2 DEF Promoted
    <3>5. OnePrimary'
      BY <1>1, <1>2, <1>3, <2>2, <3>1, <3>4 DEF IInv, OnePrimary
    <3>6. QED BY <3>3, <3>5
  <2>3. QED BY <2>1, <2>2
<1>9. QED BY <1>3, <1>5, <1>6, <1>7, <1>8 DEF IInv

(* A call that is cancelled leaves topology and router alone, and a        *)
(* failover frees the manager on its way out.                              *)
LEMMA AbandonIInv ==
  ASSUME IInv, NEW c \in Calls, Abandon(c)
  PROVE  IInv'
<1>1. /\ Suspended(c)
      /\ active_failover' = IF call[c].kind = "failover" THEN None ELSE active_failover
      /\ call' = [call EXCEPT ![c] = NoCall]
      /\ UNCHANGED <<primary_region, replica_regions, role, region_status, is_primary,
                     original_primary, crossed>>
  BY DEF Abandon, Suspended, topology, router
<1>2. \A d \in Calls : call'[d] = IF d = c THEN NoCall ELSE call[d]
  BY <1>1 DEF IInv, TypeOK
<1>3. TypeOK'
  BY <1>1 DEF IInv, TypeOK, TopologyTypeOK
<1>4. FailoverHoldsManager'
  BY <1>1, <1>2 DEF IInv, FailoverHoldsManager, NoCall
<1>5. PromotesAnother' /\ NothingReadIsStale'
  BY <1>1, <1>2 DEF IInv, PromotesAnother, NothingReadIsStale, Suspended, NoCall
<1>6. PrimaryIsWritable' /\ OnePrimary'
  BY <1>1 DEF IInv, PrimaryIsWritable, OnePrimary
<1>7. QED BY <1>3, <1>4, <1>5, <1>6 DEF IInv

(* Calls, probes and cancellations keep the invariant. *)
LEMMA NextIInv == IInv /\ [Next]_vars => IInv'
<1> SUFFICES ASSUME IInv, [Next]_vars PROVE IInv'
  OBVIOUS
<1>1. CASE Next
  BY <1>1, ProbeIInv, TriggerFailoverIInv, DetectFailureIInv, FinishFailoverIInv,
    BeginRollbackIInv, FinishRollbackIInv, AbandonIInv DEF Next, Finish
<1>2. CASE UNCHANGED vars
  BY <1>2 DEF vars, topology, router, manager, IInv, TypeOK, TopologyTypeOK,
    FailoverHoldsManager, PrimaryIsWritable, PromotesAnother, NothingReadIsStale, OnePrimary,
    Suspended
<1>3. QED BY <1>1, <1>2

(* The inductive invariant holds in every reachable state. *)
LEMMA Invariance == Spec => []IInv
BY InitIInv, NextIInv, PTL DEF Spec

-----------------------------------------------------------------------------
(* A set with no two different elements has at most one. *)
LEMMA AtMostOneElement ==
  ASSUME NEW S, \A x, y \in S : x = y
  PROVE  Cardinality(S) <= 1
<1>1. CASE S = {}
  BY <1>1, FS_EmptySet
<1>2. CASE S # {}
  <2>1. PICK x \in S : S = {x}
    BY <1>2
  <2>2. QED BY <2>1, FS_Singleton
<1>3. QED BY <1>1, <1>2

(* One failover at most awaits its promotion, and active_failover names    *)
(* its failed region exactly while it does, however many calls race, fail  *)
(* or are cancelled.                                                       *)
THEOREM FailoversNeverOverlap == Spec => []OneFailoverAtATime
<1>1. IInv => OneFailoverAtATime
  <2> SUFFICES ASSUME IInv PROVE OneFailoverAtATime
    OBVIOUS
  <2>1. Cardinality(Failovers) <= 1
    BY AtMostOneElement DEF IInv, FailoverHoldsManager, Failovers
  <2>2. QED BY <2>1 DEF IInv, FailoverHoldsManager, Failovers, FailoversExclusive,
              OneFailoverAtATime
<1>2. QED BY <1>1, Invariance, PTL

(* However promotions cross, the region recorded as primary has the        *)
(* primary role and is no replica of itself.                               *)
THEOREM PrimaryStaysWritable == Spec => []PrimaryIsWritable
<1>1. IInv => PrimaryIsWritable
  BY DEF IInv
<1>2. QED BY <1>1, Invariance, PTL

(* Replication manager and router agree on one primary, and can promote    *)
(* every other region, as long as calls came one at a time and named the   *)
(* current primary.                                                        *)
THEOREM OnePrimaryUnlessCrossed == Spec => []OnePrimary
<1>1. IInv => OnePrimary
  BY DEF IInv
<1>2. QED BY <1>1, Invariance, PTL
-----------------------------------------------------------------------------
(* Tool approvals.                                                         *)

Requests == [status : {"pending", "approved", "denied", "timeout"}, tenant : ApprovalTenants,
             created : Nat, timeout : Nat, risk : {"low", "high"}, reviewer : ApprovalTenants \cup {Nobody}]

(* A request as request_approval() makes it. *)
NewRequest(t, created, timeout, risk) ==
  [status |-> IF risk = "low" THEN "approved" ELSE "pending",
   tenant |-> t, created |-> created, timeout |-> timeout, risk |-> risk, reviewer |-> Nobody]

(* What request_approval() makes is a request: pending, or low risk. *)
LEMMA NewRequestIsRequest ==
  ASSUME NEW t \in ApprovalTenants, NEW created \in Nat, NEW timeout \in Nat, NEW risk \in {"low", "high"}
  PROVE  /\ NewRequest(t, created, timeout, risk) \in Requests
         /\ \/ NewRequest(t, created, timeout, risk).status = "pending"
            \/ NewRequest(t, created, timeout, risk).risk = "low"
BY DEF Requests, NewRequest

(* No request looks as if it had not been made. *)
LEMMA RequestsAreRequested == \A request \in Requests : request # Unrequested
<1>1. \A request \in Requests : request.status # "none"
  BY DEF Requests
<1>2. Unrequested.status = "none"
  BY DEF Unrequested
<1> QED BY <1>1, <1>2

(* What is known of an approval once it has been asked for: a request is   *)
(* never forgotten, and what a waiter polls or was told exists.            *)
RequestsStay ==
  /\ clock \in Nat
  /\ approval \in [Approvals -> Requests \cup {Unrequested}]
  /\ \A a \in listed : a \in Approvals /\ approval[a] # Unrequested
  /\ waiting \in [Waiters -> Approvals \cup {NoApproval}]
  /\ \A w \in Waiters : waiting[w] # NoApproval => approval[waiting[w]] # Unrequested

(* An answer given: the request is decided for good, as the answer says,   *)
(* unless the answer is that it is not there any more.                     *)
Agrees(answer, requests) ==
  /\ answer.approval \in Approvals
  /\ requests[answer.approval] # Unrequested
  /\ \/ answer.status = "not found"
     \/ answer.status = requests[answer.approval].status /\ answer.status # "pending"

AnswersAreDecisions == \A r \in answers : Agrees(r, approval)

ApprovalIInv == RequestsStay /\ AnswersAreDecisions /\ ReviewersDecide

(* The invariant holds before the first request. *)
LEMMA ApprovalInitIInv == ApprovalInit => ApprovalIInv
BY DEF ApprovalInit, ApprovalIInv, RequestsStay, AnswersAreDecisions, ReviewersDecide, Unrequested

(* Polls, reviews, expiry and clearing keep the invariant. *)
LEMMA ApprovalNextIInv == ApprovalIInv /\ [ApprovalNext]_approvalVars => ApprovalIInv'
<1> SUFFICES ASSUME ApprovalIInv, [ApprovalNext]_approvalVars PROVE ApprovalIInv'
  OBVIOUS
<1>0. RequestsStay /\ AnswersAreDecisions /\ ReviewersDecide
  BY DEF ApprovalIInv
<1>1. ASSUME NEW a \in Approvals, RequestApproval(a) PROVE ApprovalIInv'
  <2>1. PICK t \in ApprovalTenants, timeout \in 1 .. LongestWait, risk \in {"low", "high"} :
          approval' = [approval EXCEPT ![a] = NewRequest(t, clock, timeout, risk)]
    BY <1>1 DEF RequestApproval, NewRequest
  <2> DEFINE request == NewRequest(t, clock, timeout, risk)
  <2>2. clock \in Nat /\ timeout \in Nat
    BY <1>0 DEF RequestsStay
  <2>3. request \in Requests /\ (request.status = "pending" \/ request.risk = "low")
    BY <2>2, NewRequestIsRequest
  <2>4. request # Unrequested
    BY <2>3, RequestsAreRequested
  <2>5. approval' = [approval EXCEPT ![a] = request]
    BY <2>1
  <2> HIDE DEF request
  <2>6. RequestsStay'
    BY <1>0, <1>1, <2>3, <2>4, <2>5 DEF RequestApproval, RequestsStay
  <2>7. AnswersAreDecisions'
    <3>1. UNCHANGED answers /\ approval[a] = Unrequested
      BY <1>1 DEF RequestApproval
    <3>2. \A b \in Approvals : approval[b] # Unrequested => approval'[b] = approval[b]
      BY <1>0, <2>5, <3>1 DEF RequestsStay
    <3> QED BY <1>0, <3>1, <3>2 DEF AnswersAreDecisions, Agrees
  <2>8. ReviewersDecide'
    BY <1>0, <1>1, <2>3, <2>5 DEF RequestApproval, ReviewersDecide
  <2> QED BY <2>6, <2>7, <2>8 DEF ApprovalIInv
<1>2. ASSUME NEW a \in Approvals, NEW w \in Waiters, StartWait(w, a) PROVE ApprovalIInv'
  <2>1. RequestsStay'
    BY <1>0, <1>2 DEF StartWait, RequestsStay
  <2>2. AnswersAreDecisions'
    <3>1. \/ answers' = answers
          \/ answers' = answers \cup {[approval |-> a, status |-> "not found"]}
      BY <1>2 DEF StartWait, Answer
    <3>2. approval' = approval /\ approval[a] # Unrequested
      BY <1>2 DEF StartWait
    <3>3. Agrees([approval |-> a, status |-> "not found"], approval)
      BY <3>2 DEF Agrees
    <3> QED BY <1>0, <3>1, <3>2, <3>3 DEF AnswersAreDecisions
  <2>3. ReviewersDecide'
    BY <1>0, <1>2 DEF StartWait, ReviewersDecide
  <2> QED BY <2>1, <2>2, <2>3 DEF ApprovalIInv
<1>3. ASSUME NEW a \in Approvals, NEW t \in ApprovalTenants, NEW outcome \in {"approved", "denied"},
             Review(a, t, outcome)
      PROVE ApprovalIInv'
  <2>1. approval[a] \in Requests /\ approval[a].status = "pending" /\ approval[a].tenant = t
    <3>1. approval[a] \in Requests \cup {Unrequested} /\ approval[a] # Unrequested
      BY <1>0, <1>3 DEF Review, RequestsStay
    <3> QED BY <3>1, <1>3 DEF Review
  <2> DEFINE request == [approval[a] EXCEPT !.status = outcome, !.reviewer = t]
  <2>2. /\ request \in Requests
        /\ request.status = outcome /\ request.reviewer = request.tenant
    <3>1. outcome \in {"approved", "denied", "timeout"}
      OBVIOUS
    <3>2. /\ request \in Requests
          /\ request.status = outcome /\ request.reviewer = t
          /\ request.tenant = approval[a].tenant
      <4> DEFINE was == approval[a]
      <4>1. was \in Requests
        BY <2>1
      <4> HIDE DEF was
      <4>2. /\ [was EXCEPT !.status = outcome, !.reviewer = t] \in Requests
            /\ [was EXCEPT !.status = outcome, !.reviewer = t].status = outcome
            /\ [was EXCEPT !.status = outcome, !.reviewer = t].reviewer = t
            /\ [was EXCEPT !.status = outcome, !.reviewer = t].tenant = was.tenant
        BY <4>1 DEF Requests
      <4> QED BY <4>2 DEF was
    <3> QED BY <2>1, <3>2
  <2>3. request # Unrequested
    BY <2>2, RequestsAreRequested
  <2>4. approval' = [approval EXCEPT ![a] = request]
    <3>1. approval' = [approval EXCEPT ![a].status = outcome, ![a].reviewer = t]
      BY <1>3 DEF Review
    <3> QED BY <3>1, <1>0 DEF RequestsStay
  <2> HIDE DEF request
  <2>5. RequestsStay'
    <3>1. approval' \in [Approvals -> Requests \cup {Unrequested}]
      BY <1>0, <2>2, <2>4 DEF RequestsStay
    <3>2. \A b \in Approvals : approval[b] # Unrequested => approval'[b] # Unrequested
      BY <1>0, <2>3, <2>4 DEF RequestsStay
    <3>3. UNCHANGED <<clock, listed, waiting>>
      BY <1>3 DEF Review
    <3> QED BY <1>0, <3>1, <3>2, <3>3 DEF RequestsStay
  <2>6. AnswersAreDecisions'
    <3>1. answers' = answers
      BY <1>3 DEF Review
    <3>2. \A b \in Approvals : b # a => approval'[b] = approval[b]
      BY <1>0, <2>4 DEF RequestsStay
    <3>3. \A b \in Approvals : approval[b] # Unrequested => approval'[b] # Unrequested
      BY <1>0, <2>3, <2>4, <3>2 DEF RequestsStay
    <3> QED BY <1>0, <2>1, <3>1, <3>2, <3>3 DEF AnswersAreDecisions, Agrees
  <2>7. ReviewersDecide'
    BY <1>0, <1>3, <2>2, <2>4 DEF Review, RequestsStay, ReviewersDecide
  <2> QED BY <2>5, <2>6, <2>7 DEF ApprovalIInv
<1>4. ASSUME NEW w \in Waiters, Poll(w) PROVE ApprovalIInv'
  <2> DEFINE a == waiting[w]
  <2>1. a \in Approvals /\ approval[a] \in Requests
    <3>1. a # NoApproval
      BY <1>4 DEF Poll
    <3> QED BY <3>1, <1>0 DEF RequestsStay
  <2>2. CASE approval[a].status = "pending"
    <3> DEFINE request == [approval[a] EXCEPT !.status = "timeout"]
    <3>1. request \in Requests /\ request.status = "timeout"
      <4>1. request \in Requests
        BY <2>1 DEF Requests
      <4>2. request.status = "timeout"
        BY <2>1 DEF Requests
      <4> QED BY <4>1, <4>2
    <3>2. request # Unrequested
      BY <3>1, RequestsAreRequested
    <3>3. approval' = [approval EXCEPT ![a] = request]
      <4>1. approval' = [approval EXCEPT ![a].status = "timeout"]
        BY <1>4, <2>2 DEF Poll
      <4> QED BY <4>1, <1>0 DEF RequestsStay
    <3>4. /\ answers' = answers \cup {[approval |-> a, status |-> "timeout"]}
          /\ waiting' = [waiting EXCEPT ![w] = NoApproval]
          /\ UNCHANGED <<clock, listed>>
      BY <1>4, <2>2 DEF Poll, Answer
    <3> HIDE DEF request, a
    <3>5. RequestsStay'
      BY <1>0, <2>1, <3>1, <3>2, <3>3, <3>4 DEF RequestsStay
    <3>6. AnswersAreDecisions'
      <4>1. approval'[a] = request /\ \A b \in Approvals : b # a => approval'[b] = approval[b]
        BY <1>0, <2>1, <3>3 DEF RequestsStay
      <4>2. ASSUME NEW r \in answers PROVE Agrees(r, approval')
        BY <1>0, <2>1, <2>2, <3>2, <4>1 DEF AnswersAreDecisions, Agrees
      <4>3. Agrees([approval |-> a, status |-> "timeout"], approval')
        BY <2>1, <3>1, <3>2, <4>1 DEF Agrees
      <4> QED BY <3>4, <4>2, <4>3 DEF AnswersAreDecisions
    <3>7. ReviewersDecide'
      BY <1>0, <2>1, <3>1, <3>3, <3>4 DEF RequestsStay, ReviewersDecide
    <3> QED BY <3>5, <3>6, <3>7 DEF ApprovalIInv
  <2>3. CASE approval[a].status # "pending"
    <3>1. /\ answers' = answers \cup {[approval |-> a, status |-> approval[a].status]}
          /\ waiting' = [waiting EXCEPT ![w] = NoApproval]
          /\ UNCHANGED <<approval, clock, listed>>
      BY <1>4, <2>3 DEF Poll, Answer
    <3>2. approval[a] # Unrequested
      BY <2>1, RequestsAreRequested
    <3> HIDE DEF a
    <3>3. RequestsStay'
      BY <1>0, <3>1 DEF RequestsStay
    <3>4. AnswersAreDecisions'
      <4>1. Agrees([approval |-> a, status |-> approval[a].status], approval)
        BY <2>1, <2>3, <3>2 DEF Agrees
      <4> QED BY <1>0, <3>1, <4>1 DEF AnswersAreDecisions
    <3>5. ReviewersDecide'
      BY <1>0, <3>1 DEF ReviewersDecide
    <3> QED BY <3>3, <3>4, <3>5 DEF ApprovalIInv
  <2> QED BY <2>2, <2>3
<1>5. CASE ClearCompleted
  <2>1. RequestsStay' /\ AnswersAreDecisions'
    BY <1>0, <1>5 DEF ClearCompleted, RequestsStay, AnswersAreDecisions
  <2>2. ReviewersDecide'
    BY <1>0, <1>5 DEF ClearCompleted, ReviewersDecide
  <2> QED BY <2>1, <2>2 DEF ApprovalIInv
<1>6. CASE ApprovalTick
  <2>1. clock' \in Nat /\ UNCHANGED <<approval, listed, waiting, answers>>
    BY <1>0, <1>6 DEF ApprovalTick, RequestsStay
  <2> QED BY <1>0, <2>1 DEF ApprovalIInv, RequestsStay, AnswersAreDecisions, ReviewersDecide
<1>7. CASE UNCHANGED approvalVars
  BY <1>0, <1>7 DEF approvalVars, ApprovalIInv, RequestsStay, AnswersAreDecisions, ReviewersDecide
<1> QED BY <1>1, <1>2, <1>3, <1>4, <1>5, <1>6, <1>7 DEF ApprovalNext

(* ToolApprovalWorkflow: every waiter of a request is told its one         *)
(* decision, which for all but low risk is its own tenant's, however       *)
(* polls, reviews, expiry and clearing interleave.                         *)
THEOREM DecisionsAreFinal == ApprovalSpec => []ApprovalsAreConsistent
<1>1. ApprovalIInv => ApprovalsAreConsistent
  BY DEF ApprovalIInv, AnswersAreDecisions, Agrees, ApprovalsAreConsistent, AnswersAgree
<1> QED BY <1>1, ApprovalInitIInv, ApprovalNextIInv, PTL DEF ApprovalSpec

-----------------------------------------------------------------------------
(* Token budgets.                                                          *)

Locked(session) == session.pc \in {"inserted", "recorded"}

Sessions ==
  {Resting} \cup [pc : {"missing"}] \cup [pc : {"inserted"}, version : BudgetRows]
  \cup [pc : {"allowed", "done"}, seen : BudgetRows, day : 0 .. LastDay]
  \cup [pc : {"recorded"}, day : 0 .. LastDay, version : BudgetRows]

(* What a session holds is of a day that has come; the one that inserts    *)
(* the row is the first.                                                   *)
Fits(session, day, row) ==
  /\ session \in Sessions
  /\ session.pc \in {"allowed", "done"} => session.seen.date <= session.day /\ session.day <= day
  /\ Locked(session) => session.version.date <= day
  /\ session.pc = "inserted" => row = NoBudget /\ session.version.daily = 0 /\ session.version.monthly = 0

SessionsFit ==
  /\ today \in 0 .. LastDay
  /\ budget \in BudgetRows /\ budget.date <= today
  /\ used \in [0 .. LastDay -> Nat]
  /\ used_month \in [0 .. Month(LastDay) -> Nat]
  /\ reset_stale \in BOOLEAN
  /\ DOMAIN worker = Workers
  /\ \A w \in Workers : Fits(worker[w], today, budget)

OneLock ==
  \A v, w \in Workers : Locked(worker[v]) /\ Locked(worker[w]) => v = w

(* The row counts what has been used on its day and in its month, and      *)
(* nothing was used later.                                                 *)
Matches(row, days, months) ==
  /\ row.month = Month(row.date)
  /\ row = NoBudget \/ (row.date >= 0 /\ row.daily = days[row.date] /\ row.monthly = months[row.month])
  /\ \A d \in 0 .. LastDay : d > row.date => days[d] = 0
  /\ \A m \in 0 .. Month(LastDay) : m > row.month => months[m] = 0

(* So will the version that a session is going to commit, with the usage   *)
(* record that it has added.                                               *)
WillMatch(session, days, months) ==
  /\ session.pc = "inserted" => Matches(session.version, days, months)
  /\ session.pc = "recorded" =>
       Matches(session.version, [days EXCEPT ![session.day] = @ + 1],
                                [months EXCEPT ![Month(session.day)] = @ + 1])

RowsMatch ==
  ~reset_stale =>
    /\ Matches(budget, used, used_month)
    /\ \A w \in Workers : WillMatch(worker[w], used, used_month)

Columns == {"daily", "monthly"}
LimitOf(c) == IF c = "daily" THEN DailyLimit ELSE MonthlyLimit

(* A request that has passed the check and will charge on top of what is   *)
(* there.                                                                  *)
Adds(session, c) ==
  session.pc = "allowed" /\ ApplyResets(session.seen, session.day)[c] = session.seen[c]

Adding(sessions, c) == {w \in Workers : Adds(sessions[w], c)}

(* Everyone who adds passed the check: the row, and the version that will  *)
(* be the row, leave room for them.                                        *)
ChargesFit(row, sessions, c) ==
  /\ row[c] + Cardinality(Adding(sessions, c)) < LimitOf(c) + Cardinality(Workers)
  /\ \A w \in Workers : sessions[w].pc = "recorded" =>
       /\ sessions[w].version[c] + Cardinality(Adding(sessions, c)) < LimitOf(c) + Cardinality(Workers)
       /\ sessions[w].version[c] <= row[c] + 1

BudgetIInv ==
  SessionsFit /\ OneLock /\ RowsMatch /\ \A c \in Columns : ChargesFit(budget, worker, c)

-----------------------------------------------------------------------------
(* The days and months of a calendar.                                      *)

(* A month is DaysPerMonth days. *)
LEMMA MonthBounds ==
  \A d \in Int : Month(d) \in Int /\ DaysPerMonth * Month(d) <= d /\ d < DaysPerMonth * Month(d) + DaysPerMonth
BY BudgetAssumption DEF Month

(* A later day is not in an earlier month. *)
LEMMA MonthsFollow == \A a, b \in Int : a <= b => Month(a) <= Month(b)
<1> SUFFICES ASSUME NEW a \in Int, NEW b \in Int, a <= b, Month(b) < Month(a) PROVE FALSE
  BY MonthBounds
<1>1. /\ Month(a) \in Int /\ Month(b) \in Int
      /\ DaysPerMonth * Month(a) <= a /\ b < DaysPerMonth * Month(b) + DaysPerMonth
  BY MonthBounds
<1>2. DaysPerMonth * (Month(b) + 1) <= DaysPerMonth * Month(a)
  <2> DEFINE x == Month(b) + 1
             y == Month(a)
  <2>1. x \in Int /\ y \in Int /\ x <= y
    BY <1>1
  <2> HIDE DEF x, y
  <2>2. DaysPerMonth * x <= DaysPerMonth * y
    BY <2>1, BudgetAssumption
  <2> QED BY <2>2 DEF x, y
<1>3. DaysPerMonth * (Month(b) + 1) = DaysPerMonth * Month(b) + DaysPerMonth
  BY <1>1, BudgetAssumption
<1> QED BY <1>1, <1>2, <1>3, BudgetAssumption

(* The days that the model has are in the months that it has, and the day  *)
(* before the first is in the month before the first.                      *)
LEMMA MonthsOfDays ==
  /\ LastDay \in Nat /\ Month(LastDay) \in Nat
  /\ Month(-1) = -1
  /\ \A d \in 0 .. LastDay : Month(d) \in 0 .. Month(LastDay)
<1>1. Month(-1) = -1
  BY MonthBounds, BudgetAssumption
<1>2. \A d \in Nat : Month(d) \in Nat
  BY BudgetAssumption DEF Month
<1> QED BY <1>1, <1>2, MonthsFollow, BudgetAssumption

-----------------------------------------------------------------------------
(* Rows.                                                                   *)

(* The row after the resets of day d: _apply_resets(). *)
LEMMA ResetRows ==
  ASSUME NEW row \in BudgetRows, NEW d \in 0 .. LastDay
  PROVE  /\ ApplyResets(row, d) \in BudgetRows
         /\ ApplyResets(row, d).date = d
         /\ ApplyResets(row, d).month = Month(d)
         /\ ApplyResets(row, d).daily = IF row.date # d THEN 0 ELSE row.daily
         /\ ApplyResets(row, d).monthly = IF row.month # Month(d) THEN 0 ELSE row.monthly
<1>1. Month(d) \in -1 .. Month(LastDay) /\ d \in -1 .. LastDay
  BY MonthsOfDays
<1> QED BY <1>1 DEF ApplyResets, BudgetRows

(* A reset leaves a row that shows what was used. *)
LEMMA ResetMatches ==
  ASSUME NEW row \in BudgetRows, NEW d \in 0 .. LastDay, row.date <= d,
         NEW days, NEW months, Matches(row, days, months)
  PROVE  Matches(ApplyResets(row, d), days, months)
<1> DEFINE fresh == ApplyResets(row, d)
<1>1. /\ fresh.date = d /\ fresh.month = Month(d)
      /\ fresh.daily = IF row.date # d THEN 0 ELSE row.daily
      /\ fresh.monthly = IF row.month # Month(d) THEN 0 ELSE row.monthly
  BY ResetRows
<1> HIDE DEF fresh
<1>2. row.date \in -1 .. LastDay /\ row.month \in -1 .. Month(LastDay) /\ d \in 0 .. LastDay
  BY DEF BudgetRows
<1>3. row.month <= Month(d) /\ Month(d) \in 0 .. Month(LastDay) /\ Month(LastDay) \in Nat /\ LastDay \in Nat
  BY <1>2, MonthsFollow, MonthsOfDays DEF Matches
<1>4. row = NoBudget => row.date = -1 /\ row.month = -1
  BY DEF NoBudget
<1>5. fresh.daily = days[d]
  BY <1>1, <1>2, <1>4 DEF Matches
<1>6. fresh.monthly = months[Month(d)]
  BY <1>1, <1>2, <1>3, <1>4 DEF Matches
<1>7. \A e \in 0 .. LastDay : e > d => days[e] = 0
  BY <1>2 DEF Matches
<1>8. \A m \in 0 .. Month(LastDay) : m > Month(d) => months[m] = 0
  BY <1>2, <1>3 DEF Matches
<1>9. Matches(fresh, days, months)
  BY <1>1, <1>2, <1>5, <1>6, <1>7, <1>8 DEF Matches
<1> QED BY <1>9 DEF fresh

(* A row with one more token in each counter. *)
OneMore(row) == [date |-> row.date, month |-> row.month,
                 daily |-> row.daily + 1, monthly |-> row.monthly + 1]

(* A charge with its usage record leaves such a row, too. *)
LEMMA ChargeMatches ==
  ASSUME NEW row \in BudgetRows, NEW d \in 0 .. LastDay, row.date = d,
         NEW days \in [0 .. LastDay -> Nat], NEW months \in [0 .. Month(LastDay) -> Nat],
         Matches(row, days, months)
  PROVE  Matches(OneMore(row),
                 [days EXCEPT ![d] = @ + 1], [months EXCEPT ![Month(d)] = @ + 1])
<1> DEFINE charged == OneMore(row)
           days1 == [days EXCEPT ![d] = @ + 1]
           months1 == [months EXCEPT ![Month(d)] = @ + 1]
<1>1. /\ charged.date = d /\ charged.month = row.month
      /\ charged.daily = row.daily + 1 /\ charged.monthly = row.monthly + 1
  BY DEF OneMore
<1>2. Month(d) \in 0 .. Month(LastDay) /\ row.month = Month(d) /\ row # NoBudget
  BY MonthsOfDays DEF Matches, NoBudget
<1>3. days1[d] = days[d] + 1 /\ \A e \in 0 .. LastDay : e > d => days1[e] = days[e]
  OBVIOUS
<1>4. months1[Month(d)] = months[Month(d)] + 1 /\ \A m \in 0 .. Month(LastDay) : m > Month(d) => months1[m] = months[m]
  BY <1>2
<1> HIDE DEF charged, days1, months1
<1>5. Matches(charged, days1, months1)
  BY <1>1, <1>2, <1>3, <1>4 DEF Matches
<1> QED BY <1>5 DEF charged, days1, months1

(* What a session that has checked the row flushes: the row, with those of *)
(* its columns reset that the check has reset.                             *)
LEMMA FlushedRows ==
  ASSUME SessionsFit, NEW w \in Workers, worker[w].pc \in {"allowed", "done"}
  PROVE  /\ Flushed(w) \in BudgetRows
         /\ Flushed(w).date <= today
         /\ \A c \in Columns : Flushed(w)[c] = 0 \/ Flushed(w)[c] = budget[c]
         /\ \A c \in Columns :
              worker[w].pc = "allowed" /\ ~Adds(worker[w], c) => Flushed(w)[c] = 0
<1> DEFINE seen == worker[w].seen
           fresh == Fresh(w)
           row == Flushed(w)
<1>1. worker[w] \in [pc : {"allowed", "done"}, seen : BudgetRows, day : 0 .. LastDay]
  BY DEF SessionsFit, Fits, Sessions, Resting
<1>2. seen \in BudgetRows /\ worker[w].day \in 0 .. LastDay
  BY <1>1
<1>3. /\ fresh \in BudgetRows
      /\ fresh.date = worker[w].day
      /\ fresh.daily = IF seen.date # worker[w].day THEN 0 ELSE seen.daily
      /\ fresh.monthly = IF seen.month # Month(worker[w].day) THEN 0 ELSE seen.monthly
  BY <1>2, ResetRows DEF Fresh
<1>4. row = [date |-> IF fresh.date # seen.date THEN fresh.date ELSE budget.date,
             month |-> IF fresh.month # seen.month THEN fresh.month ELSE budget.month,
             daily |-> IF fresh.daily # seen.daily THEN fresh.daily ELSE budget.daily,
             monthly |-> IF fresh.monthly # seen.monthly THEN fresh.monthly ELSE budget.monthly]
  BY DEF Flushed
<1>5. budget \in BudgetRows /\ budget.date <= today /\ worker[w].day <= today /\ today \in 0 .. LastDay
  BY DEF SessionsFit, Fits
<1>6. worker[w].pc = "allowed" =>
        /\ ~Adds(worker[w], "daily") => fresh.daily # seen.daily
        /\ ~Adds(worker[w], "monthly") => fresh.monthly # seen.monthly
  BY DEF Adds, Fresh
<1> HIDE DEF fresh, row, seen
<1>7. /\ row.date = IF fresh.date # seen.date THEN fresh.date ELSE budget.date
      /\ row.daily = IF fresh.daily # seen.daily THEN fresh.daily ELSE budget.daily
      /\ row.monthly = IF fresh.monthly # seen.monthly THEN fresh.monthly ELSE budget.monthly
  BY <1>4
<1>8. row \in BudgetRows
  BY <1>3, <1>4, <1>5 DEF BudgetRows
<1>9. row.date <= today
  BY <1>3, <1>5, <1>7
<1>10. /\ row.daily = 0 \/ row.daily = budget.daily
       /\ row.monthly = 0 \/ row.monthly = budget.monthly
  BY <1>3, <1>7
<1>11. worker[w].pc = "allowed" =>
         /\ ~Adds(worker[w], "daily") => row.daily = 0
         /\ ~Adds(worker[w], "monthly") => row.monthly = 0
  BY <1>3, <1>6, <1>7
<1> QED BY <1>8, <1>9, <1>10, <1>11 DEF Columns, row

(* A flush that is not stale leaves a row that shows what was used. *)
LEMMA FlushedMatches ==
  ASSUME SessionsFit, NEW w \in Workers, worker[w].pc \in {"allowed", "done"},
         ~Stale(w), Matches(budget, used, used_month)
  PROVE  Matches(Flushed(w), used, used_month)
<1> DEFINE seen == worker[w].seen
           fresh == Fresh(w)
<1>1. worker[w] \in [pc : {"allowed", "done"}, seen : BudgetRows, day : 0 .. LastDay]
  BY DEF SessionsFit, Fits, Sessions, Resting
<1>2. seen \in BudgetRows /\ worker[w].day \in 0 .. LastDay /\ seen.date <= worker[w].day
  BY <1>1 DEF SessionsFit, Fits
<1>3. budget \in BudgetRows
  BY DEF SessionsFit
<1>4. Flushed(w) =
        [date |-> IF fresh.date # seen.date THEN fresh.date ELSE budget.date,
         month |-> IF fresh.month # seen.month THEN fresh.month ELSE budget.month,
         daily |-> IF fresh.daily # seen.daily THEN fresh.daily ELSE budget.daily,
         monthly |-> IF fresh.monthly # seen.monthly THEN fresh.monthly ELSE budget.monthly]
  BY DEF Flushed
<1>5. fresh \in BudgetRows
  BY <1>2, ResetRows DEF Fresh
<1>6. CASE fresh = seen
  <2>1. Flushed(w) = [date |-> budget.date, month |-> budget.month,
                      daily |-> budget.daily, monthly |-> budget.monthly]
    BY <1>4, <1>6
  <2>2. Flushed(w) = budget
    BY <1>3, <2>1 DEF BudgetRows
  <2> QED BY <2>2
<1>7. CASE fresh # seen
  <2>1. budget = seen
    BY <1>7 DEF Stale
  <2> HIDE DEF fresh, seen
  <2>2. Flushed(w) = [date |-> fresh.date, month |-> fresh.month,
                      daily |-> fresh.daily, monthly |-> fresh.monthly]
    BY <1>4, <2>1
  <2>3. Flushed(w) = fresh
    BY <1>5, <2>2 DEF BudgetRows
  <2>4. Matches(ApplyResets(seen, worker[w].day), used, used_month)
    BY <1>2, <2>1, ResetMatches
  <2> QED BY <2>3, <2>4 DEF fresh, seen, Fresh
<1> QED BY <1>6, <1>7

(* The charge at the end of async_record_usage(). *)
LEMMA ChargedRows ==
  ASSUME NEW row \in BudgetRows, today \in 0 .. LastDay, row.date <= today
  PROVE  /\ Charged(row) \in BudgetRows
         /\ Charged(row).date = today
         /\ \A c \in Columns : Charged(row)[c] <= row[c] + 1 /\ Charged(row)[c] \in Nat
         /\ \A days \in [0 .. LastDay -> Nat], months \in [0 .. Month(LastDay) -> Nat] :
              Matches(row, days, months)
                => Matches(Charged(row), [days EXCEPT ![today] = @ + 1],
                           [months EXCEPT ![Month(today)] = @ + 1])
<1> DEFINE fresh == ApplyResets(row, today)
<1>1. /\ fresh \in BudgetRows /\ fresh.date = today
      /\ fresh.daily = IF row.date # today THEN 0 ELSE row.daily
      /\ fresh.monthly = IF row.month # Month(today) THEN 0 ELSE row.monthly
  BY ResetRows
<1>2. Charged(row) = OneMore(fresh)
  BY DEF Charged, OneMore
<1>3. ASSUME NEW days \in [0 .. LastDay -> Nat], NEW months \in [0 .. Month(LastDay) -> Nat],
             Matches(row, days, months)
      PROVE  Matches(Charged(row), [days EXCEPT ![today] = @ + 1], [months EXCEPT ![Month(today)] = @ + 1])
  <2>1. Matches(fresh, days, months)
    BY <1>3, ResetMatches
  <2> HIDE DEF fresh
  <2>2. Matches(OneMore(fresh),
                [days EXCEPT ![today] = @ + 1], [months EXCEPT ![Month(today)] = @ + 1])
    BY <1>1, <2>1, ChargeMatches
  <2> QED BY <1>2, <2>2
<1> HIDE DEF fresh
<1>4. /\ Charged(row) \in BudgetRows /\ Charged(row).date = today
      /\ Charged(row).daily = fresh.daily + 1 /\ Charged(row).monthly = fresh.monthly + 1
  <2>1. fresh.month \in -1 .. Month(LastDay) /\ fresh.daily \in Nat /\ fresh.monthly \in Nat
    BY <1>1 DEF BudgetRows
  <2> QED BY <1>1, <1>2, <2>1 DEF BudgetRows, OneMore
<1>5. row.daily \in Nat /\ row.monthly \in Nat
  BY DEF BudgetRows
<1>6. \A c \in Columns : Charged(row)[c] <= row[c] + 1 /\ Charged(row)[c] \in Nat
  BY <1>1, <1>4, <1>5 DEF Columns
<1> QED BY <1>3, <1>4, <1>6

-----------------------------------------------------------------------------
(* Sessions.                                                               *)

(* How the number of those who add changes with one session. *)
LEMMA AddingCounted ==
  ASSUME NEW sessions, DOMAIN sessions = Workers, NEW w \in Workers, NEW session, NEW c,
         NEW sessions1, sessions1 = [sessions EXCEPT ![w] = session]
  PROVE  /\ Cardinality(Workers) \in Nat
         /\ Cardinality(Adding(sessions, c)) \in Nat
         /\ Cardinality(Adding(sessions1, c)) \in Nat
         /\ \A v \in Workers :
              ~Adds(sessions1[v], c) => Cardinality(Adding(sessions1, c)) + 1 <= Cardinality(Workers)
         /\ Cardinality(Adding(sessions1, c)) <= Cardinality(Workers)
         /\ ~Adds(session, c) => Cardinality(Adding(sessions1, c)) <= Cardinality(Adding(sessions, c))
<1> DEFINE before == Adding(sessions, c)
           after == Adding(sessions1, c)
<1>1. IsFiniteSet(Workers) /\ before \subseteq Workers /\ after \subseteq Workers
  BY BudgetAssumption DEF Adding
<1>2. IsFiniteSet(before) /\ IsFiniteSet(after)
  BY <1>1, FS_Subset
<1>3. Cardinality(Workers) \in Nat /\ Cardinality(before) \in Nat /\ Cardinality(after) \in Nat
  BY <1>1, <1>2, FS_CardinalityType
<1>4. Cardinality(after) <= Cardinality(Workers)
  BY <1>1, FS_Subset
<1>5. ASSUME NEW v \in Workers, ~Adds(sessions1[v], c) PROVE Cardinality(after) + 1 <= Cardinality(Workers)
  <2>1. after \subseteq Workers \ {v}
    BY <1>5 DEF Adding
  <2>2. IsFiniteSet(Workers \ {v}) /\ Cardinality(Workers \ {v}) = Cardinality(Workers) - 1
    BY <1>1, FS_RemoveElement
  <2>3. Cardinality(after) <= Cardinality(Workers \ {v})
    BY <2>1, <2>2, FS_Subset
  <2> QED BY <1>3, <2>2, <2>3
<1>6. ASSUME ~Adds(session, c) PROVE after = before \ {w}
  BY <1>6 DEF Adding
<1>7. ~Adds(session, c) => Cardinality(after) <= Cardinality(before)
  <2> HAVE ~Adds(session, c)
  <2>1. after \subseteq before
    BY <1>6
  <2> QED BY <1>2, <2>1, FS_Subset
<1> QED BY <1>3, <1>4, <1>5, <1>7

(* One that added and does not any more is one less. *)
LEMMA AddingLess ==
  ASSUME NEW sessions, NEW sessions1, NEW w \in Workers, NEW c,
         \A v \in Workers \ {w} : sessions1[v] = sessions[v],
         Adds(sessions[w], c), ~Adds(sessions1[w], c)
  PROVE  Cardinality(Adding(sessions1, c)) + 1 = Cardinality(Adding(sessions, c))
<1> DEFINE before == Adding(sessions, c)
           after == Adding(sessions1, c)
<1>1. w \in before /\ after = before \ {w}
  BY DEF Adding
<1>2. IsFiniteSet(before)
  BY BudgetAssumption, FS_Subset DEF Adding
<1>3. Cardinality(before \ {w}) = Cardinality(before) - 1 /\ Cardinality(before) \in Nat
  BY <1>1, <1>2, FS_RemoveElement, FS_CardinalityType
<1>4. Cardinality(after) = Cardinality(before \ {w})
  BY <1>1, Zenon
<1> QED BY <1>3, <1>4

(* The counters are numbers. *)
LEMMA ColumnsCount ==
  /\ \A row \in BudgetRows, c \in Columns : row[c] \in Nat
  /\ \A c \in Columns : LimitOf(c) \in Nat \ {0}
BY BudgetAssumption DEF BudgetRows, Columns, LimitOf

(* A worker that neither holds the lock afterwards nor has passed a check  *)
(* disturbs nobody.                                                        *)
LEMMA ResignedSessions ==
  ASSUME BudgetIInv, NEW w \in Workers, NEW session, Fits(session, today, budget),
         session.pc \in {"idle", "missing", "done"},
         worker' = [worker EXCEPT ![w] = session],
         UNCHANGED <<today, budget, used, used_month, reset_stale>>
  PROVE  BudgetIInv'
<1>1. SessionsFit'
  BY DEF BudgetIInv, SessionsFit
<1>2. OneLock'
  BY DEF BudgetIInv, SessionsFit, OneLock, Locked
<1>3. RowsMatch'
  <2>1. \A days, months : WillMatch(session, days, months)
    BY DEF WillMatch
  <2> QED BY <2>1 DEF BudgetIInv, SessionsFit, RowsMatch
<1>4. ASSUME NEW c \in Columns PROVE ChargesFit(budget, worker, c)'
  <2>1. ~Adds(session, c)
    BY DEF Adds
  <2>2. DOMAIN worker = Workers /\ \A v \in Workers : worker'[v] = IF v = w THEN session ELSE worker[v]
    BY DEF BudgetIInv, SessionsFit
  <2>3. /\ Cardinality(Adding(worker, c)) \in Nat /\ Cardinality(Adding(worker', c)) \in Nat
        /\ Cardinality(Adding(worker', c)) <= Cardinality(Adding(worker, c))
        /\ Cardinality(Workers) \in Nat
    BY <2>1, <2>2, AddingCounted
  <2>4. budget \in BudgetRows /\ budget[c] \in Nat /\ LimitOf(c) \in Nat
    BY ColumnsCount DEF BudgetIInv, SessionsFit
  <2>5. ChargesFit(budget, worker, c)
    BY DEF BudgetIInv
  <2>6. \A v \in Workers : worker[v].pc = "recorded" => worker[v].version \in BudgetRows
    BY DEF BudgetIInv, SessionsFit, Fits, Sessions, Resting
  <2>7. \A v \in Workers : worker[v].pc = "recorded" => worker[v].version[c] \in Nat
    BY <2>6, ColumnsCount
  <2> DEFINE before == Cardinality(Adding(worker, c))
             after == Cardinality(Adding(worker', c))
  <2>8. before \in Nat /\ after \in Nat /\ after <= before /\ Cardinality(Workers) \in Nat
    BY <2>3
  <2>9. /\ budget[c] + before < LimitOf(c) + Cardinality(Workers)
        /\ \A v \in Workers : worker[v].pc = "recorded" =>
             /\ worker[v].version[c] + before < LimitOf(c) + Cardinality(Workers)
             /\ worker[v].version[c] <= budget[c] + 1
    BY <2>5 DEF ChargesFit
  <2> HIDE DEF before, after
  <2>10. budget[c] + after < LimitOf(c) + Cardinality(Workers)
    BY <2>4, <2>8, <2>9
  <2>11. ASSUME NEW v \in Workers, worker'[v].pc = "recorded"
         PROVE  /\ worker'[v].version[c] + after < LimitOf(c) + Cardinality(Workers)
                /\ worker'[v].version[c] <= budget[c] + 1
    <3>1. worker'[v] = worker[v] /\ worker[v].pc = "recorded"
      BY <2>2, <2>11
    <3> QED BY <2>4, <2>7, <2>8, <2>9, <3>1
  <2> QED BY <2>10, <2>11 DEF ChargesFit, after
<1> QED BY <1>1, <1>2, <1>3, <1>4 DEF BudgetIInv

(* A worker that gets the lock disturbs nobody, if its version of the row  *)
(* is as it should be.                                                     *)
LEMMA LockedSessions ==
  ASSUME BudgetIInv, NEW w \in Workers, NEW session, Fits(session, today, budget),
         Locked(session),
         \A v \in Workers \ {w} : ~Locked(worker[v]),
         worker' = [worker EXCEPT ![w] = session],
         UNCHANGED <<today, budget, used, used_month>>,
         reset_stale' \in BOOLEAN,
         ~reset_stale' => ~reset_stale /\ WillMatch(session, used, used_month),
         session.pc = "recorded" =>
           \A c \in Columns :
             /\ session.version[c] <= budget[c] + 1
             /\ session.version[c] + Cardinality(Adding(worker', c)) < LimitOf(c) + Cardinality(Workers)
  PROVE  BudgetIInv'
<1>0. DOMAIN worker = Workers /\ \A v \in Workers : worker'[v] = IF v = w THEN session ELSE worker[v]
  BY DEF BudgetIInv, SessionsFit
<1>1. SessionsFit'
  BY <1>0 DEF BudgetIInv, SessionsFit
<1>2. OneLock'
  BY <1>0 DEF OneLock
<1>3. RowsMatch'
  <2>1. CASE reset_stale'
    BY <2>1 DEF RowsMatch
  <2>2. CASE ~reset_stale'
    <3>1. Matches(budget, used, used_month) /\ \A v \in Workers : WillMatch(worker[v], used, used_month)
      BY <2>2 DEF BudgetIInv, RowsMatch
    <3> QED BY <1>0, <2>2, <3>1 DEF RowsMatch
  <2> QED BY <2>1, <2>2
<1>4. ASSUME NEW c \in Columns PROVE ChargesFit(budget, worker, c)'
  <2> DEFINE before == Cardinality(Adding(worker, c))
             after == Cardinality(Adding(worker', c))
  <2>1. ~Adds(session, c)
    BY DEF Adds, Locked
  <2>2. before \in Nat /\ after \in Nat /\ after <= before /\ Cardinality(Workers) \in Nat
    BY <1>0, <2>1, AddingCounted
  <2>3. budget \in BudgetRows /\ budget[c] \in Nat /\ LimitOf(c) \in Nat
    BY ColumnsCount DEF BudgetIInv, SessionsFit
  <2>4. budget[c] + before < LimitOf(c) + Cardinality(Workers)
    BY DEF BudgetIInv, ChargesFit
  <2>5. session.pc = "recorded" =>
          /\ session.version[c] <= budget[c] + 1
          /\ session.version[c] + after < LimitOf(c) + Cardinality(Workers)
    OBVIOUS
  <2> HIDE DEF before, after
  <2>6. budget[c] + after < LimitOf(c) + Cardinality(Workers)
    BY <2>2, <2>3, <2>4
  <2>7. ASSUME NEW v \in Workers, worker'[v].pc = "recorded"
        PROVE  /\ worker'[v].version[c] + after < LimitOf(c) + Cardinality(Workers)
               /\ worker'[v].version[c] <= budget[c] + 1
    <3>1. v = w
      BY <1>0, <2>7 DEF Locked
    <3> QED BY <1>0, <2>5, <2>7, <3>1
  <2> QED BY <2>6, <2>7 DEF ChargesFit, after
<1> QED BY <1>1, <1>2, <1>3, <1>4 DEF BudgetIInv

(* A commit disturbs nobody, if the row that it leaves is as it should be. *)
LEMMA CommittedRow ==
  ASSUME BudgetIInv, NEW w \in Workers,
         \A v \in Workers \ {w} : ~Locked(worker[v]),
         worker' = [worker EXCEPT ![w] = Resting],
         today' = today,
         budget' \in BudgetRows, budget'.date <= today,
         used' \in [0 .. LastDay -> Nat], used_month' \in [0 .. Month(LastDay) -> Nat],
         reset_stale' \in BOOLEAN,
         ~reset_stale' => Matches(budget', used', used_month'),
         \A c \in Columns :
           budget'[c] + Cardinality(Adding(worker', c)) < LimitOf(c) + Cardinality(Workers)
  PROVE  BudgetIInv'
<1>0. DOMAIN worker = Workers /\ \A v \in Workers : worker'[v] = IF v = w THEN Resting ELSE worker[v]
  BY DEF BudgetIInv, SessionsFit
<1>1. \A v \in Workers : ~Locked(worker'[v])
  BY <1>0 DEF Locked, Resting
<1>2. SessionsFit'
  <2>1. \A v \in Workers : Fits(worker'[v], today, budget')
    <3>1. Fits(Resting, today, budget')
      BY DEF Fits, Sessions, Resting, Locked
    <3>2. ASSUME NEW v \in Workers, v # w PROVE Fits(worker[v], today, budget')
      BY <3>2 DEF BudgetIInv, SessionsFit, Fits, Locked
    <3> QED BY <1>0, <3>1, <3>2
  <2> QED BY <1>0, <2>1 DEF BudgetIInv, SessionsFit
<1>3. OneLock'
  BY <1>1 DEF OneLock
<1>4. RowsMatch'
  BY <1>1 DEF RowsMatch, WillMatch, Locked
<1>5. \A c \in Columns : ChargesFit(budget, worker, c)'
  BY <1>1 DEF ChargesFit, Locked
<1> QED BY <1>2, <1>3, <1>4, <1>5 DEF BudgetIInv

-----------------------------------------------------------------------------
(* The actions.                                                            *)

(* At the start there is no row, and nothing has been used. *)
LEMMA BudgetInitIInv == BudgetInit => BudgetIInv
<1> SUFFICES ASSUME BudgetInit PROVE BudgetIInv
  OBVIOUS
<1>1. NoBudget \in BudgetRows /\ NoBudget.date = -1 /\ NoBudget.month = -1 /\ \A c \in Columns : NoBudget[c] = 0
  BY MonthsOfDays DEF NoBudget, BudgetRows, Columns
<1>2. Fits(Resting, today, budget) /\ ~Locked(Resting)
  BY DEF Fits, Sessions, Resting, Locked
<1>3. SessionsFit
  <2>1. today \in 0 .. LastDay /\ reset_stale \in BOOLEAN
    <3>1. today \in 0 .. LastDay
      BY BudgetAssumption DEF BudgetInit
    <3>2. reset_stale \in BOOLEAN
      BY DEF BudgetInit
    <3> QED BY <3>1, <3>2
  <2>2. budget \in BudgetRows /\ budget.date <= today
    BY <1>1 DEF BudgetInit
  <2>3. used \in [0 .. LastDay -> Nat] /\ used_month \in [0 .. Month(LastDay) -> Nat]
    BY DEF BudgetInit
  <2>4. DOMAIN worker = Workers /\ \A w \in Workers : Fits(worker[w], today, budget)
    BY <1>2 DEF BudgetInit
  <2> QED BY <2>1, <2>2, <2>3, <2>4 DEF SessionsFit
<1>4. OneLock
  BY <1>2 DEF BudgetInit, OneLock
<1>5. RowsMatch
  <2>1. Matches(budget, used, used_month)
    BY <1>1, MonthsOfDays DEF BudgetInit, Matches
  <2>2. \A w \in Workers : WillMatch(worker[w], used, used_month)
    BY <1>2 DEF BudgetInit, WillMatch, Locked
  <2> QED BY <2>1, <2>2 DEF RowsMatch
<1>6. ASSUME NEW c \in Columns PROVE ChargesFit(budget, worker, c)
  <2>1. Adding(worker, c) = {}
    BY DEF BudgetInit, Adding, Adds, Resting
  <2>2. Cardinality(Adding(worker, c)) = 0
    BY <2>1, FS_EmptySet
  <2>3. Cardinality(Workers) \in Nat
    BY BudgetAssumption, FS_CardinalityType
  <2>4. budget[c] = 0 /\ LimitOf(c) \in Nat \ {0}
    BY <1>1, ColumnsCount DEF BudgetInit
  <2>5. \A w \in Workers : worker[w].pc # "recorded"
    BY DEF BudgetInit, Resting
  <2> QED BY <2>2, <2>3, <2>4, <2>5 DEF ChargesFit
<1> QED BY <1>3, <1>4, <1>5, <1>6 DEF BudgetIInv

(* async_check_budget(): a request that passes found room for itself.      *)
LEMMA CheckBudgetIInv ==
  ASSUME BudgetIInv, NEW w \in Workers, CheckBudget(w) PROVE BudgetIInv'
<1>1. /\ today \in 0 .. LastDay /\ budget \in BudgetRows /\ budget.date <= today
      /\ worker[w] = Resting
      /\ DOMAIN worker = Workers
      /\ UNCHANGED <<today, budget, used, used_month, reset_stale>>
  BY DEF CheckBudget, BudgetIInv, SessionsFit
<1>2. PICK pc \in {"allowed", "done"} :
        /\ worker' = [worker EXCEPT ![w] = [pc |-> pc, seen |-> budget, day |-> today]]
        /\ pc = "allowed" => Affordable(ApplyResets(budget, today))
  BY DEF CheckBudget
<1> DEFINE session == [pc |-> pc, seen |-> budget, day |-> today]
<1>3. /\ session.pc = pc /\ session.seen = budget /\ session.day = today
      /\ session \in [pc : {"allowed", "done"}, seen : BudgetRows, day : 0 .. LastDay]
      /\ worker' = [worker EXCEPT ![w] = session]
  BY <1>1, <1>2
<1> HIDE DEF session
<1>4. Fits(session, today, budget)
  BY <1>1, <1>2, <1>3 DEF Fits, Sessions, Locked
<1>5. CASE pc = "done"
  BY <1>1, <1>3, <1>4, <1>5, ResignedSessions
<1>6. CASE pc = "allowed"
  <2>1. \A v \in Workers : worker'[v] = IF v = w THEN session ELSE worker[v]
    BY <1>1, <1>3
  <2>2. SessionsFit'
    BY <1>1, <1>3, <1>4, <2>1 DEF BudgetIInv, SessionsFit
  <2>3. OneLock'
    BY <1>3, <1>6, <2>1 DEF BudgetIInv, OneLock, Locked
  <2>4. RowsMatch'
    <3>1. \A days, months : WillMatch(session, days, months)
      BY <1>3, <1>6 DEF WillMatch
    <3> QED BY <1>1, <2>1, <3>1 DEF BudgetIInv, RowsMatch
  <2>5. ASSUME NEW c \in Columns PROVE ChargesFit(budget, worker, c)'
    <3> DEFINE before == Cardinality(Adding(worker, c))
               after == Cardinality(Adding(worker', c))
               workers == Cardinality(Workers)
    <3>1. /\ workers \in Nat /\ before \in Nat /\ after \in Nat /\ after <= workers
          /\ ~Adds(session, c) => after <= before
          /\ \A v \in Workers : ~Adds(worker'[v], c) => after + 1 <= workers
      BY <1>1, <1>3, AddingCounted
    <3>2. budget[c] \in Nat /\ LimitOf(c) \in Nat \ {0}
      BY <1>1, ColumnsCount
    <3>3. Adds(session, c) => budget[c] < LimitOf(c)
      <4> SUFFICES ASSUME Adds(session, c) PROVE budget[c] < LimitOf(c)
        OBVIOUS
      <4>1. ApplyResets(budget, today)[c] = budget[c]
        BY <1>3 DEF Adds
      <4>2. Affordable(ApplyResets(budget, today))
        BY <1>2, <1>6
      <4>3. /\ DailyLimit - ApplyResets(budget, today).daily >= 1
            /\ MonthlyLimit - ApplyResets(budget, today).monthly >= 1
        BY <4>2 DEF Affordable
      <4>4. CASE c = "daily"
        BY <3>2, <4>1, <4>3, <4>4, BudgetAssumption DEF LimitOf
      <4>5. CASE c = "monthly"
        BY <3>2, <4>1, <4>3, <4>5, BudgetAssumption DEF LimitOf
      <4> QED BY <4>4, <4>5 DEF Columns
    <3>4. /\ budget[c] + before < LimitOf(c) + workers
          /\ \A v \in Workers : worker[v].pc = "recorded" =>
               /\ worker[v].version[c] + before < LimitOf(c) + workers
               /\ worker[v].version[c] <= budget[c] + 1
      BY DEF BudgetIInv, ChargesFit
    <3>5. \A v \in Workers : worker[v].pc = "recorded" => worker[v].version \in BudgetRows
      BY DEF BudgetIInv, SessionsFit, Fits, Sessions, Resting
    <3>6. \A v \in Workers : worker[v].pc = "recorded" => worker[v].version[c] \in Nat
      BY <3>5, ColumnsCount
    <3>7. \A v \in Workers : worker'[v].pc = "recorded" => ~Adds(worker'[v], c)
      BY DEF Adds
    <3> HIDE DEF before, after, workers
    <3>8. budget[c] + after < LimitOf(c) + workers
      BY <3>1, <3>2, <3>3, <3>4
    <3>9. ASSUME NEW v \in Workers, worker'[v].pc = "recorded"
          PROVE  /\ worker'[v].version[c] + after < LimitOf(c) + workers
                 /\ worker'[v].version[c] <= budget[c] + 1
      <4>1. worker'[v] = worker[v]
        BY <1>3, <1>6, <2>1, <3>9
      <4>2. after + 1 <= workers
        BY <3>1, <3>7, <3>9
      <4> QED BY <3>1, <3>2, <3>3, <3>4, <3>6, <3>9, <4>1, <4>2
    <3> QED BY <1>1, <3>8, <3>9 DEF ChargesFit, after, workers
  <2> QED BY <2>2, <2>3, <2>4, <2>5 DEF BudgetIInv
<1> QED BY <1>5, <1>6

(* The look-up that finds no row, the refused insert and the rollback. *)
LEMMA ResigningIInv ==
  ASSUME BudgetIInv, NEW w \in Workers,
         CheckMissing(w) \/ (InsertBudget(w) /\ budget # NoBudget) \/ RollbackBudget(w)
  PROVE  BudgetIInv'
<1>1. PICK session \in {Resting, [pc |-> "missing"]} :
        /\ worker' = [worker EXCEPT ![w] = session]
        /\ UNCHANGED <<today, budget, used, used_month, reset_stale>>
  BY DEF CheckMissing, InsertBudget, RollbackBudget
<1>2. Fits(session, today, budget) /\ session.pc \in {"idle", "missing", "done"}
  BY DEF Fits, Sessions, Resting, Locked
<1> QED BY <1>1, <1>2, ResignedSessions

(* _get_or_create_db_budget(): the insert that comes first. *)
LEMMA InsertBudgetIInv ==
  ASSUME BudgetIInv, NEW w \in Workers, InsertBudget(w), budget = NoBudget PROVE BudgetIInv'
<1> DEFINE row == ApplyResets(NoBudget, today)
           session == [pc |-> "inserted", version |-> row]
<1>1. /\ worker' = [worker EXCEPT ![w] = session]
      /\ UNCHANGED <<today, budget, used, used_month, reset_stale>>
      /\ \A v \in Workers : ~Locked(worker[v])
  BY DEF InsertBudget, RowLocked, Locked
<1>2. today \in 0 .. LastDay /\ budget \in BudgetRows /\ reset_stale \in BOOLEAN /\ NoBudget.date = -1
  BY DEF BudgetIInv, SessionsFit, NoBudget
<1>3. /\ row \in BudgetRows /\ row.date = today
      /\ row.daily = 0 /\ row.monthly = 0
  BY <1>2, ResetRows DEF NoBudget
<1>4. ~reset_stale => Matches(row, used, used_month)
  BY <1>2, ResetMatches DEF BudgetIInv, RowsMatch
<1> HIDE DEF row
<1>5. session.pc = "inserted" /\ session.version = row /\ session \in Sessions
  BY <1>3 DEF Sessions
<1> HIDE DEF session
<1>6. Fits(session, today, budget) /\ Locked(session)
  BY <1>2, <1>3, <1>5 DEF Fits, Locked
<1>7. ~reset_stale => WillMatch(session, used, used_month)
  BY <1>4, <1>5 DEF WillMatch
<1> QED BY <1>1, <1>2, <1>5, <1>6, <1>7, LockedSessions

(* async_record_usage(): the flush, the lock and the charge. *)
LEMMA RecordUsageIInv ==
  ASSUME BudgetIInv, NEW w \in Workers, RecordUsage(w) PROVE BudgetIInv'
<1>1. /\ UNCHANGED <<today, budget, used, used_month>>
      /\ today \in 0 .. LastDay /\ budget \in BudgetRows /\ budget.date <= today
      /\ used \in [0 .. LastDay -> Nat] /\ used_month \in [0 .. Month(LastDay) -> Nat]
      /\ DOMAIN worker = Workers /\ reset_stale \in BOOLEAN
      /\ SessionsFit /\ Fits(worker[w], today, budget)
  BY DEF RecordUsage, BudgetIInv, SessionsFit
<1>2. PICK row \in BudgetRows :
        /\ row.date <= today
        /\ worker' = [worker EXCEPT ![w] = [pc |-> "recorded", day |-> today, version |-> Charged(row)]]
        /\ reset_stale' \in BOOLEAN
        /\ ~reset_stale' => ~reset_stale /\ Matches(row, used, used_month)
        /\ \A c \in Columns : row[c] = 0 \/ (row[c] = budget[c] /\ Adds(worker[w], c))
        /\ \A v \in Workers \ {w} : ~Locked(worker[v])
  <2>1. CASE worker[w].pc = "allowed"
    <3> DEFINE row == Flushed(w)
    <3>1. /\ ~RowLocked
          /\ worker' = [worker EXCEPT ![w] = [pc |-> "recorded", day |-> today, version |-> Charged(row)]]
          /\ reset_stale' = (reset_stale \/ Stale(w))
      BY <2>1 DEF RecordUsage
    <3>2. /\ row \in BudgetRows /\ row.date <= today
          /\ \A c \in Columns : row[c] = 0 \/ row[c] = budget[c]
          /\ \A c \in Columns : ~Adds(worker[w], c) => row[c] = 0
      BY <1>1, <2>1, FlushedRows
    <3>3. ~reset_stale' => ~reset_stale /\ Matches(row, used, used_month)
      <4> HAVE ~reset_stale'
      <4>1. ~reset_stale /\ ~Stale(w)
        BY <3>1
      <4>2. Matches(budget, used, used_month)
        BY <4>1 DEF BudgetIInv, RowsMatch
      <4> QED BY <1>1, <2>1, <4>1, <4>2, FlushedMatches
    <3>4. \A v \in Workers : ~Locked(worker[v])
      BY <3>1 DEF RowLocked, Locked
    <3>5. reset_stale' \in BOOLEAN
      BY <1>1, <3>1
    <3> HIDE DEF row
    <3> QED BY <3>1, <3>2, <3>3, <3>4, <3>5
  <2>2. CASE worker[w].pc = "inserted"
    <3> DEFINE row == worker[w].version
    <3>1. /\ worker' = [worker EXCEPT ![w] = [pc |-> "recorded", day |-> today, version |-> Charged(row)]]
          /\ reset_stale' = reset_stale
      BY <2>2 DEF RecordUsage
    <3>2. row \in BudgetRows /\ row.date <= today /\ row.daily = 0 /\ row.monthly = 0 /\ Locked(worker[w])
      BY <1>1, <2>2 DEF Fits, Sessions, Resting, Locked
    <3>3. ~reset_stale => Matches(row, used, used_month)
      BY <2>2 DEF BudgetIInv, RowsMatch, WillMatch
    <3>4. \A v \in Workers \ {w} : ~Locked(worker[v])
      BY <3>2 DEF BudgetIInv, OneLock
    <3> HIDE DEF row
    <3>5. \A c \in Columns : row[c] = 0
      BY <3>2 DEF Columns
    <3> QED BY <1>1, <3>1, <3>2, <3>3, <3>4, <3>5
  <2> QED BY <2>1, <2>2 DEF RecordUsage
<1> DEFINE session == [pc |-> "recorded", day |-> today, version |-> Charged(row)]
<1>3. /\ Charged(row) \in BudgetRows /\ Charged(row).date = today
      /\ \A c \in Columns : Charged(row)[c] <= row[c] + 1 /\ Charged(row)[c] \in Nat
  BY <1>1, <1>2, ChargedRows
<1>4. ~reset_stale' => Matches(Charged(row), [used EXCEPT ![today] = @ + 1], [used_month EXCEPT ![Month(today)] = @ + 1])
  BY <1>1, <1>2, ChargedRows
<1>5. /\ session.pc = "recorded" /\ session.version = Charged(row) /\ session.day = today
      /\ session \in Sessions
      /\ worker' = [worker EXCEPT ![w] = session]
  BY <1>1, <1>2, <1>3 DEF Sessions
<1> HIDE DEF session
<1>6. Fits(session, today, budget) /\ Locked(session)
  BY <1>1, <1>3, <1>5 DEF Fits, Locked
<1>7. ~reset_stale' => ~reset_stale /\ WillMatch(session, used, used_month)
  BY <1>2, <1>4, <1>5 DEF WillMatch
<1>8. ASSUME NEW c \in Columns
      PROVE  /\ session.version[c] <= budget[c] + 1
             /\ session.version[c] + Cardinality(Adding(worker', c)) < LimitOf(c) + Cardinality(Workers)
  <2> DEFINE before == Cardinality(Adding(worker, c))
             after == Cardinality(Adding(worker', c))
             workers == Cardinality(Workers)
  <2>1. ~Adds(session, c)
    BY <1>5 DEF Adds
  <2>2. worker'[w] = session
    BY <1>1, <1>5
  <2>3. /\ workers \in Nat /\ before \in Nat /\ after \in Nat
        /\ after <= before /\ after + 1 <= workers
        /\ Adds(worker[w], c) => after + 1 = before
    <3>1. ~Adds(worker'[w], c)
      BY <2>1, <2>2
    <3>2. /\ workers \in Nat /\ before \in Nat /\ after \in Nat
          /\ \A v \in Workers : ~Adds(worker'[v], c) => after + 1 <= workers
          /\ ~Adds(session, c) => after <= before
          /\ Adds(worker[w], c) => after + 1 = before
      <4>1. DOMAIN worker = Workers /\ worker' = [worker EXCEPT ![w] = session]
        BY <1>1, <1>5
      <4> HIDE DEF before, after, workers
      <4>2. /\ Cardinality(Workers) \in Nat
            /\ Cardinality(Adding(worker, c)) \in Nat
            /\ Cardinality(Adding(worker', c)) \in Nat
            /\ \A v \in Workers :
                 ~Adds(worker'[v], c) => Cardinality(Adding(worker', c)) + 1 <= Cardinality(Workers)
            /\ ~Adds(session, c) => Cardinality(Adding(worker', c)) <= Cardinality(Adding(worker, c))
        BY <4>1, AddingCounted
      <4>3. ASSUME Adds(worker[w], c) PROVE Cardinality(Adding(worker', c)) + 1 = Cardinality(Adding(worker, c))
        <5>1. \A v \in Workers \ {w} : worker'[v] = worker[v]
          BY <4>1
        <5> QED BY <3>1, <4>3, <5>1, AddingLess
      <4> QED BY <4>2, <4>3 DEF before, after, workers
    <3> QED BY <2>1, <3>1, <3>2
  <2>4. budget[c] \in Nat /\ row[c] \in Nat /\ LimitOf(c) \in Nat \ {0}
    BY <1>1, <1>2, ColumnsCount
  <2>5. budget[c] + before < LimitOf(c) + workers
    BY DEF BudgetIInv, ChargesFit
  <2>6. /\ session.version[c] \in Nat /\ session.version[c] <= row[c] + 1
        /\ row[c] = 0 \/ (row[c] = budget[c] /\ Adds(worker[w], c))
    BY <1>2, <1>3, <1>5
  <2> HIDE DEF before, after, workers
  <2>7. session.version[c] <= budget[c] + 1 /\ session.version[c] + after < LimitOf(c) + workers
    BY <2>3, <2>4, <2>5, <2>6
  <2> QED BY <2>7 DEF after, workers
<1> QED BY <1>1, <1>2, <1>5, <1>6, <1>7, <1>8, LockedSessions

(* The commit of a recorded usage. *)
LEMMA CommitUsageIInv ==
  ASSUME BudgetIInv, NEW w \in Workers, CommitUsage(w) PROVE BudgetIInv'
<1> DEFINE session == worker[w]
<1>1. /\ session.pc = "recorded" /\ budget' = session.version
      /\ used' = [used EXCEPT ![session.day] = @ + 1]
      /\ used_month' = [used_month EXCEPT ![Month(session.day)] = @ + 1]
      /\ worker' = [worker EXCEPT ![w] = Resting]
      /\ today' = today /\ reset_stale' = reset_stale
  BY DEF CommitUsage
<1>2. /\ today \in 0 .. LastDay /\ reset_stale \in BOOLEAN
      /\ used \in [0 .. LastDay -> Nat] /\ used_month \in [0 .. Month(LastDay) -> Nat]
      /\ DOMAIN worker = Workers /\ Fits(session, today, budget)
  BY DEF BudgetIInv, SessionsFit
<1>3. /\ session.version \in BudgetRows /\ session.version.date <= today
      /\ session.day \in 0 .. LastDay /\ Locked(session)
  BY <1>1, <1>2 DEF Fits, Sessions, Resting, Locked
<1>4. \A v \in Workers \ {w} : ~Locked(worker[v])
  BY <1>3 DEF BudgetIInv, OneLock
<1>5. used' \in [0 .. LastDay -> Nat] /\ used_month' \in [0 .. Month(LastDay) -> Nat]
  <2>1. session.day \in 0 .. LastDay /\ Month(session.day) \in 0 .. Month(LastDay)
    BY <1>3, MonthsOfDays
  <2> HIDE DEF session
  <2> QED BY <1>1, <1>2, <2>1
<1>6. ~reset_stale' => Matches(budget', used', used_month')
  BY <1>1 DEF BudgetIInv, RowsMatch, WillMatch
<1>7. ASSUME NEW c \in Columns
      PROVE  budget'[c] + Cardinality(Adding(worker', c)) < LimitOf(c) + Cardinality(Workers)
  <2> DEFINE before == Cardinality(Adding(worker, c))
             after == Cardinality(Adding(worker', c))
             workers == Cardinality(Workers)
  <2>1. ~Adds(Resting, c)
    BY DEF Adds, Resting
  <2>2. workers \in Nat /\ before \in Nat /\ after \in Nat /\ after <= before
    BY <1>1, <1>2, <2>1, AddingCounted
  <2>3. budget'[c] + before < LimitOf(c) + workers
    BY <1>1 DEF BudgetIInv, ChargesFit
  <2>4. budget'[c] \in Nat /\ LimitOf(c) \in Nat
    BY <1>1, <1>3, ColumnsCount
  <2> HIDE DEF before, after, workers
  <2>5. budget'[c] + after < LimitOf(c) + workers
    BY <2>2, <2>3, <2>4
  <2> QED BY <2>5 DEF after, workers
<1>8. budget' \in BudgetRows /\ budget'.date <= today /\ reset_stale' \in BOOLEAN
  BY <1>1, <1>2, <1>3
<1> QED BY <1>1, <1>4, <1>5, <1>6, <1>7, <1>8, CommittedRow

(* The commit of a session that has recorded nothing. *)
LEMMA CommitCheckIInv ==
  ASSUME BudgetIInv, NEW w \in Workers, CommitCheck(w) PROVE BudgetIInv'
<1>1. /\ worker' = [worker EXCEPT ![w] = Resting]
      /\ UNCHANGED <<today, used, used_month>>
      /\ today \in 0 .. LastDay /\ reset_stale \in BOOLEAN /\ budget \in BudgetRows
      /\ used \in [0 .. LastDay -> Nat] /\ used_month \in [0 .. Month(LastDay) -> Nat]
      /\ DOMAIN worker = Workers /\ Fits(worker[w], today, budget) /\ SessionsFit
  BY DEF CommitCheck, BudgetIInv, SessionsFit
<1>2. /\ budget' \in BudgetRows /\ budget'.date <= today
      /\ \A c \in Columns : budget'[c] = 0 \/ budget'[c] = budget[c]
      /\ reset_stale' \in BOOLEAN
      /\ ~reset_stale' => Matches(budget', used, used_month)
      /\ \A v \in Workers \ {w} : ~Locked(worker[v])
  <2>1. CASE worker[w].pc = "inserted"
    <3>1. budget' = worker[w].version /\ reset_stale' = reset_stale
      BY <2>1 DEF CommitCheck
    <3>2. /\ worker[w].version \in BudgetRows /\ worker[w].version.date <= today /\ Locked(worker[w])
          /\ worker[w].version.daily = 0 /\ worker[w].version.monthly = 0
      BY <1>1, <2>1 DEF Fits, Sessions, Resting, Locked
    <3>3. ~reset_stale => Matches(worker[w].version, used, used_month)
      BY <2>1 DEF BudgetIInv, RowsMatch, WillMatch
    <3>4. \A v \in Workers \ {w} : ~Locked(worker[v])
      BY <3>2 DEF BudgetIInv, OneLock
    <3>5. \A c \in Columns : budget'[c] = 0
      BY <3>1, <3>2 DEF Columns
    <3> QED BY <1>1, <3>1, <3>2, <3>3, <3>4, <3>5
  <2>2. CASE worker[w].pc = "done"
    <3>1. ~RowLocked /\ budget' = Flushed(w) /\ reset_stale' = (reset_stale \/ Stale(w))
      BY <2>2 DEF CommitCheck
    <3>2. /\ Flushed(w) \in BudgetRows /\ Flushed(w).date <= today
          /\ \A c \in Columns : Flushed(w)[c] = 0 \/ Flushed(w)[c] = budget[c]
      BY <1>1, <2>2, FlushedRows
    <3>3. ~reset_stale' => Matches(Flushed(w), used, used_month)
      <4> HAVE ~reset_stale'
      <4>1. ~reset_stale /\ ~Stale(w)
        BY <3>1
      <4>2. Matches(budget, used, used_month)
        BY <4>1 DEF BudgetIInv, RowsMatch
      <4> QED BY <1>1, <2>2, <4>1, <4>2, FlushedMatches
    <3>4. \A v \in Workers : ~Locked(worker[v])
      BY <3>1 DEF RowLocked, Locked
    <3>5. reset_stale' \in BOOLEAN
      BY <1>1, <3>1
    <3> QED BY <3>1, <3>2, <3>3, <3>4, <3>5
  <2> QED BY <2>1, <2>2 DEF CommitCheck
<1>3. ASSUME NEW c \in Columns
      PROVE  budget'[c] + Cardinality(Adding(worker', c)) < LimitOf(c) + Cardinality(Workers)
  <2> DEFINE before == Cardinality(Adding(worker, c))
             after == Cardinality(Adding(worker', c))
             workers == Cardinality(Workers)
  <2>1. ~Adds(Resting, c)
    BY DEF Adds, Resting
  <2>2. workers \in Nat /\ before \in Nat /\ after \in Nat /\ after <= before
    BY <1>1, <2>1, AddingCounted
  <2>3. budget[c] + before < LimitOf(c) + workers
    BY DEF BudgetIInv, ChargesFit
  <2>4. budget[c] \in Nat /\ LimitOf(c) \in Nat /\ (budget'[c] = 0 \/ budget'[c] = budget[c])
    BY <1>1, <1>2, ColumnsCount
  <2> HIDE DEF before, after, workers
  <2>5. budget'[c] + after < LimitOf(c) + workers
    BY <2>2, <2>3, <2>4
  <2> QED BY <2>5 DEF after, workers
<1>4. ~reset_stale' => Matches(budget', used', used_month')
  BY <1>1, <1>2
<1>5. used' \in [0 .. LastDay -> Nat] /\ used_month' \in [0 .. Month(LastDay) -> Nat] /\ today' = today
  BY <1>1
<1> QED BY <1>1, <1>2, <1>3, <1>4, <1>5, CommittedRow

(* A day ends: what was of a day that has come still is. *)
LEMMA NextDayIInv == BudgetIInv /\ NextDay => BudgetIInv'
<1> SUFFICES ASSUME BudgetIInv, NextDay PROVE BudgetIInv'
  OBVIOUS
<1>1. /\ today' = today + 1 /\ today < LastDay
      /\ UNCHANGED <<budget, worker, used, used_month, reset_stale>>
      /\ today \in 0 .. LastDay /\ budget \in BudgetRows /\ LastDay \in Nat
  BY BudgetAssumption DEF NextDay, BudgetIInv, SessionsFit
<1>2. \A session : Fits(session, today, budget) => Fits(session, today + 1, budget)
  <2> SUFFICES ASSUME NEW session, Fits(session, today, budget) PROVE Fits(session, today + 1, budget)
    OBVIOUS
  <2>1. /\ session.pc \in {"allowed", "done"} => session.day \in 0 .. LastDay
        /\ Locked(session) => session.version \in BudgetRows
    BY DEF Fits, Sessions, Resting, Locked
  <2>2. Locked(session) => session.version.date \in -1 .. LastDay
    BY <2>1 DEF BudgetRows
  <2> QED BY <1>1, <2>1, <2>2 DEF Fits
<1>3. SessionsFit'
  BY <1>1, <1>2 DEF BudgetIInv, SessionsFit, BudgetRows
<1>4. OneLock' /\ RowsMatch'
  BY <1>1 DEF BudgetIInv, OneLock, RowsMatch
<1>5. \A c \in Columns : ChargesFit(budget, worker, c)'
  BY <1>1 DEF BudgetIInv, ChargesFit
<1> QED BY <1>3, <1>4, <1>5 DEF BudgetIInv

(* Every step keeps the invariant. *)
LEMMA BudgetNextIInv == BudgetIInv /\ [BudgetNext]_budgetVars => BudgetIInv'
<1> SUFFICES ASSUME BudgetIInv, [BudgetNext]_budgetVars PROVE BudgetIInv'
  OBVIOUS
<1>1. ASSUME NEW w \in Workers,
             CheckBudget(w) \/ CheckMissing(w) \/ Settle(w) \/ RollbackBudget(w)
      PROVE  BudgetIInv'
  BY <1>1, CheckBudgetIInv, ResigningIInv, InsertBudgetIInv, RecordUsageIInv, CommitUsageIInv,
     CommitCheckIInv DEF Settle
<1>2. CASE UNCHANGED budgetVars
  BY <1>2 DEF budgetVars, BudgetIInv, SessionsFit, OneLock, RowsMatch, ChargesFit
<1> QED BY <1>1, <1>2, NextDayIInv DEF BudgetNext

(* PersistentBudgetManager: the counters match the committed usage unless  *)
(* a stale reset went over them, and a limit is overrun by less than the   *)
(* number of requests that may be in flight.                               *)
THEOREM BudgetsAreKept == BudgetSpec => []BudgetIsSound
<1>1. BudgetIInv => BudgetIsSound
  <2> SUFFICES ASSUME BudgetIInv PROVE BudgetIsSound
    OBVIOUS
  <2>1. BudgetTypeOK
    BY DEF BudgetIInv, SessionsFit, Fits, Sessions, Resting, Locked, BudgetTypeOK
  <2>2. CountersMatchUsage
    BY DEF BudgetIInv, RowsMatch, Matches, CountersMatchUsage
  <2>3. OverrunIsBounded
    <3>1. ASSUME NEW c \in Columns PROVE budget[c] < LimitOf(c) + Cardinality(Workers)
      <4> DEFINE before == Cardinality(Adding(worker, c))
                 workers == Cardinality(Workers)
      <4>1. IsFiniteSet(Adding(worker, c)) /\ IsFiniteSet(Workers)
        BY BudgetAssumption, FS_Subset DEF Adding
      <4>2. before \in Nat /\ workers \in Nat
        BY <4>1, FS_CardinalityType
      <4>3. budget[c] \in Nat /\ LimitOf(c) \in Nat
        BY ColumnsCount DEF BudgetIInv, SessionsFit
      <4>4. budget[c] + before < LimitOf(c) + workers
        BY DEF BudgetIInv, ChargesFit
      <4> HIDE DEF before, workers
      <4>5. budget[c] < LimitOf(c) + workers
        BY <4>2, <4>3, <4>4
      <4> QED BY <4>5 DEF workers
    <3>2. /\ budget["daily"] < LimitOf("daily") + Cardinality(Workers)
          /\ budget["monthly"] < LimitOf("monthly") + Cardinality(Workers)
      BY <3>1 DEF Columns
    <3> QED BY <3>2 DEF LimitOf, OverrunIsBounded
  <2> QED BY <2>1, <2>2, <2>3 DEF BudgetIsSound
<1> QED BY <1>1, BudgetInitIInv, BudgetNextIInv, PTL DEF BudgetSpec

-----------------------------------------------------------------------------
(* The routing of a query.                                                 *)

Modes == {"simple", "pipeline", "fan_out", "gate", "fallback"}

Runs == [agent : Agents, ok : BOOLEAN] \cup [agent : Agents, ok : BOOLEAN, of : 1 .. 2]
        \cup [agent : Agents, ok : BOOLEAN, of : {"production", "verification"}]

(* A query that is being executed: its agent is one that the role may use, *)
(* and it cites nothing that is restricted.                                *)
QueryIsAdmitted ==
  /\ query.stage \in {"none", "received", "done"} \cup Modes
  /\ query.stage \in {"received"} \cup Modes => query.level \in Nat
  /\ query.stage = "received" => query.cited \subseteq 0 .. 4
  /\ query.stage \in Modes =>
       /\ query.agent \in Agents /\ RequiredLevel[query.agent] <= query.level
       /\ query.cited \subseteq 0 .. 2

(* Agents run from the admission of a query to its reply. *)
RunsFollowStages ==
  /\ outputs \in Seq(Runs)
  /\ query.stage \in {"none", "received", "simple"} => outputs = <<>>
  /\ query.stage = "pipeline" => Len(outputs) < 2
  /\ query.stage # "done" => reply = NoReply

RoutingIInv == QueryIsAdmitted /\ RunsFollowStages /\ RoutingIsCompliant

(* The generalist is for every role. *)
LEMMA GeneralistIsForAll == DefaultAgent \in Agents /\ \A level \in Nat : RequiredLevel[DefaultAgent] <= level
BY RoutingAssumption

(* _determine_classification() and check_access(): what passes cites no    *)
(* class above II.                                                         *)
LEMMA AdmittedClasses ==
  ASSUME NEW cited, cited \subseteq 0 .. 4, CheckAccess(Highest(cited))
  PROVE  cited \subseteq 0 .. 2
<1> DEFINE classes == {1} \cup cited
<1>1. \E x \in classes : \A y \in classes : x >= y
  <2>1. CASE 4 \in cited
    BY <2>1
  <2>2. CASE 4 \notin cited /\ 3 \in cited
    BY <2>2
  <2>3. CASE 4 \notin cited /\ 3 \notin cited /\ 2 \in cited
    BY <2>3
  <2>4. CASE 4 \notin cited /\ 3 \notin cited /\ 2 \notin cited
    BY <2>4
  <2> QED BY <2>1, <2>2, <2>3, <2>4
<1> DEFINE highest == Max(classes)
<1>2. highest \in classes /\ \A y \in classes : highest >= y
  BY <1>1 DEF Max
<1>3. Highest(cited) = IF highest = 1 THEN 2 ELSE highest
  BY DEF Highest
<1>4. Highest(cited) <= 2
  BY DEF CheckAccess
<1> HIDE DEF highest
<1>5. highest \in 0 .. 4
  BY <1>2
<1>6. highest <= 2
  BY <1>3, <1>4, <1>5
<1> QED BY <1>2, <1>6

(* _select_agent(): the agent is one that the role may use. *)
LEMMA SelectedAgentFits ==
  ASSUME query.level \in Nat, NEW capabilities \in UNION {[1 .. n -> Capabilities] : n \in 0 .. 2}
  PROVE  SelectAgent(capabilities) \in Agents /\ RequiredLevel[SelectAgent(capabilities)] <= query.level
<1> DEFINE usable == {i \in DOMAIN capabilities : Accessible(capabilities[i])}
<1>0. PICK n \in 0 .. 2 : capabilities \in [1 .. n -> Capabilities]
  OBVIOUS
<1>1. CASE usable = {}
  BY <1>1, GeneralistIsForAll DEF SelectAgent
<1>2. CASE usable # {}
  <2>1. usable \subseteq {1, 2}
    BY <1>0
  <2>2. \E x \in usable : \A y \in usable : x <= y
    <3>1. CASE 1 \in usable
      BY <2>1, <3>1
    <3>2. CASE 1 \notin usable
      BY <1>2, <2>1, <3>2
    <3> QED BY <3>1, <3>2
  <2>3. Min(usable) \in usable
    BY <2>2 DEF Min
  <2>4. Accessible(capabilities[Min(usable)]) /\ capabilities[Min(usable)] \in Capabilities
    BY <1>0, <2>3
  <2>5. SelectAgent(capabilities) = Provides[capabilities[Min(usable)]]
    BY <1>2 DEF SelectAgent
  <2> HIDE DEF usable
  <2> QED BY <2>4, <2>5, RoutingAssumption DEF Accessible
<1> QED BY <1>1, <1>2

(* Another run at the end leaves the earlier ones as they are. *)
LEMMA OneMoreRun ==
  ASSUME NEW runs \in Seq(Runs), NEW run \in Runs
  PROVE  /\ Append(runs, run) \in Seq(Runs)
         /\ Len(Append(runs, run)) = Len(runs) + 1
         /\ DOMAIN Append(runs, run) = 1 .. Len(runs) + 1
         /\ \A i \in DOMAIN runs : Append(runs, run)[i] = runs[i]
         /\ Append(runs, run)[Len(runs) + 1] = run
OBVIOUS

(* An agent that the role may use runs, and the query goes on. *)
LEMMA RunGoesOn ==
  ASSUME RoutingIInv, query.stage \in Modes, NEW run \in Runs,
         RequiredLevel[run.agent] <= query.level,
         outputs' = Append(outputs, run),
         query.stage = "pipeline" => Len(outputs) = 0,
         query.stage # "simple",
         UNCHANGED <<query, reply>>
  PROVE  RoutingIInv'
<1>1. outputs \in Seq(Runs) /\ reply = NoReply
  BY DEF RoutingIInv, RunsFollowStages, Modes
<1>2. /\ outputs' \in Seq(Runs) /\ Len(outputs') = Len(outputs) + 1
      /\ \A i \in DOMAIN outputs' : outputs'[i] = run \/ (i \in DOMAIN outputs /\ outputs'[i] = outputs[i])
  BY <1>1, OneMoreRun
<1>3. QueryIsAdmitted'
  BY DEF RoutingIInv, QueryIsAdmitted
<1>4. RunsFollowStages'
  BY <1>1, <1>2 DEF RoutingIInv, RunsFollowStages, Modes
<1>5. AgentsFitTheRole'
  BY <1>2 DEF RoutingIInv, RoutingIsCompliant, AgentsFitTheRole
<1>6. RestrictedStaysOut'
  BY DEF RoutingIInv, QueryIsAdmitted, RestrictedStaysOut
<1>7. RepliesAreChecked'
  BY <1>1 DEF RepliesAreChecked, NoReply
<1> QED BY <1>3, <1>4, <1>5, <1>6, <1>7 DEF RoutingIInv, RoutingIsCompliant

(* The execution of a query ends with a reply of its agents.               *)
LEMMA RespondIInv ==
  ASSUME RoutingIInv, query.stage \in Modes, NEW kind, NEW run, Respond(kind, run),
         \/ outputs' = outputs
         \/ \E r \in Runs : RequiredLevel[r.agent] <= query.level /\ outputs' = Append(outputs, r),
         kind = "output" => outputs'[run].ok /\ (query.stage = "gate" => run \in verified')
  PROVE  RoutingIInv'
<1>1. /\ query' = [query EXCEPT !.stage = "done"]
      /\ reply' = [kind |-> kind, run |-> run, mode |-> query.stage, disclosed |-> TRUE]
  BY DEF Respond
<1>2. query'.stage = "done" /\ query'.level = query.level /\ query'.cited = query.cited
  BY <1>1 DEF RoutingIInv, QueryIsAdmitted
<1>3. outputs \in Seq(Runs)
  BY DEF RoutingIInv, RunsFollowStages
<1>4. /\ outputs' \in Seq(Runs)
      /\ \A i \in DOMAIN outputs' : RequiredLevel[outputs'[i].agent] <= query.level
  <2>1. CASE outputs' = outputs
    BY <1>3, <2>1 DEF RoutingIInv, RoutingIsCompliant, AgentsFitTheRole
  <2>2. CASE \E r \in Runs : RequiredLevel[r.agent] <= query.level /\ outputs' = Append(outputs, r)
    <3>1. PICK r \in Runs : RequiredLevel[r.agent] <= query.level /\ outputs' = Append(outputs, r)
      BY <2>2
    <3>2. /\ outputs' \in Seq(Runs)
          /\ \A i \in DOMAIN outputs' : outputs'[i] = r \/ (i \in DOMAIN outputs /\ outputs'[i] = outputs[i])
      BY <1>3, <3>1, OneMoreRun
    <3> QED BY <3>1, <3>2 DEF RoutingIInv, RoutingIsCompliant, AgentsFitTheRole
  <2> QED BY <2>1, <2>2
<1>5. QueryIsAdmitted' /\ RunsFollowStages'
  BY <1>2, <1>4 DEF QueryIsAdmitted, RunsFollowStages, Modes
<1>6. AgentsFitTheRole' /\ RestrictedStaysOut'
  BY <1>2, <1>4 DEF RoutingIInv, QueryIsAdmitted, AgentsFitTheRole, RestrictedStaysOut
<1>7. RepliesAreChecked'
  <2>1. reply'.kind = kind /\ reply'.run = run /\ reply'.mode = query.stage /\ reply'.disclosed
    BY <1>1
  <2> QED BY <2>1 DEF RepliesAreChecked
<1> QED BY <1>5, <1>6, <1>7 DEF RoutingIInv, RoutingIsCompliant

-----------------------------------------------------------------------------
(* The start, and the steps, stage by stage. *)

(* At the start there is no query. *)
LEMMA RoutingInitIInv == RoutingInit => RoutingIInv
BY DEF RoutingInit, RoutingIInv, QueryIsAdmitted, RunsFollowStages, Modes, RoutingIsCompliant,
       AgentsFitTheRole, RestrictedStaysOut, RepliesAreChecked, NoReply

(* A query arrives with the role of its user. *)
LEMMA ReceiveIInv == RoutingIInv /\ Receive => RoutingIInv'
<1> SUFFICES ASSUME RoutingIInv, Receive PROVE RoutingIInv'
  OBVIOUS
<1>1. PICK level \in UserLevels, cited \in SUBSET (0 .. 4) :
        query' = [stage |-> "received", level |-> level, cited |-> cited]
  BY DEF Receive
<1>2. level \in Nat
  BY RoutingAssumption DEF UserLevels
<1>3. query'.stage = "received" /\ query'.level = level /\ query'.cited = cited
  BY <1>1
<1>4. UNCHANGED <<outputs, reply>> /\ outputs = <<>> /\ reply = NoReply
  BY DEF Receive, RoutingIInv, RunsFollowStages
<1>5. QueryIsAdmitted'
  BY <1>2, <1>3 DEF QueryIsAdmitted, Modes
<1>6. RunsFollowStages'
  BY <1>3, <1>4 DEF RunsFollowStages
<1>7. RoutingIsCompliant'
  BY <1>4 DEF RoutingIsCompliant, AgentsFitTheRole, RestrictedStaysOut, RepliesAreChecked, NoReply
<1> QED BY <1>5, <1>6, <1>7 DEF RoutingIInv

(* route() admits the query, for an agent of the user's role, or refuses. *)
LEMMA RouteIInv == RoutingIInv /\ Route => RoutingIInv'
<1> SUFFICES ASSUME RoutingIInv, Route PROVE RoutingIInv'
  OBVIOUS
<1>1. /\ query.stage = "received" /\ query.level \in Nat /\ query.cited \subseteq 0 .. 4
      /\ outputs = <<>> /\ reply = NoReply /\ outputs' = outputs
  BY DEF Route, RoutingIInv, QueryIsAdmitted, RunsFollowStages
<1>0. PICK capabilities \in UNION {[1 .. n -> Capabilities] : n \in 0 .. 2}, mode \in Modes :
        \E agent \in {SelectAgent(capabilities)} \cup Remembered :
          IF CheckAccess(Highest(query.cited))
          THEN /\ query' = [stage |-> mode, level |-> query.level, cited |-> query.cited, agent |-> agent]
               /\ UNCHANGED reply
          ELSE /\ query' = [query EXCEPT !.stage = "done"]
               /\ reply' = [kind |-> "refusal", disclosed |-> FALSE]
  BY DEF Route, Modes, Intents, Complexities
<1>2. PICK agent \in {SelectAgent(capabilities)} \cup Remembered :
        IF CheckAccess(Highest(query.cited))
        THEN /\ query' = [stage |-> mode, level |-> query.level, cited |-> query.cited, agent |-> agent]
             /\ UNCHANGED reply
        ELSE /\ query' = [query EXCEPT !.stage = "done"]
             /\ reply' = [kind |-> "refusal", disclosed |-> FALSE]
  BY <1>0
<1>3. agent \in Agents /\ RequiredLevel[agent] <= query.level
  BY <1>1, SelectedAgentFits DEF Remembered
<1>4. CASE CheckAccess(Highest(query.cited))
  <2>1. query.cited \subseteq 0 .. 2
    BY <1>1, <1>4, AdmittedClasses
  <2>2. /\ query'.stage = mode /\ query'.level = query.level /\ query'.cited = query.cited
        /\ query'.agent = agent /\ reply' = reply
    BY <1>2, <1>4
  <2>3. QueryIsAdmitted'
    BY <1>1, <1>3, <2>1, <2>2 DEF QueryIsAdmitted, Modes
  <2>4. RunsFollowStages'
    BY <1>1, <2>2 DEF RunsFollowStages
  <2>5. RoutingIsCompliant'
    BY <1>1, <2>2 DEF RoutingIsCompliant, AgentsFitTheRole, RestrictedStaysOut, RepliesAreChecked, NoReply
  <2> QED BY <2>3, <2>4, <2>5 DEF RoutingIInv
<1>5. CASE ~CheckAccess(Highest(query.cited))
  <2>1. query' = [query EXCEPT !.stage = "done"] /\ reply'.kind = "refusal"
    BY <1>2, <1>5
  <2>2. query'.stage = "done"
    BY <2>1
  <2>3. QueryIsAdmitted' /\ RunsFollowStages'
    BY <1>1, <2>2 DEF QueryIsAdmitted, RunsFollowStages, Modes
  <2>4. RoutingIsCompliant'
    BY <1>1, <2>1 DEF RoutingIsCompliant, AgentsFitTheRole, RestrictedStaysOut, RepliesAreChecked
  <2> QED BY <2>3, <2>4 DEF RoutingIInv
<1> QED BY <1>4, <1>5

(* Any agent that runs is the selected one or the generalist. *)
LEMMA RunsAreRuns ==
  ASSUME RoutingIInv, query.stage \in Modes
  PROVE  /\ query.level \in Nat
         /\ query.agent \in Agents /\ RequiredLevel[query.agent] <= query.level
         /\ DefaultAgent \in Agents /\ RequiredLevel[DefaultAgent] <= query.level
         /\ outputs \in Seq(Runs) /\ reply = NoReply
BY GeneralistIsForAll DEF RoutingIInv, QueryIsAdmitted, RunsFollowStages, Modes

(* The one agent's answer, or the apology for it, is the reply. *)
LEMMA RouteToSpecialistIInv == RoutingIInv /\ RouteToSpecialist => RoutingIInv'
<1> SUFFICES ASSUME RoutingIInv, RouteToSpecialist PROVE RoutingIInv'
  OBVIOUS
<1>1. query.stage \in Modes /\ outputs \in Seq(Runs) /\ query.stage # "gate"
  BY DEF RouteToSpecialist, Modes, RoutingIInv, RunsFollowStages
<1> DEFINE n == Len(outputs) + 1
<1>2. PICK ok \in BOOLEAN :
        /\ outputs' = Ran(query.agent, ok)
        /\ IF ok THEN Respond("output", n)
           ELSE /\ query' = [query EXCEPT !.stage = "done"]
                /\ reply' = [kind |-> "error", disclosed |-> FALSE]
  BY DEF RouteToSpecialist
<1> DEFINE r == [agent |-> query.agent, ok |-> ok]
<1>3. r \in Runs /\ r.agent = query.agent /\ r.ok = ok /\ RequiredLevel[r.agent] <= query.level
  BY <1>1, RunsAreRuns DEF Runs
<1>4. outputs' = Append(outputs, r)
  BY <1>2 DEF Ran
<1> HIDE DEF r
<1>5. /\ outputs' \in Seq(Runs) /\ outputs'[n] = r
      /\ \A i \in DOMAIN outputs' : outputs'[i] = r \/ (i \in DOMAIN outputs /\ outputs'[i] = outputs[i])
  BY <1>1, <1>3, <1>4, OneMoreRun
<1> HIDE DEF n
<1>6. CASE ok
  <2>1. outputs'[n].ok
    BY <1>3, <1>5, <1>6
  <2> QED BY <1>1, <1>2, <1>3, <1>4, <1>6, <2>1, RespondIInv
<1>7. CASE ~ok
  <2>1. query' = [query EXCEPT !.stage = "done"] /\ reply'.kind = "error"
    BY <1>2, <1>7
  <2>2. query'.stage = "done" /\ query'.level = query.level /\ query'.cited = query.cited
    BY <2>1
  <2>3. QueryIsAdmitted' /\ RunsFollowStages'
    BY <1>5, <2>2 DEF QueryIsAdmitted, RunsFollowStages, Modes
  <2>4. AgentsFitTheRole'
    BY <1>3, <1>5, <2>2 DEF AgentsFitTheRole, RoutingIInv, RoutingIsCompliant
  <2>5. RestrictedStaysOut'
    BY <1>1, <2>2 DEF RoutingIInv, QueryIsAdmitted, RestrictedStaysOut
  <2>6. RepliesAreChecked'
    BY <2>1 DEF RepliesAreChecked
  <2> QED BY <2>3, <2>4, <2>5, <2>6 DEF RoutingIInv, RoutingIsCompliant
<1> QED BY <1>6, <1>7

(* PipelineExecutor: what is delivered is the stage that has just ended. *)
LEMMA PipelineStageIInv == RoutingIInv /\ PipelineStage => RoutingIInv'
<1> SUFFICES ASSUME RoutingIInv, PipelineStage PROVE RoutingIInv'
  OBVIOUS
<1>1. query.stage = "pipeline" /\ query.stage \in Modes /\ Len(outputs) < 2 /\ outputs \in Seq(Runs)
  BY DEF PipelineStage, Modes, RoutingIInv, RunsFollowStages
<1> DEFINE n == Len(outputs) + 1
           stages == <<query.agent, DefaultAgent>>
<1>2. PICK ok \in BOOLEAN :
        /\ outputs' = Ran(stages[n], ok)
        /\ IF ok /\ n < Len(stages) THEN UNCHANGED <<query, reply>>
           ELSE Respond(IF ok THEN "output" ELSE "failure", n)
  BY DEF PipelineStage
<1>3. n \in {1, 2} /\ Len(stages) = 2
  BY <1>1
<1>4. stages[n] \in {query.agent, DefaultAgent}
  BY <1>3
<1> DEFINE r == [agent |-> stages[n], ok |-> ok]
<1>5. stages[n] \in Agents /\ RequiredLevel[stages[n]] <= query.level
  BY <1>1, <1>4, RunsAreRuns
<1> HIDE DEF stages
<1>6. r \in Runs /\ r.agent = stages[n] /\ r.ok = ok /\ RequiredLevel[r.agent] <= query.level
  BY <1>5 DEF Runs
<1>7. outputs' = Append(outputs, r)
  BY <1>2 DEF Ran
<1> HIDE DEF r
<1>8. outputs'[n] = r
  BY <1>1, <1>7
<1>9. CASE ok /\ n < Len(stages)
  <2>1. Len(outputs) = 0 /\ UNCHANGED <<query, reply>>
    BY <1>1, <1>2, <1>3, <1>9
  <2> QED BY <1>1, <1>6, <1>7, <2>1, RunGoesOn
<1>10. CASE ~(ok /\ n < Len(stages))
  <2>1. Respond(IF ok THEN "output" ELSE "failure", n)
    BY <1>2, <1>10
  <2>2. CASE ok
    <3>1. Respond("output", n) /\ outputs'[n].ok
      BY <1>6, <1>8, <2>1, <2>2
    <3> HIDE DEF n
    <3> QED BY <1>1, <1>6, <1>7, <3>1, RespondIInv
  <2>3. CASE ~ok
    <3>1. Respond("failure", n)
      BY <2>1, <2>3
    <3> HIDE DEF n
    <3> QED BY <1>1, <1>6, <1>7, <3>1, RespondIInv
  <2> QED BY <2>2, <2>3
<1> QED BY <1>9, <1>10

(* FanOutExecutor: the agents run in any order, then what there is is      *)
(* combined.                                                               *)
LEMMA FanOutIInv == RoutingIInv /\ (FanOutRun \/ Synthesize) => RoutingIInv'
<1>1. ASSUME RoutingIInv, FanOutRun PROVE RoutingIInv'
  <2>1. query.stage = "fan_out" /\ query.stage \in Modes /\ UNCHANGED <<query, reply>>
    BY <1>1 DEF FanOutRun, Modes
  <2>2. PICK i \in 1 .. Len(FanAgents), ok \in BOOLEAN :
          outputs' = Append(outputs, [agent |-> FanAgents[i], ok |-> ok, of |-> i])
    BY <1>1 DEF FanOutRun
  <2>3. i \in 1 .. 2 /\ FanAgents[i] \in {query.agent, DefaultAgent}
    BY DEF FanAgents
  <2>4. FanAgents[i] \in Agents /\ RequiredLevel[FanAgents[i]] <= query.level
    BY <1>1, <2>1, <2>3, RunsAreRuns
  <2> DEFINE r == [agent |-> FanAgents[i], ok |-> ok, of |-> i]
  <2>5. r \in Runs /\ r.agent = FanAgents[i] /\ outputs' = Append(outputs, r)
    BY <2>2, <2>3, <2>4 DEF Runs
  <2> HIDE DEF r
  <2> QED BY <1>1, <2>1, <2>4, <2>5, RunGoesOn
<1>2. ASSUME RoutingIInv, Synthesize PROVE RoutingIInv'
  <2>1. /\ query.stage = "fan_out" /\ query.stage \in Modes /\ outputs' = outputs
        /\ \E kind \in {"synthesis", "failure"} : Respond(kind, 0)
    BY <1>2 DEF Synthesize, Modes
  <2>2. PICK kind \in {"synthesis", "failure"} : Respond(kind, 0)
    BY <2>1
  <2> QED BY <1>2, <2>1, <2>2, RespondIInv
<1> QED BY <1>1, <1>2

(* A fan-out that breaks off leaves the query to its agent. *)
LEMMA FallBackIInv == RoutingIInv /\ FallBack => RoutingIInv'
<1> SUFFICES ASSUME RoutingIInv, FallBack PROVE RoutingIInv'
  OBVIOUS
<1>1. /\ query.stage = "fan_out" /\ query' = [query EXCEPT !.stage = "fallback"]
      /\ UNCHANGED <<outputs, verified, reply>>
  BY DEF FallBack
<1>2. /\ query'.stage = "fallback" /\ query'.level = query.level /\ query'.cited = query.cited
      /\ query'.agent = query.agent
  BY <1>1 DEF RoutingIInv, QueryIsAdmitted
<1>3. QueryIsAdmitted'
  BY <1>1, <1>2 DEF RoutingIInv, QueryIsAdmitted, Modes
<1>4. RunsFollowStages'
  BY <1>1, <1>2 DEF RoutingIInv, RunsFollowStages
<1>5. RoutingIsCompliant'
  BY <1>1, <1>2 DEF RoutingIInv, RoutingIsCompliant, AgentsFitTheRole, RestrictedStaysOut, RepliesAreChecked
<1> QED BY <1>3, <1>4, <1>5 DEF RoutingIInv

(* GateExecutor: what is delivered is the output that the verifier, the    *)
(* last to run, has passed.                                                *)
LEMMA GateIInv == RoutingIInv /\ (GateProduce \/ GateVerify \/ GateGivesUp) => RoutingIInv'
<1>1. ASSUME RoutingIInv, GateProduce PROVE RoutingIInv'
  <2>1. query.stage = "gate" /\ query.stage \in Modes /\ UNCHANGED <<query, reply>>
    BY <1>1 DEF GateProduce, Modes
  <2>2. PICK ok \in BOOLEAN :
          outputs' = Append(outputs, [agent |-> query.agent, ok |-> ok, of |-> "production"])
    BY <1>1 DEF GateProduce
  <2>3. query.agent \in Agents /\ RequiredLevel[query.agent] <= query.level
    BY <1>1, <2>1, RunsAreRuns
  <2> DEFINE r == [agent |-> query.agent, ok |-> ok, of |-> "production"]
  <2>4. r \in Runs /\ r.agent = query.agent /\ outputs' = Append(outputs, r)
    BY <2>2, <2>3 DEF Runs
  <2> HIDE DEF r
  <2> QED BY <1>1, <2>1, <2>3, <2>4, RunGoesOn
<1>2. ASSUME RoutingIInv, GateVerify PROVE RoutingIInv'
  <2>1. query.stage = "gate" /\ query.stage \in Modes
    BY <1>2 DEF GateVerify, Modes
  <2> DEFINE n == Len(outputs)
  <2>2. outputs \in Seq(Runs) /\ outputs # <<>> /\ outputs[n].ok
    BY <1>2, <2>1, RunsAreRuns DEF GateVerify, AwaitsVerdict
  <2>3. PICK verdict \in {"passed", "feedback", "failed"} :
          /\ outputs' = Append(outputs, [agent |-> DefaultAgent, ok |-> verdict # "failed", of |-> "verification"])
          /\ verified' = IF verdict = "passed" THEN {n} ELSE {}
          /\ IF verdict = "passed" THEN Respond("output", n) ELSE UNCHANGED <<query, reply>>
    BY <1>2 DEF GateVerify
  <2> DEFINE answered == verdict # "failed"
             r == [agent |-> DefaultAgent, ok |-> answered, of |-> "verification"]
  <2>4. answered \in BOOLEAN
    OBVIOUS
  <2>5. DefaultAgent \in Agents /\ RequiredLevel[DefaultAgent] <= query.level
    BY <1>2, <2>1, RunsAreRuns
  <2>6. outputs' = Append(outputs, r)
    BY <2>3
  <2> HIDE DEF answered
  <2>7. r \in Runs /\ r.agent = DefaultAgent
    BY <2>4, <2>5 DEF Runs
  <2> HIDE DEF r
  <2>8. CASE verdict = "passed"
    <3>1. n \in DOMAIN outputs /\ n \in Nat
      BY <2>2
    <3>2. outputs'[n] = outputs[n]
      BY <2>2, <2>6, <2>7, <3>1, OneMoreRun
    <3>3. outputs'[n].ok
      BY <2>2, <3>2
    <3>4. Respond("output", n) /\ n \in verified'
      BY <2>3, <2>8
    <3> HIDE DEF n
    <3> QED BY <1>2, <2>1, <2>5, <2>6, <2>7, <3>3, <3>4, RespondIInv
  <2>9. CASE verdict # "passed"
    <3>1. UNCHANGED <<query, reply>>
      BY <2>3, <2>9
    <3> QED BY <1>2, <2>1, <2>5, <2>6, <2>7, <3>1, RunGoesOn
  <2> QED BY <2>8, <2>9
<1>3. ASSUME RoutingIInv, GateGivesUp PROVE RoutingIInv'
  <2>1. query.stage = "gate" /\ query.stage \in Modes /\ outputs' = outputs /\ Respond("failure", 0)
    BY <1>3 DEF GateGivesUp, Modes
  <2> QED BY <1>3, <2>1, RespondIInv
<1> QED BY <1>1, <1>2, <1>3

(* Every step keeps the invariant. *)
LEMMA RoutingNextIInv == RoutingIInv /\ [RoutingStep]_routingVars => RoutingIInv'
<1>1. RoutingIInv /\ UNCHANGED routingVars => RoutingIInv'
  BY DEF routingVars, RoutingIInv, QueryIsAdmitted, RunsFollowStages, RoutingIsCompliant,
         AgentsFitTheRole, RestrictedStaysOut, RepliesAreChecked
<1> QED BY <1>1, ReceiveIInv, RouteIInv, RouteToSpecialistIInv, PipelineStageIInv, FanOutIInv,
           FallBackIInv, GateIInv DEF RoutingStep

(* AgentOrchestrator.route(): in no pattern does an agent run that the     *)
(* role of the user may not use, or see a passage of a restricted class;   *)
(* and a gate delivers only what was verified.                             *)
THEOREM RoutingComplies == RoutingSpec => []RoutingIsCompliant
<1>1. RoutingIInv => RoutingIsCompliant
  BY DEF RoutingIInv
<1> QED BY <1>1, RoutingInitIInv, RoutingNextIInv, PTL DEF RoutingSpec

-----------------------------------------------------------------------------
(* Together.                                                               *)

(* While the others rest, each service behaves as it does alone. *)
LEMMA ServicesBehaveAsAlone ==
  ServicesSpec => BudgetSpec /\ ApprovalSpec /\ RoutingSpec /\ WorkerSpec
<1>1. ServicesInit => BudgetInit /\ ApprovalInit /\ RoutingInit /\ WorkerInit
  BY DEF ServicesInit
<1>2. [ServicesNext]_servicesVars => [BudgetNext]_budgetVars
  BY DEF ServicesNext, servicesVars, Step, OthersRest
<1>3. [ServicesNext]_servicesVars => [ApprovalNext]_approvalVars
  BY DEF ServicesNext, servicesVars, Step, OthersRest
<1>4. [ServicesNext]_servicesVars => [RoutingStep]_routingVars
  BY DEF ServicesNext, servicesVars, Step, OthersRest
<1>5. [ServicesNext]_servicesVars => [WorkerNext]_workerVars
  BY DEF ServicesNext, servicesVars, Step, OthersRest
<1> QED BY <1>1, <1>2, <1>3, <1>4, <1>5, PTL
        DEF ServicesSpec, BudgetSpec, ApprovalSpec, RoutingSpec, WorkerSpec

(* Nothing that holds of a service alone is lost in the composition: all   *)
(* the invariants of its run, for every value of the constants.            *)
THEOREM ServicesKeepTheirBooks ==
  ServicesSpec =>
    /\ [](BudgetIsSound /\ ApprovalsAreConsistent /\ RoutingIsCompliant)
    /\ [](WorkIsAccountedFor /\ DeadLettersAreTheFailed)
    /\ DrainInterruptsNothing
BY ServicesBehaveAsAlone, BudgetsAreKept, DecisionsAreFinal, RoutingComplies, NoTaskIsLostOrDoubled,
   DeadLettersAreComplete, DrainsAreGraceful, PTL
=============================================================================
