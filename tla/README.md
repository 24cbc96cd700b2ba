# TLA+ models of the Enterprise Agent Platform

The platform (`src/`) is a multi-tenant Python service, one asyncio event loop
per instance, in front of PostgreSQL, Redis, LLM endpoints and enterprise
systems (SAP, MES). This directory specifies and verifies the parts of it whose
correctness depends on the *order* of things: what requests, sessions and
background tasks do to each other's rows, what is left when one step of several
fails, and which of the waits in the system end.

Paths below are relative to `src/src/`, the platform's Python package.

## 1. Inventory

### Components, their state and operations

| Component | Code | State | Operations | Module |
|---|---|---|---|---|
| Write executor, in memory | `operations/write_framework.py`, `api/routes/operations.py` | operations: status, reviewer, MFA flag, audit trail; suspended `execute` requests | propose, approve, reject, execute, cancellation | `WriteOperations` |
| Write executor, PostgreSQL | the same file, `models/write_operation.py` | `write_operations` rows, open transactions | the same as transactions; rollback, crash | `PersistentWriteOperations` |
| Escalation service | `operations/escalation.py` | escalation level per operation | sweep: escalate, auto-deny | `Escalation` |
| SAP and MES writers | `operations/sap_writer.py`, `mes_writer.py` | none | build proposals | `OperationData` (risk and MFA only) |
| Background worker pool | `infra/background_worker.py` | queue, join count, retries, dead letters, workers | start, submit, cancel, work, shutdown | `BackgroundWorker` |
| Region failover | `multiregion/` | primary, replicas, roles, region status, active failover | trigger, roll back, probe, auto-detect | `RegionFailover` |
| Chat turns | `agent/runtime.py`, `api/chat.py`, `websocket/chat.py` | messages, database sessions and their row locks | turn over REST or a socket | `ChatTurns` |
| Conversations and their memory | `api/conversations.py`, `services/conversation.py`, `rag/conversation_memory.py` | conversation row, messages, extracted facts | add, patch, delete, extract, recall | `Conversations` |
| User goals | `services/goal_service.py`, `api/goals.py`, `agent/runtime.py` | goal rows with notes | create, note, complete, abandon; background tasks of a turn | `Goals` |
| Agent memories | `services/memory.py`, `api/memory.py` | memory rows | store, recall, forget, decay, compact | `AgentMemories` |
| Feedback and datasets | `services/feedback.py`, `services/finetuning.py` | feedback, memories made of it, datasets | submit, count, create, populate, export | `FineTuning` |
| Shared spaces | `scale/shared_spaces.py` | members, shared conversations | add, remove, share, leave | `Conversations` |
| Tool approvals | `connectors/approval.py` | requests with an expiry | request, poll, approve, deny, clear | `ToolApproval` |
| Token budgets | `agent/model_router/budget.py` | daily and monthly counters | check, record, reset | `TokenBudget` |
| Agent orchestrator and patterns | `agent/orchestrator.py`, `agent/composition/patterns.py` | one query | route, pipeline, fan-out, gate | `AgentRouting` |
| Goal planner and plans | `agent/composition/goal_planner.py`, `api/plans.py` | task graph, plan row | decompose, run, review | `Goals` |
| Deliberation | `agent/thinking/` | red team, council, first principles | calls that fail or answer nonsense | `Reasoning` |
| Reasoning | `reasoning/`, `agent/reasoning.py` | strategies' drafts and confidence | think, observe, vote, branch, verify | `Reasoning` |
| Webhooks | `services/webhook.py`, `api/webhooks.py` | deliveries, failures of the endpoint | deliver, retry, delete | `WebhookDelivery` |
| Push channels | `websocket/manager.py`, `infra/streaming.py`, `operations/notification.py` | registered sockets, bounded event queue, notices | connect, broadcast, emit, read, notify | `PushChannels` |
| Users and API keys | `services/tenant_admin.py`, `services/api_keys.py`, `auth/`, `api/sso.py`, `api/admin.py` | users, roles, keys | login by token, key or SAML assertion, create, invite, change role, deactivate, rotate | `UserAccess` |
| Tenant settings and quotas | `services/tenant_admin.py`, `api/tenant_admin.py` | settings row, counts | get or create, patch, report | `TenantUsage` |
| Rate limiters | `core/rate_limit.py`, `infra/redis_rate_limiter.py` | windows in memory and in Redis | check | `RateLimits` |
| Usage metrics and analytics | `services/metrics.py`, `services/analytics.py`, `agent/model_router/metrics.py` | buffer, rows, routing decisions | record, flush, stop, summarise | `TenantUsage` |
| Connector cache, response cache | `connectors/cache.py`, `cache/response_cache.py` | LRU with expiry; answers and their index | get, set, invalidate, purge | `Caching` |
| Edge synchronisation | `edge/sync.py` | `sync_queue` rows, watermark | queue, push, pull, resolve | `EdgePush`, `EdgePull` |
| Documents and ingestion | `rag/ingest.py`, `services/ingestion.py`, `api/`, `infra/background_worker.py` | documents, chunks, jobs | upload over either route, task of the pool, embed, delete | `Documents` |
| Document versions | `rag/versioning.py` | versions of a file | create, clean up, compare | `DocumentVersions` |
| Fine-tuning jobs | `scale/fine_tuning.py` | jobs in memory and in rows | create, train, cancel, restart | `FineTuning` |
| Plugins | `plugins/`, `api/plugins.py` | watched files, imported and loaded code, registrations | watch, poll, reload, enable, configure | `PluginHost` |
| GDPR requests | `compliance/gdpr.py` | personal rows | erase, export, request | `Erasure` |
| Compliance checks and reports | `compliance/` | findings, evidence, scores | monitor, schedule, report | `Assessments` |

`PROJECT.json` has the status of each, and lists the ones that are not modelled
with the reason; see also section 7.

### How they interact

* **One event loop.** A coroutine is interrupted only where an await really
  suspends. A component in memory (executor, approvals, caches, shared spaces,
  plugin host) is overtaken exactly there.
* **One database.** Most routes are one READ COMMITTED transaction around the
  request (`database.py:get_db_session`): reads take no lock and see what is
  committed when their statement runs, an UPDATE waits for the row lock and then
  writes the columns that *this session* has changed, the lock is held to the end
  of the request. A session does not read again what it already has in hand. The
  same pattern is behind most of the hazards below.
* **Chat.** A turn reads goals, history and memories, waits for the model, and
  stores both messages; three background tasks of the turn go on in the session
  of the request.
* **Approval.** An API route checks role and tenant and calls the executor;
  `execute` awaits a connector; the escalation sweep reads the pending operations
  and changes them in place.
* **Failover.** The manager awaits a promotion (a remote call) between its check
  and its update of the router, while probes and auto-detection run.
* **Edge.** A node posts batches and marks each entry in a SQLite transaction of
  its own; it pulls by a watermark of its own clock.
* **Stopping.** The process is stopped with buffers, queues, training coroutines
  and sockets open.

### What is hard, and what makes each component correct

| Behaviour | Where | Correct when |
|---|---|---|
| two requests decide one thing | executors, plans, users, goals, settings, tool approvals | a decision is final, or the row still says who took it; no field another request has set is undone |
| a row read before an await | chat, goals, budgets, versions, caches, erasure | nothing stale is written, or what may be lost is known exactly |
| several statements of one report | assessments, quotas, usage, feedback, exports | figures agree when nothing comes between, and differ only in the direction of time otherwise |
| one step of several fails | uploads, feedback, deliveries, metrics, reasoning | all or nothing; no confidence in what failed |
| lost answers, retries, offline nodes | edge, webhooks, worker pool | nothing counted as sent that was not; attempts bounded |
| waiting | approvals, budgets, chat locks, worker drain, failover | every wait ends, on the fairness stated below |
| limits | rate limiter, LRU, bounded stream, quotas, retries | never passed, and who is refused may come back in time |

`PROJECT.json` lists the hazards one by one at the line where they bite, with
the property that would catch each.

## 2. The modules

**The grain of atomicity.** An action is what runs between two suspensions of a
coroutine, or between two statements of a transaction as far as others can tell
the difference. A refused request changes nothing and is no action. Where a
module models a session, the phases are: read, wait (for a model, a file, a
lock), flush (from then on the row is locked), commit or roll back. An abort at
any point stands for an error, a cancelled request and a crash alike.

**Write framework.** `OperationLifecycle` is the abstract promise: submitted,
decided once, handed to its connector at most once, finished. `WriteOperations`
has the in-memory executor with its routes (`propose`, `approve` and `reject` do
not suspend; `execute` does at the connector), `Escalation` EXTENDS it with the
clock and the sweep, `PersistentWriteOperations` has the transactions. `phase` is
the status with the outcomes merged, `writes` the number of connector calls;
`WriteOperations`, `Escalation` and (one request at a time, without failures)
`PersistentWriteOperations` are checked to implement the life cycle. For the
persistent executor the refinement reads the row as its next writer will find it.

**RegionFailover** has the router, the replication topology and the manager;
`call` holds what a suspended call has read before its await, `Abandon` cancels
it there.

**ChatTurns** has sessions of requests and of sockets; a socket keeps one
transaction, and the locks of the conversations it has updated, until it
disconnects. Deadlocks among row locks are broken by the database.

**Services and PlatformServices** compose the other components. They share no
state and no lock with each other, so interleaving one with another shows
nothing; in each behaviour one of them runs, in all the interleavings of its own
sessions, requests, calls and failures, and the others rest in their initial
states (`running` says which). `Services` has those that somebody waits for,
with fairness; `PlatformServices` those whose promises are about their data. The
edge push is in both, with interruptions where safety is checked and without
where its entries must settle.

What each of these modules keeps of its component is said in the comment at its
head and at its variables. Some choices that cut across them:

* Payloads are model values; a note, a message or a fact is named by the call
  that made it. Confidences, scores and rates are the percentages that the code
  tells apart by its thresholds.
* What the model says, what a file contains and whether a post succeeds are
  choices.
* History variables (`owed`, `learned`, `accepted`, `ever`, `overtaken`,
  `disturbed_delivery`, ...) record what properties compare with and no action
  reads.
* Time is a counter: an instant, a day, a number of idle periods.
* A module with two parts of one subsystem (settings and metrics, the two caches,
  conversations and spaces, goals and plans, datasets and training, strategies and
  deliberation) keeps their variables apart; each has its own Init and Next.
* `UserAccess` locks the row of the acting user when the time of the login is
  flushed, with the statement after it, and until the commit; `EdgePush`
  orders the queue by `created_at`; a request of `ToolApproval` carries its risk,
  and a budget its month (`used_month`), because properties speak of them. The
  creation of a GDPR request is one step, since nothing else writes its row.
* `DocumentVersions` keeps version numbers as pairs but sorts them as the code
  does, as text; the document starts two versions before 10.0 so that this can
  matter. Documents of one version come in any order. Two creations that overlap
  may make one version twice; what cleanups keep is then no longer promised
  (`doubled`), since each may keep the document that the other deletes.
* A decay writes the importance that it has computed from what it read. If another
  decay has committed meanwhile it raises it again, and a memory that a compaction
  has deleted as unimportant in between is important after all: `revived` names
  these, and `MemoriesAreKept` excepts them.
* Counts, sums and sortings in the modules are written with `Cardinality`, with
  recursive functions and as a choice among the sequences in order, so that
  section 4 can speak of them.
* Two connections of `RateLimits` share the window in Redis and each has a window of
  its own in memory. Requests that come at one `time.time()` are one member of the
  sorted set in Redis (`IsTwin`), so the set does not count them.
* A login by SAML writes the role that the identity provider's groups say over the
  user's, whoever the user is and whether active or not (`LogInBySaml`). That is no
  administrator's doing; `TenantKeepsAnAdmin` excepts it.
* `Documents` has the three ways to the chunks: the ingestion route, the route of
  `api/documents.py` (the router never reaches it, see section 6, but
  `rag/ingest.py` is written for it) and the task of the pool.
* `Erasure` reads the conversations and then the messages of those that it has found,
  as two statements, and an export takes no more than the limit of audit entries.
* A message of `PushChannels` is counted for each receiver, since the webhook is one
  receiver for all approvers.
* `Assessments` remembers that a document was labelled anew between the statement that
  counts it and the verdict (`relabelled`): the statement for the details of a
  finding is awaited in between.
* `PluginHost` evicts modules by the prefix of their path, those of a sibling whose name
  begins alike included (`PathsBelow`).
* The quotas of `TenantUsage` and `PluginHost` start one report, or one of two
  halves, at a time where the halves share nothing.
* `Goals` keeps a session of a turn alive after its request is over (`"over"`): its
  background task can still take a row lock, and what it writes is committed by
  nobody.

## 3. The runs

| Run | Instance | What it shows |
|---|---|---|
| `operations` | 2 operations, 3 users of two tenants, 2 execute requests, the sweep | authorisation, at most one call, tenant isolation, audit, finality, who holds an execution; sweeps respect decisions; refinement; executions end and every proposal is decided |
| `escalation_sixty` | default policy in 5-minute ticks | **violated**: `DenyAfterSixtyMinutes` |
| `persistent` | 1 row, 3 transactions, rollbacks and crashes | committed rows are consistent, calls follow committed approvals, requests return; the serial refinement |
| `persistent_twice` | 1 row, 2 transactions, no failure | **violated**: `ExecutedAtMostOnce` |
| `worker_drain` | 2 tasks, 2 slots for a pool of 1 | **violated**: `DrainEnds` |
| `failover` | 3 regions, 2 calls in flight, probes | one failover at a time, the primary is writable, router and replication agree unless calls crossed, failovers end |
| `chat` | 2 sockets, 1 request, 2 conversations, 4 turns, 1 fault | stored turns are whole, answers are kept, short conversations are numbered, turns end |
| `chat_numbers` | 1 client, 12 turns, history of 20 | **violated**: `NumbersIncrease` |
| `services` | 2 workers, 2 waiters, 3 agents, 2 pushers, 3 slots | budgets, approvals, routing, worker pool keep their books; every wait ends; a drain interrupts nothing |
| `platform` | two or three sessions of each of 24 components | the composite invariants below, and `FindingsAreJustified` step by step |
| `budget_lost` | 2 workers at midnight | **violated**: `UsageIsCounted` |
| `uploads_lost` | 1 upload, 1 batch | **violated**: `FailedJobsAreReturned` |

The properties of `platform` are conjunctions of what the modules state; each
part is looked at in the behaviours in which its component runs.

| Composite | Parts |
|---|---|
| `MessagesAreDelivered` | deliveries are counted and, undisturbed, taken once; sockets are indexed; the events of a stream come in order and whole; a notice goes once to each approver and to the webhook once for each |
| `ThinkingIsSound` | plans run in the order of their graph and record their reviews; the council and the red team conclude from answers; an outage is worth the defaults of its strategy and no more, the majority wins, the beam is kept |
| `AccessIsGoverned` | revocations last, a tenant keeps an administrator, rotation replaces |
| `LimitsHold` | windows and bursts; settings are the latest ones, reports and quotas add up |
| `CachesAreSound` | the least recent goes; answers are indexed, invalidation purges |
| `EdgeIsInSync` | attempts bounded, what is settled was received, a pull misses nothing below its watermark |
| `JobsAreSound` | uploads whole or not at all, on every way in; an accepted cancellation of a training lasts, and its row says what was committed |
| `RecordsAreSound` | erasure reaches all, exports are complete up to their limit, memories are forgotten for a reason, reports agree; and `UserDataIsKept`: conversations, goals, feedback, spaces; metrics are kept once and lost only by a commit that fails or meets another flush, their figures agree; old versions go first; the code of a plugin that runs was loaded |

Every property of a passing run has a mutant: an operator next to the one it
changes, marked "Mutant of", that breaks it the way a plausible bug would. A
composite has one as well, which breaks one of its parts: the mutants of the
platform services show the sensitivity of nine parts, not of every conjunct.

### Bounds, and why they suffice

* *Two of a kind.* The hazards are pairwise: two sessions on one row, two tasks
  on one buffer, two pushes of one batch. A third is there where something must
  come between the two: the third transaction of `persistent`, the third flusher
  of the metrics (one started by a full buffer, next to the periodic and the
  final one), the third region, the third user of a space (of another tenant).
* *Retries.* `MaxRetries`, `MaxRetry`, `MaxAttempts`: 2 is the least value with a
  retry, and the boundary between retrying and giving up is met at every value.
* *Counters.* `MaxTurns`, `MaxPosts`, `MaxGoalCalls`, `MaxSpaceCalls`,
  `MaxTalks`, `MaxChanges` and the like bound the calls: one more than is needed
  for the overlap and its aftermath. `AttemptBound` is one more than the property
  allows, so a violation is not cut off. `AgeBound`: the sweep compares ages with
  the timeout only.
* *Time.* `LastInstant`, `LastDay`, `LastPull`, `MaxIdle`: enough to cross the
  boundary that the code looks at (window, midnight, month, watermark,
  threshold) and come back.
* *Limits.* `AuditLimit` is 1 for the 1000 audit entries of an export: entries of two
  turns pass it. `MaxTwins` is 1: one request at the time of another.
* *Faults.* One interruption, one fault, one disturbed delivery: the properties
  either grow with their number or exclude them.
* *Sizes.* `MaxHistory` is 4 in `chat` and 20, as in the code, in
  `chat_numbers`; the LRU holds three of four keys; the stream two events of
  five; the buffer of metrics is full with one.

Deadlock is checked in `failover`, where probes never end. In the other runs the
system may stop, when everything has been decided, delivered or used up.

### Fairness

| Specification | Assumes | Because |
|---|---|---|
| `FairEscalationSpec` | a suspended `execute` is resumed; time passes; the sweep is called (WF) | connectors have HTTP timeouts, and every exception becomes an error result; the module documents a periodic task |
| `FairPersistentSpec` | transactions proceed (WF), a waiter for a row lock gets it in the end (SF) | connector timeouts; PostgreSQL queues the waiters of a row |
| `FairWorkerSpec` | workers are resumed, handlers end, the first start happens (WF); nothing about a second one | event loop; application start-up |
| `RegionFailover!Spec` | a promotion comes back (WF) | its request has a 30-second timeout and its errors are caught |
| `FairChatSpec` | a turn proceeds, a socket between turns is closed in the end (WF) | model timeouts; without a disconnect the locks of a socket are never released. The turns of the instance are bounded, so nobody is overtaken for ever and weak fairness is enough |
| `FairServicesSpec` | the same for pushes, polls, workers and the routing of a query (WF), and for budget transactions that wait for a row (SF) | timeouts of 30 s; a poller sleeps and polls again; the lock queue |

No fairness is assumed of users, cancellations, crashes or probes. `ExecutionEnds`
excepts interrupted executions because the code leaves them "executing";
`EveryEntrySettles` counts exhausted retries as an end because the code never
sends such an entry again; `EveryTaskSettles` speaks of a pool that is not shut
down because a shutdown drops what is queued.

## 4. What is proved

The proof modules hold the theorems; each extends the module it is about, and
everything it uses is proved from the definitions and the named assumptions on
the constants (`...Assumption`, in the module that declares them; TLC evaluates
each in a run). Nothing is assumed of the number of users, operations, sessions,
transactions, tasks, workers, regions, agents, entries, documents or jobs, nor of
how long a behaviour is; sets must be finite where the code counts them (worker
slots, budget workers, edge pushes, feedbacks, papers, the dependencies of a task).

| Module | Theorem | States, for every value of the constants |
|---|---|---|
| `WriteOperationsProofs` | `TypeCorrect` | `[]TypeOK` |
| | `OnlyAuthorisedCalls` | `[]HumanInTheLoop` |
| | `NoDoubleCall` | `[]AtMostOneCall` |
| | `TenantIsolation` | `[]ReviewedWithinTenant` |
| | `TerminalOperationsAreFinal` | `TerminalIsFinal` |
| | `ExecutionsAreHeld` | `[]ExecutingIsHeld` |
| | `AuditTrailsExplain` | `[]TrailExplainsStatus` |
| | `ExecutorImplementsLifecycle` | `ImplementsLifecycle`: the refinement of `OperationLifecycle` |
| | `DenialComesLast` | `[]EscalationFollowsChain` |
| | `DecisionsAreRespected` | `SweepRespectsDecisions` |
| | `SweepsFollowLifecycle` | `ImplementsLifecycle`, with the sweeps |
| | `HistoryStays` | `TerminalIsFinal`, with the sweeps |
| | `SweepsAreHarmless` | the invariants of the executor, with the sweeps |
| `PersistentWriteOperationsProofs` | `LostUpdatesLoseWholeDecisions` | `[]CommittedRowsAreSound` |
| | `CallsAreApproved` | `[]CallsFollowCommittedApproval` |
| | `SerialRequestsFollowLifecycle` | `SerialImplementsLifecycle`: the refinement, while requests come one at a time |
| `ServicesProofs` | `FailoversNeverOverlap` | `[]OneFailoverAtATime` |
| | `PrimaryStaysWritable` | `[]PrimaryIsWritable` |
| | `OnePrimaryUnlessCrossed` | `[]OnePrimary` |
| | `NoTaskIsLostOrDoubled` | `[]WorkIsAccountedFor` |
| | `DeadLettersAreComplete` | `[]DeadLettersAreTheFailed` |
| | `DrainsAreGraceful` | `DrainInterruptsNothing` |
| | `DecisionsAreFinal` | `[]ApprovalsAreConsistent` |
| | `BudgetsAreKept` | `[]BudgetIsSound` |
| | `RoutingComplies` | `[]RoutingIsCompliant` |
| | `ServicesKeepTheirBooks` | all of these and the pool's, of the composition `ServicesSpec` |
| `ChatTurnsProofs` | `StoredTurnsAreWhole` | `[]StoredTurnsAreSound` |
| | `PromisedAnswersAreKept` | `[]AnswersAreKept` |
| | `SequenceNumbersAreGapless` | `[]ShortConversationsAreNumbered` |
| `PlatformServicesProofs` | `AccessStaysGoverned` | `[]AccessIsGoverned` |
| | `EdgeStaysInSync` | `[]EdgeIsInSync` |
| | `CachesStaySound` | `[]CachesAreSound` |
| | `MessagesStayDelivered` | `[]MessagesAreDelivered` |
| | `JobsStaySound` | `[]JobsAreSound` |
| | `LimitsStayHeld` | `[]LimitsHold` |
| | `RecordsStaySound` | `[]RecordsAreSound` |
| | `ThinkingStaysSound` | `[]ThinkingIsSound` |
| | `FindingsStayJustified` | `FindingsAreJustified` |

With these every safety property, action property and refinement of the passing
runs is a theorem.

`WriteOperationsProofs` holds the proofs of the executor first and then those of
the sweeps next to it; `ServicesProofs` those of the worker pool, of failover and
of the other services that somebody waits for. The proofs about the platform
services are in four modules: `ThinkingProofs` (plans, goals, deliberation,
reasoning, and the lemmas about sequences, orders and numbers that all use),
`RecordsProofs` (erasure, memories, reports, conversations, facts, spaces,
versions), `TenantServicesProofs` (access, rates, settings and quotas, metering,
documents, training jobs, feedback, plugins, and what is delivered and pushed),
each component on its own there; and `PlatformServicesProofs` (edge, caches, and
the theorems about all of them together).

The properties are seldom inductive. What each invariant adds, and why:

**Write operations** (`IInv`). `HumanInTheLoop` and `AtMostOneCall` speak of
operations that have been called; on their own they say nothing of an approved
operation that is about to be called, nor of a request that is about to resume.
`PastIsAuthorised` (whatever is past approval is authorised already),
`CallsFollowStatus` (a call has been made only where the status says so),
`RequestsHoldExecuting` (a suspended request holds an operation that is still
executing, so its resumption overwrites nothing else), `OneHolder` (no two
requests hold the same operation) and `Proposed` (what a proposal fixed is
there). `TerminalIsFinal` rests on `RequestsHoldExecuting`: only a resumption
ignores the status. The refinement maps each action to the step of the life cycle
it stands for, or to a stutter.

**Escalation** (`EscalationIInv`). A sweep changes many operations at once; lemma
`Sweep` says what it does to each. The invariants of the executor are carried
over (`SweepKeepsIInv`), and the levels are those the trails tell, because the
executor writes no escalation entry.

**PostgreSQL executor** (`IInv`). What is committed was computed from a row that
may be out of date by then. So the invariant reaches into the transactions: what
one has read, and what it is going to write, is consistent by itself and rests on
a committed approval, whatever the row says meanwhile. That is why a lost update
loses a whole decision and never mixes two halves. `SerialIInv` adds, as long as
nothing has overlapped or failed, that one transaction at most is open and its
decision still fits its row; from that the refinement follows.

**Failover** (`IInv`). What a suspended call has read before its await and relies
on after it: a failover holds the manager, every call promotes another region
than the one it took for the primary, and, unless calls crossed, what it read
still holds.

**Worker pool** (`WorkerIInv`). The runs count occurrences; the invariant says it
without counting, by the place of a task of each status and how often it has been
begun there. The join count is then the cardinality of what waits and runs.

**Tool approvals** (`ApprovalIInv`): a request leaves "pending" once and an answer
agrees with its object, also after the object was cleared from the list.
**Budgets** (`BudgetIInv`): the row, and the version a session is about to commit,
match the usage unless a stale reset was applied; everybody who has passed the
check and will charge is counted against the limit, which bounds the overrun by
the number of workers. Month boundaries need a few facts about division.
**Routing** (`RoutingIInv`): a query that is executed has been admitted, and its
runs belong to the stage it is in.

**Chat turns** (`ChatIInv`). Turns are owned by one session until they are
committed (`TurnsAreOwned`); what a session is about to store is paired with its
question; while nothing has overlapped, one session has all that is not committed
and its number is the number of rows it sees (`NumberingHolds`).

**Platform services.** Each service has an inductive invariant of its own:
`AccessIInv` (what a session is going to write switches only new rows on, and an
administrator stays whatever the open sessions commit), `PushIInv` (an open batch
is received before it is marked; attempts made are within what the retries of the
row and of the open calls allow), `PullIInv` (what is unseen behind the watermark
was published during a pull), `LruIInv` (a position in the list is at most the
number of uses since), `ResponseIInv`, `RateIInv` (what a limiter granted in the
observed window is bounded by its counters), `WebhookIInv` (rows, open sessions
and the posts agree on the number of attempts), `ChannelIInv` (what was emitted is
what was read, queued and waiting, in that order), `DocumentIInv` (which parts of
an upload are there at each of its phases), `TuningIInv` (what a row may say at
each stage of its job), `QuotaIInv` (one session at most has written the row of a
tenant's settings; it writes a whole new row only if there is still none, and else
only the fields it sets, so its commit undoes nothing; what a report has counted so far is bounded
by the people and calls that are there, and equal to them while nothing came
between).

*Thinking* (`ThinkingProofs`).

* `PlansIInv`: a wave is what was ready when it began, so a task that is tried waits
  for nothing outside the earlier waves; a review that has seen a draft is going to
  write its own name, and fits the row unless reviews have overlapped. That an
  acyclic plan of distinct tasks never stops in the middle
  (`NoExecutionDeadlock`) takes a last task in the order, hence induction over
  the tasks.
* `GoalsIInv`: what a session has read or flushed of a goal holds every note that is
  safe; no goal is flushed by two sessions. Sessions take their row locks in the
  order of the goals, so no two wait for each other.
* `DeliberationIInv`: of a question that has been split, the first child is in the tree
  or on the agenda, and the agenda repeats nothing; so the leaves are answered when
  the agenda is empty. Verdicts and dissent are functions of the outcomes, settled
  when they are set.
* `ReasoningIInv`: scores are within their scale and, in an outage, at their default;
  the answers of an outage are all failures; every branch that is alive is as old as
  the tree, at most as many are as the beam is wide, and none that was dropped in
  the last round has a better score.

*Records* (`RecordsProofs`).

* `ErasureIInv`: what an erasure has not found in the tables it has read has come
  later (`Saw`), and an export holds of each table it has read all that was there
  when it began, of the audit entries as many as the limit lets it take.
* `MemoryIInv`: a compaction is going to delete what was faint when it looked, and
  faint it stays but for the revived; and when it counted, there were as many
  memories above the limit as it takes. What it deletes beside another is surplus,
  so active, forgotten and surplus memories together stay as many.
* `AssessIInv`: findings are those of the sections of the report in their order; the
  uploads that a section has counted are at most those in the log, which loses none
  while a report is made; after a statement that failed no test passes; and a run
  that is stored is one of all six checks.
* `ConversationIInv`: messages have the numbers from 1 to the last, if not each its
  own; a request that has read its number saw no higher one when it began; who has
  written holds the row; title and flag are what was last committed. The ranking of
  a recollection lists the relevant facts, each of them once and the best first
  (`SortingExists`, `RankingIs`).
* `SpaceIInv`: members and shared threads are listed once, and who is about to add or
  share has had the right to; whoever left a space without an owner was not its
  creator.
* `VersionsIInv`: as long as no version exists twice, there is a set of the latest
  documents that no open cleanup is going to touch (`SomeTopStays`): when a document
  comes, the latest are among those before and the new one (`TopGrows`), and when
  others go they stay (`TopStays`). The order is that of texts, which is proved to be
  one from the digits up (`TextOrder`) and to agree with the order of versions of
  one digit (`ShortTextsOrder`), the premise of `HighestStays`.

*Tenant services* (`TenantServicesProofs`).

* `UsageIInv`: every call is at exactly one place - buffer, a flusher, the table, the
  lost ones (`PlacesApart`, `NumberedOnce`), of which there are none before a commit has
  failed or met another flush - and after `stop()` the buffer and the
  flushers are empty; a summary's counts lie between the rows it began with and
  those there are; of the routing decisions, costs are at most those of the heavy
  tier for each decision, so the savings are between nothing and 90 %.
* `FeedbackIInv`: what is remembered is what the stored feedbacks say, no more; the
  statistics count at most what is stored, and exactly that unless overtaken.
* `PluginIInv`: a file whose change the watcher has seen is loaded or on the list of the
  poll; a route writes only the columns it has been asked to change, and
  holds the row while it does.

`ServicesStepAsAlone`, `RecordsStepAsAlone` and `ThinkingStepsAsAlone`, with the
`...BehaveAsAlone` lemmas, show that in the composition each service takes its own
steps or none, so its invariant carries over. `FindingsStayJustified` is an action
property: from `AssessIInv`, whatever a `Count` step adds is justified by the
tables at that moment (`FindingsFollow`).

**Induction.** The induction theorems of the library take a predicate as a
parameter, which the installed provers do not instantiate. Where a sum, a depth
or a length needs induction, the predicate is given as a set instead (`SetInduction`:
a set of numbers with 0 and with the successor of each of its members has them
all), and a recursive function is shown to exist once for all steps that stay in a
set (`RecursionExists`). `ThinkingProofs` begins with these and with what follows
from them: every nonempty set of numbers has a least one, every finite set that is
ordered has a last one and can be sorted.

### What is only model-checked, and why

*Liveness* (`ExecutionEnds`, `EveryProposalIsDecided`, `EveryRequestReturns`,
`FailoverEnds`, `EveryTurnEnds`, `EveryWaitEnds`): fairness and ENABLED are out
of the prover's reach. The findings of section 5 are counterexamples of TLC; there
is nothing to prove about them.

## 5. Findings

Each is the counterexample of a run.

1. **Auto-denial comes early** (`escalation_sixty`). `check_timeouts` compares
   the age since the proposal with the same 30 minutes at every level
   (`operations/escalation.py:98`), so the sweep after the escalation denies: at
   35 minutes with a 5-minute period, not at the documented 60.
2. **Two instances can execute one operation** (`persistent_twice`).
   `_get_record` takes no lock and no version is compared
   (`operations/write_framework.py:796`), although the class promises shared state
   "without conflict".
3. **A draining shutdown may hang** (`worker_drain`). `shutdown` sets the event
   that ends the workers before it awaits `queue.join()`
   (`infra/background_worker.py:142`); with a task queued the join never returns.
4. **Long conversations repeat their numbers** (`chat_numbers`). Messages are
   numbered after the length of the history, which is cut at 20
   (`agent/runtime.py:312`).
5. **Recorded usage is wiped out at midnight** (`budget_lost`). The check applies
   the daily reset to a row it read without a lock
   (`agent/model_router/budget.py:470`).
6. **A failed ingestion job is gone** (`uploads_lost`). Chunks get document ids
   that no document has (`services/ingestion.py:349`); the first flush aborts the
   transaction, and with it the job. The job that the route returns as failed was
   rolled back, the audit service swallows its own error, and the commit of
   `database.py:124` is refused: with FastAPI from 0.118 on, which `pyproject.toml`
   admits, after the 202 has been sent. No job can be looked at or retried.

## 6. Met while modelling

Part of the models, and the reason why a property is stated as it is; no finding
of a run.

*Write operations, workers, failover, edge*

* A rejection can commit over an execution committed meanwhile
  (`operations/write_framework.py:929`). An operation decided after an escalation
  keeps its level; `clear_escalation_state` has no caller.
* A failover can start during a rollback, which checks that none is active but
  does not claim the manager (`multiregion/failover.py:307`); a failover of a
  region that is not the primary leaves the old primary its flag; after a failover
  the target is not chosen until its next probe (`multiregion/routing.py:135`).
* A task cancelled while its handler runs is completed or retried all the same
  (`infra/background_worker.py:283`); a worker cancelled in its handler leaves its
  task "running".
* A failed task is "retried up to max_retries times" (`infra/background_worker.py:70`),
  `max_retries` is the "number of retry attempts" (`:97`), and the dead letters have
  "exceeded" it (`:226`); but `:307` compares after it has counted the failure, so there
  are `max_retries` attempts in all, one retry less. `DeadLettersAreTheFailed` holds of
  either reading: no task is begun more than `1 + max_retries` times.
* `main.py` builds the pool with an argument it does not have and calls
  `worker_pool.stop()`, which does not exist, so what follows in the shutdown
  is not reached.
* Attempts made while an edge node is offline use up `max_retry`
  (`edge/sync.py:222`); the exception path counts settled entries twice
  (`edge/sync.py:355`); what is published between the answer of a pull and its
  watermark is skipped (`edge/sync.py:439`).

*Agents*

* A proposal whose tasks share an id passes the check of the graph and deadlocks
  in its execution (`agent/composition/goal_planner.py:413`, `:456`).
* In a total outage `reasoning/strategies/self_consistency.py` counts failed samples as
  votes of their own and is still 60 % sure with three samples (40 and one sample's
  share), `tree_of_thought.py` 50 %; `OutageIsWorthDefaults` says exactly that, and 0
  for the others. `rar.py` returns its failure text as an answer if `missing_info` is
  null; the verification of a failed chain of thought may raise its confidence.
* A composition falls back to a single agent when it raises
  (`agent/orchestrator.py:1175`). The patterns catch what their agents raise, so only a
  cancelled agent of a fan-out gets there; a gate never falls back to what nobody
  verified. The fallback is the agent that was selected, so it has passed the checks
  of the query.
* Council and first principles: malformed arguments of a model's tool call raise
  outside the handlers; a leaf whose decomposition failed counts as a fundamental
  truth. The deliberation tools are called with arguments they do not take
  (`agent/orchestrator.py:951`).
* `agent/tools.py` constructs the connector cache with another signature than it
  has; no wiring gives the runtime a response cache. `invalidate_key`, which nobody
  calls, leaves the sentinel of the key in the index of its tenant.

*Conversations, goals, memories, feedback*

* The background tasks of a turn use the session of the request, at the same time
  or after its end (`agent/runtime.py:429`). What they flush later is committed by
  nobody, and keeps the row of a goal locked until the session is collected.
* `api/goals.py:111`, `:140` and `:176` ask for `Permission.WRITE`, which
  `core/policy.py` does not have: creating a goal, noting progress and completing one
  over the API answers 500. `Goals` models what `GoalService` would do behind that
  line, next to the turns that read the goals and note progress.
* Notes of a goal are appended to what the turn has read before it asked the
  model (`services/goal_service.py:138`): notes committed meanwhile are
  overwritten. `SafeNotesStay` speaks of the others. An abandoned goal may be
  completed, and a completed one abandoned.
* Overlapping `add_message` calls share a sequence number
  (`services/conversation.py:173`). A PATCH to the value that the session has read
  is not written. `GET /conversations/search` is shadowed by
  `/{conversation_id}` (`api/conversations.py:173`, `:389`).
* A failed relevance call scores 0.5, which makes every memory relevant
  (`rag/conversation_memory.py:505`); the extractor has no caller; a failed insert
  aborts the transaction while the facts are returned all the same.
* The compaction removes memories "below" the threshold (`services/memory.py:31`, `:435`)
  with a `<=` (`:469`), and those never accessed go before older ones that were.
* Every decay run applies the whole idle time again; feedback is not "fail-open"
  (`services/feedback.py:118`): an insert of a memory that fails takes the
  feedback with it.
* `positive_rate` may exceed 1, since it is counted in two statements; creating a
  dataset answers "ready" for an empty draft; `min_rating` is ignored unless it
  is thumbs up.
* The creator of a shared space is protected from being removed as its last
  owner, any other last owner may leave. The routes (`api/router.py:50`) construct a
  `SharedSpaceService` for each request, and a service keeps its spaces in memory:
  whoever creates a space finds it gone with the next request.

*Users, limits, reports*

* A login by SAML (`api/sso.py:361`) writes the role of the assertion's groups, "viewer"
  if there are none, over the user's: it may take the last administrator's role, and it
  does not look at `is_active`. The token it issues has `users.id` as its subject,
  which `auth/dependencies.py` and `websocket/auth.py:134` look up as an
  `external_id`: they provision another user, a viewer, also for one who was
  deactivated. An erasure deactivates a user without asking for another administrator
  (`compliance/gdpr.py:519`); no route performs one.
* A key that is revoked or expired can be rotated; invitations are never
  reconciled with the login, although `api/tenant_admin.py` says so;
  `max_users` is not enforced.
* The first two requests of a tenant, GETs too, create its settings row twice, and
  one of them fails (`services/tenant_admin.py:259`). A quota PATCH clears the
  fields it does not name; a budget of 0 means the default.
* The handler for a failing Redis also catches the 429 of a working one
  (`infra/redis_rate_limiter.py:202`): what the shared window refuses each instance
  lets through again, up to twice its own limit. Requests at one `time.time()` are one
  member of the sorted set and are counted once.
* `core/rate_limit.py:7-9` says that its fixed windows avoid the burst at the boundary;
  they do not: the end of one window and the beginning of the next let twice the limit
  through within a minute, which is the bound of `RequestsAreLimited`.
* Setting a cached key in a full connector cache evicts another
  (`connectors/cache.py:163`).
* Metric flushes share one session (`services/metrics.py:95`);
  `generate_daily_summary` has no caller; a summary counts errors in a later
  statement than calls.
* Compliance: an error in a check aborts the transaction, so the run is lost
  (`compliance/monitor.py:181`); `evidence.py:197` counts the same entries as
  failed and as successful logins; the monitor and the dashboard look for the
  classification in different places; coverage may exceed 100 %.
* GDPR requests stay pending for ever; no route calls `process_*`; the audit
  entries of the request quote the address; agent memories and goals are not
  erased. An erasure rewrites the summaries of audit entries
  (`compliance/gdpr.py:506-512`), which `models/audit.py:4` never allows;
  `ErasureReachesAll` is about what the erasure does. An export has all documents of
  the tenant, and of the audit log the 1000 latest entries (`:353`).
* When a turn in a new conversation commits between the two statements of an erasure for
  conversations and for their messages (`compliance/gdpr.py:449`, `:465`), both stay as
  they are, although the erasure has still to read memories and audit entries and
  redacts those of the same turn; in a conversation that was there its messages
  are found (`PassesBy`).
* A finding about classification is concluded from counts that an awaited statement
  follows (`compliance/monitor.py:257`, `compliance/evidence.py:282`): a document that
  is labelled anew in between makes it wrong. `FindingsAreJustified` excepts that.
* A metric is lost when a commit fails or is cut off, and when a flush meets the commit
  of another one on their shared session (`mishap`).

*Documents, plugins, channels*

* Versions are sorted as text (`rag/versioning.py:360`): the clean-up keeps 9.9
  and deletes 10.0, hence the premise of `HighestStays`. A version made while
  another is processed marks that one ready (`:122`); a third cannot be made once
  two are ready (`:118`).
* `POST /documents/upload` of `api/documents.py` is shadowed by that of
  `api/ingestion.py` (`api/router.py:44-45`). The task of the pool ingests a `Document`
  that is there, and nothing stores one for it; it writes no audit entry. When the
  pipeline fails, the shadowed route commits the chunks stored so far under a failed
  document, which no query retrieves. `core/audit.py:7-11` says that a failed audit
  write does not roll back the operation; but the flush of the entry is one of the
  request's own transaction, and when it fails the error is swallowed and the commit
  refused: the upload is lost with its entry (`FlushFails`, `RefuseCommit`).
* A stored fine-tuning job (`scale/fine_tuning.py:725`, `:918-919`) is said to persist
  its transitions, and to poll for a cancellation (`:936`). It writes them into the
  object of a session whose request is over, so the row keeps what the request
  committed, a restart finds it there, and a cancellation of the row is not seen by
  the training. `TrainingIsHonest` says what is left: the cancelled row stays cancelled.
* Plugin directories of the same name share one entry of the watcher; a reload
  that fails leaves the old plugin loaded while its module is evicted; the modules of a
  directory whose name only begins alike are evicted with it
  (`plugins/hot_reload.py:346`).
* An emitter waits for ever in a full queue after its client is gone
  (`infra/streaming.py`); a notification is reported as sent when it is only
  scheduled, and posted to the one webhook once for each approver, with the same text
  (`operations/notification.py:157-166`); nobody calls the service's `send_*`, the
  escalation uses its `_send_*`; `api/chat.py:257` gives the stream strings where it wants events.

## 7. Not modelled, and why

Pure input and output (requests to SAP and MES, mail, the tenant data copy),
measurements (latency, replication lag), computations over text (retrieval,
ranking, parsing, PII detection, export control), registries that are filled at
import and only read (skills), tokens and assertions of single sign-on, health
checks and telemetry, and code that nothing constructs (`scale/replication.py`,
`agent/composition/agent_memory.py`). `get_*` methods only read, and are there
only where a report reads in several statements. Restarting a component in memory
is its initial state. Partly modelled: the escalation service without the
notification of the next role; the region router without the choice of a region;
replication without lag; users without the verification of tokens; chat without
the streaming route; the orchestrator without its prompts.

## 8. Plan

Written so far, in this order: the write framework with its abstract life cycle
and its proofs, escalation, the persistent executor, the worker pool, failover,
the edge; chat turns, budgets, approvals, routing; webhooks, plans, access, rate
limits and caches; documents, fine-tuning, erasure, memories, compliance;
deliberation and reasoning; conversations, goals, feedback, spaces, usage,
quotas, channels, plugins and versions. Then the proofs of section 4: first of the
write framework, the persistent executor, the pool and failover; then of chat turns
and the services; last of the platform services, one component after the other.

Models to come: the streaming route of a chat turn, and turns that edit a
conversation while it is patched, which would compose `ChatTurns`,
`Conversations` and `Goals` over one set of sessions.
