----------------------------- MODULE TenantUsage -----------------------------
(***************************************************************************)
(* What tenants use and may use: the metrics that are collected, and the   *)
(* quotas and the reports next to them.                                    *)
(***************************************************************************)
EXTENDS Integers, Sequences, FiniteSets, SequencesExt

(***************************************************************************)
(* The collector of usage metrics, one for the process: a buffer that      *)
(* several tasks flush over one database session; the reports that count   *)
(* what is stored; and the decisions of the model router, remembered in    *)
(* memory and in the database.                                             *)
(***************************************************************************)

CONSTANTS
  Flushers,        \* tasks that flush; Periodic and Final are two of them
  Periodic, Final, NoFlusher,
  BufferLimit,     \* _buffer_size_limit: 100
  MaxMetrics,      \* bound on the metrics that are recorded
  Summarizers,     \* sessions that generate the summary of the day
  MaxDecisions     \* bound on the routing decisions

ASSUME UsageAssumption ==
  /\ {Periodic, Final} \subseteq Flushers /\ Periodic # Final /\ NoFlusher \notin Flushers
  /\ BufferLimit \in Nat \ {0} /\ MaxMetrics \in Nat /\ MaxDecisions \in Nat

VARIABLES
  metric_buffer,   \* metrics not yet taken by a flush
  flusher,         \* what each task is at, and the metrics it has taken
  shared,          \* the session: what it has still to insert, and who commits
  usage_rows,      \* the committed metrics
  discarded,       \* metrics that a rollback, or the end of a task, has dropped
  collecting,      \* "serving", "stopping" (the final flush) or "stopped"
  mishap,          \* history: a commit has failed or was cut off, or two flushes have met
  summary,         \* the report under way
  daily,           \* sessions that have flushed the summary of the day, or committed it
  decisions        \* routing decisions: in memory, and in the database

collectorVars == <<metric_buffer, flusher, shared, usage_rows, discarded, collecting, mishap>>
usageVars ==
  <<metric_buffer, flusher, shared, usage_rows, discarded, collecting, mishap, summary, daily, decisions>>

Resting == [at |-> "resting", batch |-> {}]
NoSummary == [counts |-> << >>, before |-> {}]

UsageInit ==
  /\ metric_buffer = << >>
  /\ flusher = [f \in Flushers |-> Resting]
  /\ shared = [adding |-> {}, busy |-> NoFlusher]
  /\ usage_rows = {} /\ discarded = {}
  /\ collecting = "serving" /\ mishap = FALSE
  /\ summary = NoSummary
  /\ daily = [s \in Summarizers |-> "idle"]
  /\ decisions = [memory |-> << >>, rows |-> << >>]

Kinds == {"call", "failed call", "tokens"}
Taken == UNION {flusher[f].batch : f \in Flushers}
Recorded == Range(metric_buffer) \cup Taken \cup shared.adding \cup usage_rows \cup discarded

Flusher(f, at, batch) == flusher' = [flusher EXCEPT ![f] = [at |-> at, batch |-> batch]]
KeepReports == UNCHANGED <<summary, daily, decisions>>

(* A full buffer is flushed by a task of its own, which nobody awaits; as  *)
(* many as there are Flushers.                                             *)
RecordMetric ==
  /\ collecting = "serving" /\ Cardinality(Recorded) < MaxMetrics
  /\ decisions = [memory |-> << >>, rows |-> << >>] /\ \A s \in Summarizers : daily[s] = "idle"
  /\ \E kind \in Kinds :
       metric_buffer' = Append(metric_buffer, [kind |-> kind, id |-> Cardinality(Recorded)])
  /\ IF Len(metric_buffer') >= BufferLimit
       THEN \E f \in Flushers \ {Periodic, Final} :
              flusher[f] = Resting /\ Flusher(f, "flushing", {})
       ELSE UNCHANGED flusher
  /\ UNCHANGED <<shared, usage_rows, discarded, collecting, mishap>> /\ KeepReports

PeriodicFlush ==
  /\ collecting = "serving" /\ flusher[Periodic] = Resting
  /\ Flusher(Periodic, "flushing", {})
  /\ UNCHANGED <<metric_buffer, shared, usage_rows, discarded, collecting, mishap>> /\ KeepReports

(* Under the lock the task takes the buffer.  Then it adds its metrics to  *)
(* the session, which all of the tasks share, and commits; if another one  *)
(* is committing the session refuses that and the rollback, and the        *)
(* metrics remain added.                                                   *)
FlushBuffer(f) ==
  /\ flusher[f].at = "flushing"
  /\ metric_buffer' = << >>
  /\ shared' = [adding |-> shared.adding \cup Range(metric_buffer),
                busy |-> IF shared.busy = NoFlusher /\ metric_buffer # << >> THEN f ELSE shared.busy]
  /\ IF shared'.busy = f THEN Flusher(f, "committing", Range(metric_buffer)) ELSE Flusher(f, "resting", {})
  /\ mishap' = (mishap \/ (shared.busy # NoFlusher /\ metric_buffer # << >>))
  /\ UNCHANGED <<usage_rows, discarded, collecting>> /\ KeepReports

(* What was added while the commit was under way may be part of it.        *)
CommitBuffer(f) ==
  /\ shared.busy = f /\ flusher[f].at = "committing"
  /\ \E late \in SUBSET (shared.adding \ flusher[f].batch) :
       /\ usage_rows' = usage_rows \cup flusher[f].batch \cup late
       /\ shared' = [adding |-> shared.adding \ (flusher[f].batch \cup late), busy |-> NoFlusher]
  /\ Flusher(f, "resting", {})
  /\ UNCHANGED <<metric_buffer, discarded, collecting, mishap>> /\ KeepReports

(* The rollback drops whatever the session was to insert.                  *)
CommitBufferFails(f) ==
  /\ shared.busy = f /\ flusher[f].at = "committing"
  /\ discarded' = discarded \cup shared.adding
  /\ shared' = [adding |-> {}, busy |-> NoFlusher]
  /\ Flusher(f, "resting", {})
  /\ mishap' = TRUE
  /\ UNCHANGED <<metric_buffer, usage_rows, collecting>> /\ KeepReports

(* shutdown() cancels the periodic task, in its commit too, whose metrics  *)
(* are stored or not, and flushes for the last time.                       *)
StopCollector ==
  /\ collecting = "serving"
  /\ collecting' = "stopping"
  /\ flusher' = [flusher EXCEPT ![Periodic] = Resting, ![Final].at = "flushing"]
  /\ IF shared.busy = Periodic
       THEN /\ shared' = [adding |-> {}, busy |-> NoFlusher]
            /\ \/ usage_rows' = usage_rows \cup flusher[Periodic].batch
                  /\ discarded' = discarded \cup (shared.adding \ flusher[Periodic].batch)
               \/ discarded' = discarded \cup shared.adding /\ UNCHANGED usage_rows
       ELSE UNCHANGED <<shared, usage_rows, discarded>>
  /\ mishap' = (mishap \/ shared.busy = Periodic)
  /\ UNCHANGED metric_buffer /\ KeepReports

(* The process ends; nobody waits for the tasks that a full buffer began.  *)
EndCollector ==
  /\ collecting = "stopping" /\ flusher[Final] = Resting
  /\ collecting' = "stopped"
  /\ flusher' = [f \in Flushers |-> Resting]
  /\ discarded' = discarded \cup shared.adding
  /\ shared' = [adding |-> {}, busy |-> NoFlusher]
  /\ mishap' = (mishap \/ shared.busy # NoFlusher)
  /\ UNCHANGED <<metric_buffer, usage_rows>> /\ KeepReports
-----------------------------------------------------------------------------
(* The statements of a summary, each of which counts the rows that are     *)
(* committed when it runs.                                                 *)
Statements == <<{"call", "failed call"}, {"tokens"}, {"failed call"}, {"tokens"}>>
CountOf(kinds, rows) == Cardinality({row \in rows : row.kind \in kinds})

GetUsageSummary ==
  /\ Len(summary.counts) < Len(Statements)
  /\ summary' = [counts |-> Append(summary.counts, CountOf(Statements[Len(summary.counts) + 1], usage_rows)),
                 before |-> IF summary.counts = << >> THEN usage_rows ELSE summary.before]
  /\ UNCHANGED <<collectorVars, daily, decisions>>

(* A single statement: calls that failed, of all calls.                    *)
ErrorRate(rows) ==
  IF CountOf({"call", "failed call"}, rows) = 0 THEN 0
  ELSE (100 * CountOf({"failed call"}, rows)) \div CountOf({"call", "failed call"}, rows)

(* The summary of a day is unique: an insert waits for one that is flushed *)
(* and fails if that is committed.  Like the decisions below it shares     *)
(* nothing with the flushes and is not interleaved with them.              *)
GenerateDailySummary(s) ==
  /\ Recorded = {} /\ collecting = "serving"
  /\ daily[s] = "idle" /\ Len(summary.counts) = Len(Statements)
  /\ \A o \in Summarizers : daily[o] # "flushed"
  /\ daily' = [daily EXCEPT ![s] = IF \E o \in Summarizers : daily[o] = "stored" THEN "refused" ELSE "flushed"]
  /\ UNCHANGED <<collectorVars, summary, decisions>>

CommitDailySummary(s) ==
  /\ daily[s] = "flushed"
  /\ \E end \in {"stored", "idle"} : daily' = [daily EXCEPT ![s] = end]
  /\ UNCHANGED <<collectorVars, summary, decisions>>
-----------------------------------------------------------------------------
Tiers == <<"light", "standard", "heavy">>
Weight(tier) == CASE tier = "light" -> 1 [] tier = "standard" -> 3 [] tier = "heavy" -> 10

(* The sum of a sequence of numbers. *)
Total(costs) ==
  LET sum[n \in 0 .. Len(costs)] == IF n = 0 THEN 0 ELSE sum[n - 1] + costs[n] IN sum[Len(costs)]

(* The decisions of the period, by their places in the sequence. *)
Recent(ds) == {i \in DOMAIN ds : ds[i].recent}
OfTier(tier, ds) == {i \in Recent(ds) : ds[i].tier = tier}

(* What the decisions have cost, against the heavy tier for all of them;   *)
(* other tiers are left out.                                               *)
Known(ds) == {i \in Recent(ds) : ds[i].tier \in Range(Tiers)}
TokensOf(chosen, ds) == [i \in DOMAIN ds |-> IF i \in chosen THEN ds[i].tokens ELSE 0]
CostOf(chosen, ds) == [i \in DOMAIN ds |-> IF i \in chosen THEN ds[i].tokens * Weight(ds[i].tier) ELSE 0]
HeavyCost(ds) == 10 * Total(TokensOf(Known(ds), ds))
ActualCost(ds) == Total(CostOf(Known(ds), ds))
SavingsEstimate(ds) ==
  [tokens_saved |-> (HeavyCost(ds) - ActualCost(ds)) \div 10,
   cost_reduction_pct |-> IF HeavyCost(ds) = 0 THEN 0
                          ELSE (100 * (HeavyCost(ds) - ActualCost(ds))) \div HeavyCost(ds)]

TierDistribution(ds) == [i \in 1 .. 3 |-> Cardinality(OfTier(Tiers[i], ds))]

(* The average of what was rated, and 0 if nothing was.                    *)
Rated(tier, ds) == {i \in OfTier(tier, ds) : ds[i].quality # "unrated"}
Good(tier, ds) == {i \in OfTier(tier, ds) : ds[i].quality = "good"}
QualityOf(tier, ds) ==
  IF Rated(tier, ds) = {} THEN 0 ELSE (100 * Cardinality(Good(tier, ds))) \div Cardinality(Rated(tier, ds))

(* A decision is remembered in one place or in the other.                  *)
RecordDecision(place) ==
  /\ Recorded = {} /\ collecting = "serving" /\ summary = NoSummary
  /\ Len(decisions[place]) < MaxDecisions
  /\ \E tier \in Range(Tiers) \cup {"other"}, quality \in {"unrated", "good", "bad"}, tokens \in {0, 7} :
       decisions' = [decisions EXCEPT ![place] =
                       Append(@, [tier |-> tier, quality |-> quality, tokens |-> tokens, recent |-> TRUE])]
  /\ UNCHANGED <<collectorVars, summary, daily>>

(* The period that is reported on moves on. *)
DecisionsAge ==
  /\ decisions.memory # << >> /\ Head(decisions.memory).recent
  /\ decisions' = [decisions EXCEPT !.memory = [i \in DOMAIN @ |-> [@[i] EXCEPT !.recent = FALSE]],
                                    !.rows = [i \in DOMAIN @ |-> [@[i] EXCEPT !.recent = FALSE]]]
  /\ UNCHANGED <<collectorVars, summary, daily>>

ClearHistory ==
  /\ decisions.memory # << >>
  /\ decisions' = [decisions EXCEPT !.memory = << >>]
  /\ UNCHANGED <<collectorVars, summary, daily>>

UsageNext ==
  \/ RecordMetric \/ PeriodicFlush
  \/ \E f \in Flushers : FlushBuffer(f) \/ CommitBuffer(f) \/ CommitBufferFails(f)
  \/ StopCollector \/ EndCollector
  \/ GetUsageSummary
  \/ \E s \in Summarizers : GenerateDailySummary(s) \/ CommitDailySummary(s)
  \/ \E place \in {"memory", "rows"} : RecordDecision(place)
  \/ DecisionsAge \/ ClearHistory

UsageSpec == UsageInit /\ [][UsageNext]_usageVars

-----------------------------------------------------------------------------
(* However the flushes overlap on their session, a metric is in one place, *)
(* so it is never stored twice; a metric that was recorded before the      *)
(* shutdown is not left in a buffer; and none is lost, unless a commit has *)
(* failed or was cut off, or a flush has met another one's commit.         *)
MetricsAreKeptOnce ==
  /\ \A row \in usage_rows : row \notin discarded \cup shared.adding \cup Range(metric_buffer)
  /\ discarded \cap (shared.adding \cup Range(metric_buffer)) = {}
  /\ \A f \in Flushers : flusher[f].batch \subseteq shared.adding
  /\ Cardinality({row.id : row \in Recorded}) = Cardinality(Recorded)
  /\ collecting = "stopped" => Recorded = usage_rows \cup discarded
  /\ discarded # {} => mishap

(* A summary counts no less than was stored when it began and no more than *)
(* is stored at its end; with nothing stored meanwhile its figures agree.  *)
(* A rate of one statement is one.                                         *)
FiguresAgree ==
  /\ \A i \in DOMAIN summary.counts :
       summary.counts[i] \in CountOf(Statements[i], summary.before) .. CountOf(Statements[i], usage_rows)
  /\ Len(summary.counts) = Len(Statements) /\ summary.before = usage_rows =>
       summary.counts[3] <= summary.counts[1] /\ summary.counts[4] = summary.counts[2]
  /\ ErrorRate(usage_rows) \in 0 .. 100
  /\ Cardinality({s \in Summarizers : daily[s] \in {"flushed", "stored"}}) <= 1

(* No more is saved than the lightest tier saves of the heaviest, nothing  *)
(* is counted twice, and an average is one.                                *)
SavingsAreBounded ==
  \A place \in {"memory", "rows"} :
    LET ds == decisions[place]
        saved == SavingsEstimate(ds)
    IN /\ saved.cost_reduction_pct \in 0 .. 90
       /\ saved.tokens_saved \in 0 .. Total(TokensOf(Recent(ds), ds))
       /\ Total(TierDistribution(ds)) <= Cardinality(Recent(ds))
       /\ \A tier \in Range(Tiers) : QualityOf(tier, ds) \in 0 .. 100

UsageIsSound == MetricsAreKeptOnce /\ FiguresAgree /\ SavingsAreBounded

-----------------------------------------------------------------------------
(***************************************************************************)
(* The settings and quotas of a tenant, and the reports that are counted   *)
(* statement by statement while users and calls keep coming.  Requests are *)
(* READ COMMITTED transactions, and whoever asks first creates the row.    *)
(***************************************************************************)

CONSTANTS
  Admins,          \* sessions of the tenant's administrators
  NoSettings,
  Null,            \* in a column that has no value
  DefaultBudget,   \* the platform's daily budget
  LastDay,         \* bound on the days
  FirstOfMonth,    \* of each day, the one on which its month began
  MaxTenantRequests, MaxCalls   \* bounds

Fields == {"max_users", "token_budget", "branding"}

ASSUME QuotaAssumption ==
  /\ DefaultBudget \in Nat \ {0} /\ LastDay \in Nat \ {0}
  /\ FirstOfMonth \in [1 .. LastDay -> 1 .. LastDay]
  /\ \A d \in 1 .. LastDay : FirstOfMonth[d] <= d
  /\ MaxTenantRequests \in Nat /\ MaxCalls \in Nat
  /\ Null \notin Int /\ NoSettings \notin [Fields -> Int \cup {Null}]

VARIABLES
  settings_row,   \* the committed row of tenant_settings
  tenant_request,        \* what each session has asked, seen, changed and counted
  settings_lock,       \* the session that has written the row, or the key of an insert
  requests_made,  \* requests so far
  people,         \* users of the tenant, and how many are active
  metrics,        \* the calls recorded: the day of each, and whether it failed
  day,            \* what the clocks say
  latest,         \* history: of each field, the last value somebody has committed
  reply           \* history: the last answer, until the next request

quotaVars == <<settings_row, tenant_request, settings_lock, requests_made, people, metrics, day, latest, reply>>

Defaults == [f \in Fields |-> Null]

NoFigures == [f \in {"users", "active", "today", "month", "calls", "errors"} |-> 0]

(* A request: the fields that it sets, with their values; the row it has   *)
(* seen; the day that it counts from or to; the figures of its first n     *)
(* statements; and whether other commits came between.                     *)
Requesting(op, pc, asked, values, seen, today, n, figures, overtaken) ==
  [op |-> op, pc |-> pc, asked |-> asked, values |-> values, seen |-> seen, day |-> today,
   counted |-> n, figures |-> figures, overtaken |-> overtaken]

Replying(op, figures, settings, budget, remaining, users_remaining, overtaken) ==
  [op |-> op, figures |-> figures, settings |-> settings, budget |-> budget, remaining |-> remaining,
   users_remaining |-> users_remaining, overtaken |-> overtaken]

NoRequest == Requesting("none", "idle", {}, Defaults, NoSettings, 1, 0, NoFigures, FALSE)
NoReply == Replying("none", NoFigures, Defaults, DefaultBudget, DefaultBudget, Null, FALSE)

QuotasInit ==
  /\ settings_row = NoSettings
  /\ tenant_request = [s \in Admins |-> NoRequest]
  /\ settings_lock = {}
  /\ requests_made = 0
  /\ people = [all |-> 1, active |-> 1]
  /\ metrics = {}
  /\ day = 1
  /\ latest = Defaults
  /\ reply = NoReply

QuotaOps == {"quota", "new quota"}

(* What a report counts, in the order of its statements.                   *)
TenantStatements(op) ==
  CASE op = "details" -> <<"users", "active", "today", "month">>
    [] op = "usage" -> <<"calls", "errors">>
    [] op \in QuotaOps -> <<"users", "today", "month">>
    [] OTHER -> << >>

AsksTenant(s, op, asked, values) ==
  /\ tenant_request[s] = NoRequest /\ requests_made < MaxTenantRequests
  /\ \A o \in Admins : tenant_request[o].op \notin {"details", "usage"}
  /\ requests_made' = requests_made + 1
  /\ tenant_request' = [tenant_request EXCEPT ![s] =
       Requesting(op, IF op \in {"details", "usage"} THEN "counting" ELSE "asked",
              asked, values, NoSettings, day, 0, NoFigures, FALSE)]
  /\ reply' = NoReply
  /\ UNCHANGED <<settings_row, settings_lock, people, metrics, day, latest>>

(* A report changes nothing, so one at a time shows all there is to see.   *)
ReportsOnly(s, op) ==
  (\A o \in Admins : tenant_request[o] = NoRequest) /\ AsksTenant(s, op, {}, Defaults)

GetTenant(s) == ReportsOnly(s, "details")
GetTenantUsage(s) == ReportsOnly(s, "usage")
GetTenantSettings(s) == AsksTenant(s, "settings", {}, Defaults)
GetTenantQuota(s) == AsksTenant(s, "quota", {}, Defaults)

(* The row may have been created before all this, by some such request.    *)
EarlierRequest ==
  /\ settings_row = NoSettings /\ requests_made = 0
  /\ settings_row' = Defaults
  /\ UNCHANGED <<tenant_request, settings_lock, requests_made, people, metrics, day, latest, reply>>

(* A PATCH of settings has the fields of its body, and takes any number,   *)
(* be it 0 or less.                                                        *)
UpdateTenantSettings(s) ==
  \/ \E budget \in {-1, 0, 1} : AsksTenant(s, "new settings", {"token_budget"}, [f \in Fields |-> budget])
  \/ AsksTenant(s, "new settings", {"branding"}, [f \in Fields |-> 1])

(* A PATCH of the quota sets all its fields, and only positive ones.       *)
UpdateTenantQuota(s) ==
  \E limit \in {Null, 1} : AsksTenant(s, "new quota", {"max_users", "token_budget"}, [f \in Fields |-> limit])

(* The session goes on, with the row it has seen. *)
Proceeds(s, pc, seen) ==
  LET q == tenant_request[s] IN
  tenant_request' = [tenant_request EXCEPT ![s] =
    Requesting(q.op, pc, q.asked, q.values, seen, q.day, q.counted, q.figures, q.overtaken)]

(* _get_or_create_settings(), first the query.                             *)
GetSettings(s) ==
  /\ tenant_request[s].pc = "asked"
  /\ Proceeds(s, IF settings_row = NoSettings THEN "absent" ELSE "found", settings_row)
  /\ UNCHANGED <<settings_row, settings_lock, requests_made, people, metrics, day, latest, reply>>

(* The insert waits for another one of the same tenant, and breaks the     *)
(* unique constraint if that has been committed.                           *)
CreateSettings(s) ==
  /\ tenant_request[s].pc = "absent" /\ settings_lock = {}
  /\ IF settings_row = NoSettings
     THEN settings_lock' = {s} /\ Proceeds(s, "created", NoSettings)
     ELSE tenant_request' = [tenant_request EXCEPT ![s] = NoRequest] /\ UNCHANGED settings_lock
  /\ UNCHANGED <<settings_row, requests_made, people, metrics, day, latest, reply>>

(* Some fields have new values, and the others those of old.               *)
Overlay(values, written, old) == [f \in Fields |-> IF f \in written THEN values[f] ELSE old[f]]

(* What the session has in its hands, with its own changes.                *)
Settings(q) == Overlay(q.values, q.asked, IF q.seen = NoSettings THEN Defaults ELSE q.seen)

(* The flush of the audit entry writes the fields that have changed, and   *)
(* always updated_at.                                                      *)
UpdateSettings(s) ==
  /\ tenant_request[s].pc \in {"found", "created"}
  /\ IF tenant_request[s].op \in {"new settings", "new quota"}
     THEN settings_lock \subseteq {s} /\ settings_lock' = {s}
     ELSE UNCHANGED settings_lock
  /\ Proceeds(s, "counting", tenant_request[s].seen)
  /\ UNCHANGED <<settings_row, requests_made, people, metrics, day, latest, reply>>

Since(first, calls) == {c \in calls : c.day >= first}
Until(last, calls) == {c \in calls : c.day <= last}
FailedCalls(calls) == {c \in calls : c.failed}

(* What a statement finds that is committed now, from the day or its month *)
(* on, or up to the day.                                                   *)
Number(statement, today) ==
  CASE statement = "users" -> people.all
    [] statement = "active" -> people.active
    [] statement = "today" -> Cardinality(Since(today, metrics))
    [] statement = "month" -> Cardinality(Since(FirstOfMonth[today], metrics))
    [] statement = "calls" -> Cardinality(Until(today, metrics))
    [] statement = "errors" -> Cardinality(FailedCalls(Until(today, metrics)))

(* The clock is looked at before what is used today is counted; a report   *)
(* of usage goes to the day on which it was asked for.                     *)
CountNext(s) ==
  LET q == tenant_request[s]
      statement == TenantStatements(q.op)[q.counted + 1]
      today == IF statement = "today" THEN day ELSE q.day
  IN /\ q.pc = "counting" /\ q.counted < Len(TenantStatements(q.op))
     /\ tenant_request' = [tenant_request EXCEPT ![s] =
          Requesting(q.op, q.pc, q.asked, q.values, q.seen, today, q.counted + 1,
                 [q.figures EXCEPT ![statement] = Number(statement, today)], q.overtaken)]
     /\ UNCHANGED <<settings_row, settings_lock, requests_made, people, metrics, day, latest, reply>>

(* A budget of 0 counts as none: the default applies.                      *)
EffectiveBudget(settings) ==
  IF settings["token_budget"] \in {Null, 0} THEN DefaultBudget ELSE settings["token_budget"]

LeftOf(limit, used) == IF used < limit THEN limit - used ELSE 0

TenantAnswer(q) ==
  LET settings == Settings(q) IN
  Replying(q.op, q.figures, settings, EffectiveBudget(settings),
           LeftOf(EffectiveBudget(settings), q.figures["today"]),
           IF settings["max_users"] = Null THEN Null ELSE LeftOf(settings["max_users"], q.figures["users"]),
           q.overtaken)

(* The fields that the transaction writes: all of a new row, and of an old *)
(* one those that differ from what the session has seen.                   *)
Wrote(q) == IF q.seen = NoSettings THEN Fields ELSE {f \in q.asked : q.values[f] # q.seen[f]}

Overtaken(q) ==
  IF q = NoRequest THEN NoRequest
  ELSE Requesting(q.op, q.pc, q.asked, q.values, q.seen, q.day, q.counted, q.figures, TRUE)

CommitRequest(s) ==
  LET q == tenant_request[s] IN
  /\ q.pc = "counting" /\ q.counted = Len(TenantStatements(q.op))
  /\ IF s \in settings_lock
     THEN /\ settings_row' = Overlay(Settings(q), Wrote(q), settings_row)
          /\ latest' = Overlay(q.values, q.asked \cap Wrote(q), latest)
          /\ tenant_request' = [o \in Admins |-> IF o = s THEN NoRequest ELSE Overtaken(tenant_request[o])]
     ELSE /\ tenant_request' = [tenant_request EXCEPT ![s] = NoRequest]
          /\ UNCHANGED <<settings_row, latest>>
  /\ settings_lock' = settings_lock \ {s}
  /\ reply' = TenantAnswer(q)
  /\ UNCHANGED <<requests_made, people, metrics, day>>

(* A statement fails, or the client is gone. *)
RollbackRequest(s) ==
  /\ tenant_request[s] # NoRequest
  /\ tenant_request' = [tenant_request EXCEPT ![s] = NoRequest]
  /\ settings_lock' = settings_lock \ {s}
  /\ UNCHANGED <<settings_row, requests_made, people, metrics, day, latest, reply>>
-----------------------------------------------------------------------------
(* What other transactions commit: an invitation, its user's first login,  *)
(* a metric, and the clock.  Only who counts it can tell when it comes.    *)
Tallied(statement) ==
  \E s \in Admins : LET statements == TenantStatements(tenant_request[s].op) IN
    tenant_request[s].pc = "counting" /\ \E i \in DOMAIN statements : statements[i] = statement

PeopleChange ==
  /\ \/ Tallied("users") /\ people.all < 2 /\ people' = [all |-> people.all + 1, active |-> people.active]
     \/ Tallied("active") /\ people.active < people.all
        /\ people' = [all |-> people.all, active |-> people.active + 1]
  /\ tenant_request' = [o \in Admins |-> Overtaken(tenant_request[o])]
  /\ UNCHANGED <<settings_row, settings_lock, requests_made, metrics, day, latest, reply>>

CallRecorded ==
  /\ Cardinality(metrics) < MaxCalls
  /\ \E failed \in {f \in BOOLEAN : Tallied(IF f THEN "errors" ELSE "today")} :
       metrics' = metrics \cup {[id |-> Cardinality(metrics), day |-> day, failed |-> failed]}
  /\ tenant_request' = [o \in Admins |-> Overtaken(tenant_request[o])]
  /\ UNCHANGED <<settings_row, settings_lock, requests_made, people, day, latest, reply>>

Midnight ==
  /\ Tallied("today") /\ day < LastDay
  /\ day' = day + 1
  /\ UNCHANGED <<settings_row, tenant_request, settings_lock, requests_made, people, metrics, latest, reply>>

QuotasNext ==
  \/ \E s \in Admins :
       \/ GetTenant(s) \/ GetTenantUsage(s) \/ GetTenantSettings(s) \/ GetTenantQuota(s)
       \/ UpdateTenantSettings(s) \/ UpdateTenantQuota(s)
       \/ GetSettings(s) \/ CreateSettings(s) \/ UpdateSettings(s) \/ CountNext(s)
       \/ CommitRequest(s) \/ RollbackRequest(s)
  \/ EarlierRequest \/ PeopleChange \/ CallRecorded \/ Midnight

QuotasSpec == QuotasInit /\ [][QuotasNext]_quotaVars

-----------------------------------------------------------------------------
(* However requests overlap, nobody undoes the field that another has set: *)
(* the row has of each field what was last committed for it.               *)
SettingsAreLatest == IF settings_row = NoSettings THEN latest = Defaults ELSE settings_row = latest

(* A report may count things that come while it is made: of its numbers    *)
(* only the month is never less than the day, and if nothing came between, *)
(* the parts are no more than the whole.                                   *)
ReportsAreConsistent ==
  /\ reply.op \in {"details"} \cup QuotaOps => reply.figures["today"] <= reply.figures["month"]
  /\ reply.op = "details" /\ ~reply.overtaken => reply.figures["active"] <= reply.figures["users"]
  /\ reply.op = "usage" /\ ~reply.overtaken => reply.figures["errors"] <= reply.figures["calls"]

(* A tenant has always some budget, which 0 does not take away; and what   *)
(* is left of a budget or a limit is exactly what is not used, if any is.  *)
QuotasAddUp ==
  reply.op \in QuotaOps =>
    /\ reply.budget # 0
    /\ reply.remaining + reply.figures["today"] >= reply.budget
    /\ reply.remaining # 0 => reply.remaining + reply.figures["today"] = reply.budget
    /\ reply.settings["max_users"] # Null =>
         reply.users_remaining + reply.figures["users"] >= reply.settings["max_users"]

QuotasAreSound == SettingsAreLatest /\ ReportsAreConsistent /\ QuotasAddUp
=============================================================================
