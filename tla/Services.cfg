SPECIFICATION FairServicesSpec
CONSTANTS
  Workers = {w1, w2}
  DailyLimit = 2
  MonthlyLimit = 3
  DaysPerMonth = 2
  LastDay = 2
  Approvals = {a1}
  Waiters = {v1, v2}
  ApprovalTenants = {ta, tb}
  LongestWait = 2
  ClearAfter = 1
  LastTick = 5
  NoApproval = NoApproval
  Nobody = Nobody
  gen = gen
  doc = doc
  maint = maint
  Agents = {gen, doc, maint}
  Capabilities = {"summary", "work_order", "general"}
  Provides <- MCProvides
  RequiredLevel <- MCRequiredLevel
  DefaultAgent = gen
  NoAgent = NoAgent
  GateAttempts = 2
  Entries = {e1, e2}
  Pushers = {p1, p2}
  MaxRetry = 2
  BatchSize = 2
  MaxInterruptions = 0
  Tasks = {t1, t2}
  Slots = {u1, u2, u3}
  MaxWorkers = 2
  MaxRetries = 2
  NoTask = NoTask
CHECK_DEADLOCK FALSE
INVARIANTS
  BudgetIsSound
  ApprovalsAreConsistent
  RoutingIsCompliant
  WorkIsAccountedFor
  DeadLettersAreTheFailed
PROPERTIES
  EveryWaitEnds
  DrainInterruptsNothing
