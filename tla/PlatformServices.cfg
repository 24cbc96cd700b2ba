SPECIFICATION PlatformSpec
CONSTANTS
  Deliveries = {1, 2}
  Deliverers = {s1, s2}
  NoDelivery = NoDelivery
  MaxAttempts = 2
  MaxPosts = 3
  TaskIds = {"a", "b", "c", "other"}
  Proposals <- MCProposals
  PlanReviewers = {u1, u2}
  People = {pa, pb}
  FirstAdmins = {pa}
  ApiKeys = {k1, k2}
  AssignableRoles = {"admin", "viewer"}
  AccessSessions = {c1, c2}
  NoRole = NoRole
  MaxChanges = 2
  Instances = {i1, i2}
  PerMinute = 1
  Burst = 1
  TicksPerSecond = 2
  WindowSeconds = 1
  LastInstant = 3
  MaxTwins = 1
  CacheKeys = {x1, x2, x3, x4}
  MaxEntries = 3
  TtlTicks = 1
  Questions = {q1}
  Askers = {r1, r2}
  NoResponse = NoResponse
  MaxKnowledge = 2
  Entries = {e1, e2}
  Pushers = {p1, p2}
  MaxRetry = 2
  BatchSize = 2
  MaxInterruptions = 1
  Updates = {n1, n2}
  Pullers = {l1, l2}
  LastPull = 5
  Uploads = {d1, d2}
  MaxBatches = 2
  Jobs = {j1, j2}
  LastStep = 2
  Turns = {t1, t2}
  Erasers = {g1, g2}
  AuditLimit = 1
  MaxRequests = 1
  Memories = {1, 2}
  MemorySessions = {o1, o2}
  NoMemory = NoMemory
  MaxImportance = 2
  Unimportant = 0
  DecayThreshold = 1
  MaxIdle = 1
  MaxMemories = 1
  Papers = {w1, w2}
  RetentionSample = 1
  MaxRuns = 1
  MaxCommits = 2
  RedTeamChecks = {h1, h2, h3}
  Members = {b1, b2, b3}
  MaxDepth = 2
  MaxBranches = 2
  Confidences = {0, 60, 90}
  Scores = {0, 5, 10}
  NumBranches = 3
  BeamWidth = 2
  MaxRounds = 2
  NumSamples = 3
  MaxQueries = 2
  Talks = {y1, y2}
  Titles = {ti1, ti2}
  NobodyTalks = NobodyTalks
  MaxTalks = 3
  MaxFacts = 3
  Relevances = {2, 9}
  TopK = 2
  GoalCount = 2
  GoalSessions = {gs1, gs2}
  NoGoal = NoGoal
  MemoryTasks = {"learn"}
  MaxGoalCalls = 3
  Responses = {v1, v2}
  Datasets = {ds1}
  SpaceUsers = {su1, su2, su3}
  SpaceTenant = {su1, su2}
  SpaceThreads = {st1}
  NoSpace = NoSpace
  MaxSpaceCalls = 4
  Flushers = {f1, f2, f3}
  Periodic = f1
  Final = f2
  NoFlusher = NoFlusher
  BufferLimit = 1
  MaxMetrics = 2
  Summarizers = {z1, z2}
  MaxDecisions = 1
  Admins = {ad1, ad2}
  NoSettings = NoSettings
  DefaultBudget = 2
  FirstOfMonth <- MCFirstOfMonth
  Null = Null
  MaxTenantRequests = 2
  MaxCalls = 1
  LastDay = 2
  Sockets = {ws1, ws2, ws3}
  Tenants = {tn1, tn2}
  Accounts = {ac1}
  Threads = {th1}
  NoThread = NoThread
  BufferSize = 2
  MaxEmitted = 5
  Approvers = {ap1, ap2}
  pd1 = pd1
  pd2 = pd2
  pd3 = pd3
  PluginDirs = {pd1, pd2, pd3}
  PluginNameOf <- MCPluginNameOf
  PathsBelow <- MCPathsBelow
  MaxEdits = 2
  PluginRequests = {pr1, pr2}
  NoRegistration = NoRegistration
  MaxSettings = 3
  FirstVersion <- MCFirstVersion
  Versioners = {vs1, vs2}
  KeepLatest = 1
  MaxVersions = 3
CHECK_DEADLOCK FALSE
INVARIANTS
  MessagesAreDelivered
  ThinkingIsSound
  AccessIsGoverned
  LimitsHold
  CachesAreSound
  EdgeIsInSync
  JobsAreSound
  RecordsAreSound
PROPERTIES
  FindingsAreJustified
