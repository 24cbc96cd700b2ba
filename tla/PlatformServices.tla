-------------------------- MODULE PlatformServices --------------------------
(***************************************************************************)
(* Services around the agents whose promises are about their data, checked *)
(* together.  They share no state and no lock, so their interleavings with *)
(* each other show nothing: in a behaviour one of them runs, in all the    *)
(* interleavings of its own sessions, requests and calls, and the others   *)
(* rest.                                                                   *)
(***************************************************************************)
EXTENDS WebhookDelivery, PushChannels, Goals, UserAccess, RateLimits, TenantUsage,
        Caching, EdgePush, EdgePull, Documents, DocumentVersions, FineTuning,
        Erasure, AgentMemories, Assessments, Reasoning, Conversations, PluginHost

VARIABLE running  \* the one that runs

platformVars == <<running, webhookVars, planVars, accessVars, rateVars,
                  connectorVars, cacheVars, pushvars, pullVars, docVars,
                  tuningVars, erasureVars, memoryVars, assessVars,
                  deliberationVars, reasoningVars, conversationVars,
                  goalVars, feedbackVars, spaceVars, usageVars, quotaVars,
                  channelVars, pluginVars, versionVars>>

PlatformInit ==
  /\ running \in {"webhook", "plans", "access", "rates", "connector", "responses", "push", "pull", "documents", "tuning", "erasure", "memories", "assess", "deliberation", "reasoning", "conversations", "goals", "feedback", "spaces", "usage", "quotas", "channels", "plugins", "versions"}
  /\ WebhookInit
  /\ PlansInit
  /\ AccessInit
  /\ RateInit
  /\ LruInit
  /\ CacheInit
  /\ PushInit
  /\ PullInit
  /\ DocumentsInit
  /\ TuningInit
  /\ ErasureInit
  /\ MemoriesInit
  /\ AssessInit
  /\ DeliberationInit
  /\ ReasoningInit
  /\ ConversationsInit
  /\ GoalsInit
  /\ FeedbackInit
  /\ SpacesInit
  /\ UsageInit
  /\ QuotasInit
  /\ ChannelsInit
  /\ PluginInit
  /\ VersionsInit

OthersRest ==
  /\ UNCHANGED running
  /\ IF running = "webhook" THEN TRUE ELSE UNCHANGED webhookVars
  /\ IF running = "plans" THEN TRUE ELSE UNCHANGED planVars
  /\ IF running = "access" THEN TRUE ELSE UNCHANGED accessVars
  /\ IF running = "rates" THEN TRUE ELSE UNCHANGED rateVars
  /\ IF running = "connector" THEN TRUE ELSE UNCHANGED connectorVars
  /\ IF running = "responses" THEN TRUE ELSE UNCHANGED cacheVars
  /\ IF running = "push" THEN TRUE ELSE UNCHANGED pushvars
  /\ IF running = "pull" THEN TRUE ELSE UNCHANGED pullVars
  /\ IF running = "documents" THEN TRUE ELSE UNCHANGED docVars
  /\ IF running = "tuning" THEN TRUE ELSE UNCHANGED tuningVars
  /\ IF running = "erasure" THEN TRUE ELSE UNCHANGED erasureVars
  /\ IF running = "memories" THEN TRUE ELSE UNCHANGED memoryVars
  /\ IF running = "assess" THEN TRUE ELSE UNCHANGED assessVars
  /\ IF running = "deliberation" THEN TRUE ELSE UNCHANGED deliberationVars
  /\ IF running = "reasoning" THEN TRUE ELSE UNCHANGED reasoningVars
  /\ IF running = "conversations" THEN TRUE ELSE UNCHANGED conversationVars
  /\ IF running = "goals" THEN TRUE ELSE UNCHANGED goalVars
  /\ IF running = "feedback" THEN TRUE ELSE UNCHANGED feedbackVars
  /\ IF running = "spaces" THEN TRUE ELSE UNCHANGED spaceVars
  /\ IF running = "usage" THEN TRUE ELSE UNCHANGED usageVars
  /\ IF running = "quotas" THEN TRUE ELSE UNCHANGED quotaVars
  /\ IF running = "channels" THEN TRUE ELSE UNCHANGED channelVars
  /\ IF running = "plugins" THEN TRUE ELSE UNCHANGED pluginVars
  /\ IF running = "versions" THEN TRUE ELSE UNCHANGED versionVars

Step(name, Action) == running = name /\ OthersRest /\ Action

PlatformNext ==
  \/ Step("webhook", WebhookNext)
  \/ Step("plans", PlansNext)
  \/ Step("access", AccessNext)
  \/ Step("rates", RatesNext)
  \/ Step("connector", ConnectorCacheNext)
  \/ Step("responses", ResponseCacheNext)
  \/ Step("push", PushNext)
  \/ Step("pull", PullNext)
  \/ Step("documents", DocumentsNext)
  \/ Step("tuning", TuningNext)
  \/ Step("erasure", ErasureNext)
  \/ Step("memories", MemoriesNext)
  \/ Step("assess", AssessNext)
  \/ Step("deliberation", DeliberationNext)
  \/ Step("reasoning", ReasoningNext)
  \/ Step("conversations", ConversationsNext)
  \/ Step("goals", GoalsNext)
  \/ Step("feedback", FeedbackNext)
  \/ Step("spaces", SpacesNext)
  \/ Step("usage", UsageNext)
  \/ Step("quotas", QuotasNext)
  \/ Step("channels", ChannelsNext)
  \/ Step("plugins", PluginNext)
  \/ Step("versions", VersionsNext)

PlatformSpec == PlatformInit /\ [][PlatformNext]_platformVars

-----------------------------------------------------------------------------
(* The services that rest are as they began, where their promises hold as  *)
(* well: of each behaviour the one that runs is looked at.                 *)
WhenRunning(name, Promise) == running = name => Promise

(* A delivery, and what is pushed to the sockets and streams of clients,   *)
(* reaches those it is for, and its trail tells what has become of it.     *)
MessagesAreDelivered ==
  /\ WhenRunning("webhook", DeliveriesAreSound)
  /\ WhenRunning("channels", ChannelsAreSound)

(* The caches keep what was used last, and forget what is invalidated. *)
CachesAreSound ==
  /\ WhenRunning("connector", EvictsLeastRecent)
  /\ WhenRunning("responses", ResponsesAreIndexed /\ InvalidationPurges)

(* No request passes beyond its rate, and the settings, quotas and budgets *)
(* of a tenant are what has been set and counted.                          *)
LimitsHold ==
  /\ WhenRunning("rates", RequestsAreLimited)
  /\ WhenRunning("quotas", QuotasAreSound)

(* What an edge node has settled has reached the center, no entry is sent  *)
(* more often than its retries allow, and what it pulls is complete up to  *)
(* its watermark.                                                          *)
EdgeIsInSync ==
  /\ WhenRunning("push", AttemptsAreBounded /\ SettledWasReceived)
  /\ WhenRunning("pull", PullMissesNothing)

(* An upload is stored as a whole or not at all, and a training job says   *)
(* how far it has come.                                                    *)
JobsAreSound ==
  /\ WhenRunning("documents", UploadsAreWhole)
  /\ WhenRunning("tuning", TrainingIsHonest)

(* What users have said, wanted, rated and shared is kept as they left it, *)
(* and so are the latest versions of their files, and their plugins.       *)
UserDataIsKept ==
  /\ WhenRunning("conversations", ConversationsAreSound)
  /\ WhenRunning("goals", GoalsAreKept)
  /\ WhenRunning("feedback", FeedbackIsSound)
  /\ WhenRunning("spaces", SpacesAreShared)
  /\ WhenRunning("versions", VersionsAreKept)
  /\ WhenRunning("plugins", PluginsAreSound)

(* What is to be erased or forgotten is, and nothing else; all that users  *)
(* have entered is kept, and their calls are counted once; and a report    *)
(* says what its findings say.                                             *)
RecordsAreSound ==
  /\ WhenRunning("erasure", ErasureIsSound)
  /\ WhenRunning("memories", MemoriesAreKept)
  /\ WhenRunning("assess", ReportsAreSound)
  /\ WhenRunning("usage", UsageIsSound)
  /\ UserDataIsKept

(* A plan runs in its order and records its reviews; verdicts and votes    *)
(* follow from the answers that were given, and a call that fails counts   *)
(* for what the default in its place is worth.                             *)
ThinkingIsSound ==
  /\ WhenRunning("plans", PlansAreSound)
  /\ WhenRunning("deliberation", DeliberationIsSound)
  /\ WhenRunning("reasoning", ReasoningIsSound)
=============================================================================
