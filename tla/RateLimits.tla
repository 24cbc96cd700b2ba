----------------------------- MODULE RateLimits -----------------------------
(***************************************************************************)
(* The rate limits of one user: the fixed window each API instance counts  *)
(* in memory, and the sliding window they share in Redis, with the         *)
(* in-memory window as its fallback when Redis fails, and when it refuses. *)
(***************************************************************************)
EXTENDS Naturals, FiniteSets, FiniteSetsExt

CONSTANTS
  Instances,      \* API processes
  PerMinute,      \* requests_per_minute
  Burst,          \* burst_allowance
  TicksPerSecond,
  WindowSeconds,  \* 60 in the in-memory limiter, window_seconds in Redis
  LastInstant,    \* bound of the clock, in ticks
  MaxTwins        \* bound: requests the script sees at the time of an earlier one

ASSUME RateAssumption ==
  /\ PerMinute \in Nat \ {0} /\ Burst \in Nat /\ LastInstant \in Nat /\ MaxTwins \in Nat
  /\ TicksPerSecond \in Nat \ {0} /\ WindowSeconds \in Nat \ {0}
  /\ "redis" \notin Instances

VARIABLES
  instant,    \* the clock
  counters,   \* _WindowCounter of each instance
  connected,  \* the instances that have reached Redis
  members,    \* the sorted set of the user: its scores
  observed,   \* history: when some window began, of any beginning
  granted,    \* history: requests let through in it, by each limiter
  twins,      \* history: those of Redis that came at the time of an earlier one
  told        \* history: when the last refusal from memory let the client come
              \* back, counted from the start of the window

rateVars == <<instant, counters, connected, members, observed, granted, twins, told>>

Window == WindowSeconds * TicksPerSecond

NotObserved == LastInstant + 1

RateInit ==
  /\ instant = 0
  /\ counters = [i \in Instances |-> [start |-> 0, count |-> 0]]
  /\ connected = {}
  /\ members = {}
  /\ observed = NotObserved
  /\ granted = [limiter \in Instances \cup {"redis"} |-> 0]
  /\ twins = 0
  /\ told = Window

IsObserved == instant \in observed .. observed + Window - 1

Grant(limiter) ==
  /\ granted' = [granted EXCEPT ![limiter] = @ + (IF IsObserved THEN 1 ELSE 0)]
  /\ UNCHANGED observed

(* Mutant of RetryAfter: rounded down. *)
RetryAtOnce(elapsed) == TicksPerSecond * ((Window - elapsed) \div TicksPerSecond)

(* int(window - elapsed) + 1 seconds *)
RetryAfter(elapsed) == TicksPerSecond * ((Window - elapsed) \div TicksPerSecond + 1)

(* RateLimiter.check(): refused requests are counted like the others, and  *)
(* more than one refusal is not told apart.                                *)
CountInMemory(i) ==
  LET elapsed == instant - counters[i].start
      renewed == elapsed >= Window
      start == IF renewed THEN instant ELSE counters[i].start
      count == IF renewed THEN 1 ELSE counters[i].count + 1 IN
  /\ counters' = [counters EXCEPT ![i] = [start |-> start, count |-> Min({count, PerMinute + 1})]]
  /\ IF count <= PerMinute
     THEN Grant(i) /\ UNCHANGED told
     ELSE /\ told' = elapsed + RetryAfter(elapsed)
          /\ UNCHANGED <<granted, observed>>

(* An instance that has no Redis, as it is with the in-memory limiter. *)
CheckInMemory(i) ==
  /\ i \notin connected
  /\ CountInMemory(i)
  /\ UNCHANGED <<instant, connected, members, twins>>

InWindow == {t \in members : t > instant - Window}

IsTwin == instant \in members /\ IsObserved

(* The script adds the request as a member named after its time, so two of *)
(* one instant are one.                                                    *)
CheckRedis(i) ==
  /\ i \in connected
  /\ Cardinality(InWindow) < PerMinute + Burst
  /\ members' = InWindow \cup {instant}
  /\ Grant("redis")
  /\ IsTwin => twins < MaxTwins
  /\ twins' = twins + (IF IsTwin THEN 1 ELSE 0)
  /\ UNCHANGED <<instant, counters, connected, told>>

(* The refusal of the script is raised inside the try whose handler falls  *)
(* back to the memory of the instance.                                     *)
RefuseRedis(i) ==
  /\ i \in connected
  /\ Cardinality(InWindow) >= PerMinute + Burst
  /\ members' = InWindow
  /\ CountInMemory(i)
  /\ UNCHANGED <<instant, connected, twins>>

RedisFails(i) ==
  /\ i \in connected
  /\ CountInMemory(i)
  /\ UNCHANGED <<instant, connected, members, twins>>

(* connect(), for the limiter in Redis. *)
Connect(i) ==
  /\ i \notin connected
  /\ connected' = connected \cup {i}
  /\ UNCHANGED <<instant, counters, members, observed, granted, twins, told>>

Observe ==
  /\ observed = NotObserved
  /\ observed' = instant
  /\ UNCHANGED <<instant, counters, connected, members, granted, twins, told>>

RateTick ==
  /\ instant < LastInstant
  /\ instant' = instant + 1
  /\ UNCHANGED <<counters, connected, members, observed, granted, twins, told>>

RatesNext ==
  \/ RateTick \/ Observe
  \/ \E i \in Instances : Connect(i) \/ CheckInMemory(i) \/ CheckRedis(i) \/ RefuseRedis(i) \/ RedisFails(i)

RatesSpec == RateInit /\ [][RatesNext]_rateVars

-----------------------------------------------------------------------------
(* In whatever 60 seconds, Redis lets its limit through for all instances  *)
(* together, and once more what came at the very time of another request.  *)
(* What it refuses, and what it does not answer, is for the memory of the  *)
(* instance: each lets at most the end of one of its windows and the       *)
(* beginning of the next through, twice its limit.  A client that waits as *)
(* long as a refusal tells it, at most a second longer than needed, finds  *)
(* the window over.                                                        *)
RequestsAreLimited ==
  /\ granted["redis"] <= PerMinute + Burst + twins
  /\ \A i \in Instances : granted[i] <= 2 * PerMinute
  /\ told \in Window .. Window + TicksPerSecond
=============================================================================
