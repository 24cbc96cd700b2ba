------------------------------- MODULE Caching -------------------------------
(***************************************************************************)
(* The two caches: the one of the connectors, and the one of the language  *)
(* model's answers.                                                        *)
(***************************************************************************)
EXTENDS Naturals, FiniteSets, SequencesExt

(***************************************************************************)
(* The ConnectorCache of one tenant: an ordered dictionary with a lifetime *)
(* per entry and eviction from the front.                                  *)
(***************************************************************************)

CONSTANTS
  CacheKeys,
  MaxEntries,  \* max_entries_per_tenant
  TtlTicks     \* ttl_seconds, in ticks

ASSUME CacheAssumption == MaxEntries \in Nat \ {0} /\ TtlTicks \in Nat

VARIABLES
  lru,         \* the keys of the dictionary, in its order
  remaining,   \* ticks until an entry expires
  uses_since   \* history: sets and hits after the key was last moved to the end

connectorVars == <<lru, remaining, uses_since>>

LruInit ==
  /\ lru = <<>>
  /\ remaining = [k \in CacheKeys |-> 0]
  /\ uses_since = [k \in CacheKeys |-> MaxEntries]

(* The key is used: it is at the end, or it stays where it is. *)
Used(k, moved) ==
  uses_since' = [j \in CacheKeys |->
    IF j = k /\ moved THEN 0
    ELSE IF uses_since[j] < MaxEntries THEN uses_since[j] + 1 ELSE MaxEntries]

Forgotten(keys) ==
  uses_since' = [j \in CacheKeys |-> IF j \in keys THEN MaxEntries ELSE uses_since[j]]

(* Mutant of GetHit: the hit does not count as a use. *)
GetWithoutMoving(k) ==
  /\ Contains(lru, k) /\ remaining[k] > 0
  /\ Used(k, TRUE)
  /\ UNCHANGED <<lru, remaining>>

GetHit(k) ==
  /\ remaining[k] > 0
  /\ \E i \in DOMAIN lru : lru[i] = k /\ lru' = Append(RemoveAt(lru, i), k)
  /\ Used(k, TRUE)
  /\ UNCHANGED remaining

GetExpired(k) ==
  /\ remaining[k] = 0
  /\ \E i \in DOMAIN lru : lru[i] = k /\ lru' = RemoveAt(lru, i)
  /\ Forgotten({k})
  /\ UNCHANGED remaining

(* set(): a full cache loses its first entry, also when the key is cached; *)
(* a key that stays in the dictionary keeps its place.                     *)
Set(k) ==
  LET rest == IF Len(lru) >= MaxEntries THEN Tail(lru) ELSE lru IN
  /\ lru' = IF Contains(rest, k) THEN rest ELSE Append(rest, k)
  /\ remaining' = [remaining EXCEPT ![k] = TtlTicks]
  /\ Used(k, ~Contains(rest, k))

(* invalidate_tenant(), invalidate_all() *)
InvalidateConnectors ==
  /\ lru' = <<>>
  /\ Forgotten(CacheKeys)
  /\ UNCHANGED remaining

TtlTick ==
  /\ remaining' = [k \in CacheKeys |-> IF remaining[k] > 0 THEN remaining[k] - 1 ELSE 0]
  /\ UNCHANGED <<lru, uses_since>>

ConnectorCacheNext ==
  \/ \E k \in CacheKeys : GetHit(k) \/ GetExpired(k) \/ Set(k)
  \/ InvalidateConnectors \/ TtlTick

ConnectorCacheSpec == LruInit /\ [][ConnectorCacheNext]_connectorVars

-----------------------------------------------------------------------------
(* The cache stays within its size, holds a key once, and does not evict a *)
(* key before it was used as often as the cache has entries since the key  *)
(* was last hit.  (The uses may be of one key: setting it again evicts     *)
(* another entry each time.)                                               *)
EvictsLeastRecent ==
  /\ Len(lru) <= MaxEntries
  /\ IsInjective(lru)
  /\ \A k \in CacheKeys : uses_since[k] < MaxEntries => Contains(lru, k)

-----------------------------------------------------------------------------
(***************************************************************************)
(* The ResponseCache of one tenant: answers of the language model, stored  *)
(* under a key of the question, and a sentinel per answer through which    *)
(* the cache of the tenant is invalidated when the documents have changed. *)
(* Every operation of the backend is awaited, and a Redis backend swallows *)
(* its errors.                                                             *)
(***************************************************************************)

CONSTANTS
  Questions,      \* tenant, query, model and agent, as hashed
  Askers,         \* requests open at a time
  NoResponse,
  MaxKnowledge    \* bound: changes of the documents

VARIABLES
  knowledge,  \* how often the documents have changed
  response,   \* the answer cached: the knowledge it shows; stored late or not
  sentinel,   \* the questions with an index entry
  outlives,   \* the sentinels written after the answer they point to
  asker,      \* the requests that missed the cache
  purge,      \* the invalidation under way
  purged,     \* knowledge when the last completed invalidation began
  torn        \* history: stored while an invalidation ran, or without sentinel

cacheVars == <<knowledge, response, sentinel, outlives, asker, purge, purged, torn>>

NotAsking == [pc |-> "idle"]

NoPurge == [pc |-> "idle"]

CacheInit ==
  /\ knowledge = 0
  /\ response = [q \in Questions |-> NoResponse]
  /\ sentinel = {} /\ outlives = {}
  /\ asker = [a \in Askers |-> NotAsking]
  /\ purge = NoPurge
  /\ purged = 0
  /\ torn = {}

ChangeKnowledge ==
  /\ knowledge < MaxKnowledge
  /\ knowledge' = knowledge + 1
  /\ UNCHANGED <<response, sentinel, outlives, asker, purge, purged, torn>>

(* get_cached_response() finds nothing, or the backend fails; a hit changes *)
(* but the counter of hits.                                                *)
AskModel(a, q) ==
  /\ asker[a] = NotAsking
  /\ asker' = [asker EXCEPT ![a] = [pc |-> "answering", question |-> q, shows |-> knowledge]]
  /\ UNCHANGED <<knowledge, response, sentinel, outlives, purge, purged, torn>>

(* cache_response(): first the answer ... *)
StoreResponse(a) ==
  LET q == asker[a].question IN
  /\ asker[a].pc = "answering"
  /\ asker' = [asker EXCEPT ![a] = [pc |-> "stored", question |-> q, shows |-> @.shows]]
  /\ response' = [response EXCEPT ![q] = [shows |-> asker[a].shows, late |-> asker[a].shows < purged]]
  /\ outlives' = outlives \ {q}
  /\ torn' = IF purge = NoPurge THEN torn \ {q} ELSE torn \cup {q}
  /\ UNCHANGED <<knowledge, sentinel, purge, purged>>

(* ... then its sentinel. *)
StoreSentinel(a) ==
  LET q == asker[a].question IN
  /\ asker[a].pc = "stored"
  /\ asker' = [asker EXCEPT ![a] = NotAsking]
  /\ sentinel' = sentinel \cup {q}
  /\ outlives' = outlives \cup {q}
  /\ UNCHANGED <<knowledge, response, purge, purged, torn>>

(* The write fails, or the request is cancelled. *)
StoreFails(a) ==
  /\ asker[a] # NotAsking
  /\ asker' = [asker EXCEPT ![a] = NotAsking]
  /\ torn' = IF asker[a].pc = "stored" THEN torn \cup {asker[a].question} ELSE torn
  /\ UNCHANGED <<knowledge, response, sentinel, outlives, purge, purged>>

(* The lifetimes are the same, and begin with the write. *)
ResponseExpires(q) ==
  /\ response[q] # NoResponse
  /\ response' = [response EXCEPT ![q] = NoResponse]
  /\ UNCHANGED <<knowledge, sentinel, outlives, asker, purge, purged, torn>>

SentinelExpires(q) ==
  /\ q \in sentinel
  /\ response[q] # NoResponse => q \notin outlives
  /\ sentinel' = sentinel \ {q}
  /\ UNCHANGED <<knowledge, response, outlives, asker, purge, purged, torn>>

(* invalidate_key(): the sentinel stays, and points at nothing. *)
InvalidateKey(q) ==
  /\ response' = [response EXCEPT ![q] = NoResponse]
  /\ UNCHANGED <<knowledge, sentinel, outlives, asker, purge, purged, torn>>

-----------------------------------------------------------------------------
(* invalidate_tenant(): the sentinels are listed, ... *)
BeginPurge ==
  /\ purge = NoPurge
  /\ purge' = [pc |-> "listed", todo |-> sentinel, since |-> knowledge]
  /\ torn' = torn \cup {asker[a].question : a \in {b \in Askers : asker[b].pc = "stored"}}
  /\ UNCHANGED <<knowledge, response, sentinel, outlives, asker, purged>>

(* Mutant of PurgeResponse: only the sentinels are deleted. *)
PurgeNothing(q) ==
  /\ purge.pc = "listed" /\ q \in purge.todo
  /\ purge' = [pc |-> "deleting", todo |-> purge.todo \ {q}, since |-> purge.since, question |-> q]
  /\ UNCHANGED <<knowledge, response, sentinel, outlives, asker, purged, torn>>

(* ... the answer of each that is still there is deleted, ... *)
PurgeResponse(q) ==
  /\ purge.pc = "listed" /\ q \in purge.todo
  /\ purge' = [pc |-> "deleting", todo |-> purge.todo \ {q}, since |-> purge.since, question |-> q]
  /\ response' = IF q \in sentinel THEN [response EXCEPT ![q] = NoResponse] ELSE response
  /\ UNCHANGED <<knowledge, sentinel, outlives, asker, purged, torn>>

(* ... and then the sentinel. *)
PurgeSentinel ==
  /\ purge.pc = "deleting"
  /\ sentinel' = sentinel \ {purge.question}
  /\ purge' = [pc |-> "listed", todo |-> purge.todo, since |-> purge.since]
  /\ UNCHANGED <<knowledge, response, outlives, asker, purged, torn>>

EndPurge ==
  /\ purge.pc = "listed" /\ purge.todo = {}
  /\ purged' = purge.since
  /\ purge' = NoPurge
  /\ UNCHANGED <<knowledge, response, sentinel, outlives, asker, torn>>

(* Redis fails: the rest is left, without an error. *)
PurgeFails ==
  /\ purge # NoPurge
  /\ purge' = NoPurge
  /\ UNCHANGED <<knowledge, response, sentinel, outlives, asker, purged, torn>>

ResponseCacheNext ==
  \/ ChangeKnowledge \/ BeginPurge \/ PurgeSentinel \/ EndPurge \/ PurgeFails
  \/ \E a \in Askers :
       \/ \E q \in Questions : AskModel(a, q)
       \/ StoreResponse(a) \/ StoreSentinel(a) \/ StoreFails(a)
  \/ \E q \in Questions : PurgeResponse(q) \/ InvalidateKey(q) \/ ResponseExpires(q) \/ SentinelExpires(q)

ResponseCacheSpec == CacheInit /\ [][ResponseCacheNext]_cacheVars

-----------------------------------------------------------------------------
Storing(q) == \E a \in Askers : asker[a].pc = "stored" /\ asker[a].question = q

(* Every answer can be found by an invalidation: unless it was stored      *)
(* while one ran or its sentinel failed, it does not outlive its sentinel. *)
ResponsesAreIndexed ==
  \A q \in Questions : response[q] # NoResponse /\ ~Storing(q) /\ q \notin torn => q \in sentinel

(* An invalidation that completes leaves no answer older than itself, but  *)
(* those of requests that were open when it ran.                           *)
InvalidationPurges ==
  \A q \in Questions :
    response[q] # NoResponse /\ q \notin torn => response[q].shows >= purged \/ response[q].late
=============================================================================
