--------------------------- MODULE AgentMemories ----------------------------
(***************************************************************************)
(* The memories of one agent: stored and recalled in the turns of a chat,  *)
(* forgotten and compacted by administrators, decayed by maintenance, each *)
(* in a session that writes later what it has read before.                 *)
(***************************************************************************)
EXTENDS Naturals, FiniteSets, FiniteSetsExt

CONSTANTS
  Memories,        \* the rows there may be, numbered as they are stored
  MemorySessions,
  NoMemory,
  MaxImportance,   \* bound: the levels of importance_score
  Unimportant,     \* _COMPACT_IMPORTANCE_THRESHOLD
  DecayThreshold,  \* _DECAY_THRESHOLD_DAYS, in periods of idleness
  MaxIdle,         \* bound: periods of idleness
  MaxMemories      \* max_memories of a compaction

ASSUME MemoryAssumption ==
  /\ Memories \subseteq Nat
  /\ MaxImportance \in Nat /\ MaxIdle \in Nat
  /\ Unimportant \in 0..MaxImportance /\ DecayThreshold \in 1..MaxIdle
  /\ MaxMemories \in Nat
  /\ NoMemory \notin [importance : 0..MaxImportance, is_deleted : BOOLEAN, accessed : BOOLEAN, idle : 0..MaxIdle]

VARIABLES
  memory,     \* the committed rows
  session,    \* what a session will write
  forgotten,  \* history: memories that forget() has deleted
  surplus,    \* history: deletions by compactions that overlapped another
  revived     \* history: memories a decay has made more important than another had left them

memoryVars == <<memory, session, forgotten, surplus, revived>>

NoSession == [does |-> "nothing"]

MemoriesInit ==
  /\ memory = [m \in Memories |-> NoMemory]
  /\ session = [s \in MemorySessions |-> NoSession]
  /\ forgotten = {} /\ surplus = {} /\ revived = {}

Stored == {m \in Memories : memory[m] # NoMemory}
Active == {m \in Stored : ~memory[m].is_deleted}

(* store_memory(): a turn stores what has been said, feedback what was     *)
(* learnt.                                                                 *)
StoreMemory(m, importance) ==
  /\ memory[m] = NoMemory /\ \A n \in Memories : n < m => memory[n] # NoMemory
  /\ memory' = [memory EXCEPT ![m] =
       [importance |-> importance, is_deleted |-> FALSE, accessed |-> FALSE, idle |-> 0]]
  /\ UNCHANGED <<session, forgotten, surplus, revived>>

Begin(s, does, rows) ==
  /\ session[s] = NoSession
  /\ session' = [session EXCEPT ![s] = [does |-> does, rows |-> rows]]
  /\ UNCHANGED <<memory, forgotten, surplus, revived>>

(* recall_memories(): what it finds, by text, among the active ones. *)
BeginRecall(s, found) == found # {} /\ found \subseteq Active /\ Begin(s, "recall", found)

BeginForget(s, m) == m \in Active /\ Begin(s, "forget", {m})

(* importance *= 2^(-idle / half life), for a half life of one period.     *)
Decayed(m) ==
  LET faded[n \in 0 .. MaxIdle] == IF n = 0 THEN memory[m].importance ELSE faded[n - 1] \div 2
  IN faded[memory[m].idle]

BeginDecay(s) ==
  LET rows == {m \in Active : memory[m].idle >= DecayThreshold /\ Decayed(m) < memory[m].importance} IN
  /\ session[s] = NoSession
  /\ session' = [session EXCEPT ![s] =
       [does |-> "decay", rows |-> rows, to |-> [m \in rows |-> Decayed(m)]]]
  /\ UNCHANGED <<memory, forgotten, surplus, revived>>

(* compact_memories() counts; ... *)
BeginCompact(s) ==
  /\ Cardinality(Active) > MaxMemories
  /\ session[s] = NoSession
  /\ session' = [session EXCEPT ![s] =
       [does |-> "count", remove |-> Cardinality(Active) - MaxMemories]]
  /\ UNCHANGED <<memory, forgotten, surplus, revived>>

(* ... then it looks for as many as are to go: of the unimportant ones the *)
(* least important; of these the ones that were never recalled, and then   *)
(* the longest idle.                                                       *)
Before(m, n) ==
  \/ memory[m].importance < memory[n].importance
  \/ /\ memory[m].importance = memory[n].importance
     /\ \/ ~memory[m].accessed /\ memory[n].accessed
        \/ memory[m].accessed = memory[n].accessed /\ memory[m].idle > memory[n].idle

(* Mutant of Candidates: the threshold is left out. *)
AllCandidates == Active

Candidates == {m \in Active : memory[m].importance <= Unimportant}

SelectCandidates(s) ==
  /\ session[s].does = "count"
  /\ \E rows \in kSubset(Min({session[s].remove, Cardinality(Candidates)}), Candidates) :
       /\ \A m \in rows, n \in Candidates \ rows : ~Before(n, m)
       /\ session' = [session EXCEPT ![s] = [does |-> "compact", rows |-> rows]]
  /\ UNCHANGED <<memory, forgotten, surplus, revived>>

Compacting(s) == session[s].does \in {"count", "compact"}

(* The columns that the session has changed, of the rows it has read. *)
Written(s, m) ==
  LET does == session[s].does IN
  IF m \notin session[s].rows THEN memory[m]
  ELSE CASE does = "recall" -> [memory[m] EXCEPT !.accessed = TRUE, !.idle = 0]
         [] does = "decay"  -> [memory[m] EXCEPT !.importance = session[s].to[m]]
         [] OTHER           -> [memory[m] EXCEPT !.is_deleted = TRUE]

CommitMemories(s) ==
  /\ session[s].does \in {"recall", "forget", "decay", "compact"}
  /\ memory' = [m \in Memories |-> Written(s, m)]
  /\ session' = [session EXCEPT ![s] = NoSession]
  /\ forgotten' = IF session[s].does = "forget" THEN forgotten \cup session[s].rows ELSE forgotten
  /\ surplus' = IF session[s].does = "compact" /\ \E o \in MemorySessions \ {s} : Compacting(o)
                THEN surplus \cup session[s].rows ELSE surplus
  /\ revived' = IF session[s].does = "decay"
                THEN revived \cup {m \in session[s].rows : session[s].to[m] > memory[m].importance} ELSE revived

AbortMemories(s) ==
  /\ session[s] # NoSession
  /\ session' = [session EXCEPT ![s] = NoSession]
  /\ UNCHANGED <<memory, forgotten, surplus, revived>>

(* How long a deleted row is idle is nowhere looked at.                    *)
TimePasses ==
  /\ \E m \in Active : memory[m].idle < MaxIdle
  /\ memory' = [m \in Memories |-> IF m \in Active THEN [memory[m] EXCEPT !.idle = Min({@ + 1, MaxIdle})]
                                                   ELSE memory[m]]
  /\ UNCHANGED <<session, forgotten, surplus, revived>>

MemoriesNext ==
  \/ TimePasses
  \/ \E m \in Memories, i \in 0..MaxImportance : StoreMemory(m, i)
  \/ \E s \in MemorySessions :
       \/ \E found \in SUBSET Active : BeginRecall(s, found)
       \/ \E m \in Active : BeginForget(s, m)
       \/ BeginDecay(s) \/ BeginCompact(s) \/ SelectCandidates(s)
       \/ CommitMemories(s) \/ AbortMemories(s)

MemoriesSpec == MemoriesInit /\ [][MemoriesNext]_memoryVars

-----------------------------------------------------------------------------
(* Whatever the sessions overlap: a memory that was forgotten stays so; a  *)
(* compaction deletes only unimportant ones, but for those that a decay    *)
(* has written which had read them before another; and, unless two         *)
(* compactions overlapped, no more than there were above its limit.        *)
MemoriesAreKept ==
  LET deleted == Stored \ Active IN
  /\ forgotten \subseteq deleted
  /\ \A m \in deleted \ (forgotten \cup revived) : memory[m].importance <= Unimportant
  /\ deleted \ forgotten # {} => Cardinality(Active \cup forgotten \cup surplus) >= MaxMemories
=============================================================================
