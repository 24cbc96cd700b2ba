------------------------------ MODULE EdgePush ------------------------------
(***************************************************************************)
(* The push half of the EdgeSyncService: a store-and-forward queue in a    *)
(* local SQLite table.  sync_to_central() reads a batch, posts it, and     *)
(* then marks the entries one by one, each in a transaction of its own, so *)
(* other calls, failures and crashes come between any two of these steps.  *)
(***************************************************************************)
EXTENDS Naturals, FiniteSets

CONSTANTS
  Entries,          \* identifiers queue_for_sync() hands out
  Pushers,          \* sync_to_central() calls that may be open at a time
  MaxRetry,         \* max_retry
  BatchSize,        \* batch_size
  MaxInterruptions  \* bound on cancelled calls and crashes

ASSUME PushAssumption ==
  /\ MaxRetry \in Nat \ {0} /\ BatchSize \in Nat \ {0} /\ MaxInterruptions \in Nat
  /\ IsFiniteSet(Pushers) /\ Pushers # {}

VARIABLES
  status,        \* sync_queue.status of the rows to push, "absent" before
  created_at,    \* sync_queue.created_at, as the rows follow each other
  retry_count,   \* sync_queue.retry_count
  push,          \* the open calls
  received,      \* history: entries the central server has processed
  attempts,      \* history: how often an entry was put into a request
  interruptions  \* history: cancelled calls and crashes

rows == <<status, created_at, retry_count>>
pushvars == <<rows, push, received, attempts, interruptions>>

NoPush == [phase |-> "idle"]

Pushing(phase, batch, todo, conflicts) ==
  [phase |-> phase, batch |-> batch, todo |-> todo, conflicts |-> conflicts]

(* More attempts than the bound on them are not told apart. *)
AttemptBound == MaxRetry - 1 + Cardinality(Pushers) * (1 + MaxInterruptions)

-----------------------------------------------------------------------------
PushInit ==
  /\ status = [e \in Entries |-> "absent"]
  /\ created_at = [e \in Entries |-> 0]
  /\ retry_count = [e \in Entries |-> 0]
  /\ push = [p \in Pushers |-> NoPush]
  /\ received = {}
  /\ attempts = [e \in Entries |-> 0]
  /\ interruptions = 0

Queued == {e \in Entries : status[e] # "absent"}

QueueForSync(e) ==
  /\ status[e] = "absent"
  /\ status' = [status EXCEPT ![e] = "pending"]
  /\ created_at' = [created_at EXCEPT ![e] = Cardinality(Queued) + 1]
  /\ UNCHANGED <<retry_count, push, received, attempts, interruptions>>

(* Mutant of Sendable: one attempt more than max_retry. *)
SendableOnceMore(e) == status[e] \in {"pending", "failed"} /\ retry_count[e] <= MaxRetry

Sendable(e) == status[e] \in {"pending", "failed"} /\ retry_count[e] < MaxRetry

(* What _get_pending_items() may select: the oldest entries, up to the     *)
(* limit.                                                                  *)
Batches ==
  LET sendable == {e \in Entries : Sendable(e)}
  IN  {batch \in SUBSET sendable :
         /\ \A e \in batch, f \in sendable \ batch : created_at[e] < created_at[f]
         /\ Cardinality(batch) <= BatchSize
         /\ Cardinality(batch) = BatchSize \/ batch = sendable}

(* sync_to_central() up to the await of the request. *)
BeginPush(p) ==
  /\ push[p] = NoPush
  /\ \E batch \in Batches \ {{}} :
       /\ push' = [push EXCEPT ![p] = Pushing("posting", batch, batch, {})]
       /\ attempts' = [e \in Entries |-> IF e \in batch /\ attempts[e] <= AttemptBound
                                         THEN attempts[e] + 1 ELSE attempts[e]]
  /\ UNCHANGED <<rows, received, interruptions>>

(* A success, with its verdict on each entry: an entry the answer does not *)
(* name counts as synced.                                                  *)
AnswerPush(p) ==
  /\ push[p].phase = "posting"
  /\ \E conflicts \in SUBSET push[p].batch :
       push' = [push EXCEPT ![p] = Pushing("marking", @.batch, @.batch, conflicts)]
  /\ received' = received \cup push[p].batch
  /\ UNCHANGED <<rows, attempts, interruptions>>

(* Mutant of PostFails: the status of the answer is not looked at. *)
PostFailsUnnoticed(p) ==
  /\ push[p].phase = "posting"
  /\ push' = [push EXCEPT ![p] = Pushing("marking", @.batch, @.batch, {})]
  /\ UNCHANGED <<rows, received, attempts, interruptions>>

(* No connection, an error status, a timeout or an answer that is no JSON: *)
(* the server may have processed the batch all the same.                   *)
PostFails(p) ==
  /\ push[p].phase = "posting"
  /\ push' = [push EXCEPT ![p] = Pushing("failing", @.batch, @.batch, {})]
  /\ \E processed \in {{}, push[p].batch} : received' = received \cup processed
  /\ UNCHANGED <<rows, attempts, interruptions>>

(* _update_item_status() of the entry the call has come to, and the end of *)
(* the call with the last one.                                             *)
UpdateItem(p, e, new, count) ==
  /\ \A f \in push[p].todo : created_at[e] <= created_at[f]
  /\ status' = [status EXCEPT ![e] = new]
  /\ retry_count' = [retry_count EXCEPT ![e] = @ + count]
  /\ push' = [push EXCEPT ![p] = IF @.todo = {e} THEN NoPush
                                  ELSE Pushing(@.phase, @.batch, @.todo \ {e}, @.conflicts)]
  /\ UNCHANGED <<created_at, received, attempts, interruptions>>

(* Mutant of MarkSettled: the server's own word for a success is stored. *)
MarkVerbatim(p) ==
  /\ push[p].phase = "marking"
  /\ \E e \in push[p].todo :
       UpdateItem(p, e, IF e \in push[p].conflicts THEN "conflict" ELSE "accepted", 1)

MarkSettled(p) ==
  /\ push[p].phase = "marking"
  /\ \E e \in push[p].todo :
       UpdateItem(p, e, IF e \in push[p].conflicts THEN "conflict" ELSE "synced", 1)

(* Mutant of MarkFailed: a failure is not counted. *)
MarkFailedUncounted(p) ==
  /\ push[p].phase = "failing"
  /\ \E e \in push[p].todo : UpdateItem(p, e, "failed", 0)

MarkFailed(p) ==
  /\ push[p].phase = "failing"
  /\ \E e \in push[p].todo : UpdateItem(p, e, "failed", 1)

(* An update fails (two writers of one SQLite file): the exception handler *)
(* marks the whole batch, the entries already settled included.            *)
MarkingFails(p) ==
  /\ push[p].phase = "marking"
  /\ push' = [push EXCEPT ![p] = Pushing("failing", @.batch, @.batch, {})]
  /\ UNCHANGED <<rows, received, attempts, interruptions>>

(* The call is cancelled, or an update fails in the handler: it ends where *)
(* it is.                                                                  *)
InterruptPush(p) ==
  /\ push[p] # NoPush
  /\ interruptions < MaxInterruptions
  /\ push' = [push EXCEPT ![p] = NoPush]
  /\ interruptions' = interruptions + 1
  /\ UNCHANGED <<rows, received, attempts>>

(* The process dies and starts again: the rows survive. *)
RestartPush ==
  /\ interruptions < MaxInterruptions
  /\ push' = [p \in Pushers |-> NoPush]
  /\ interruptions' = interruptions + 1
  /\ UNCHANGED <<rows, received, attempts>>

PushStep(p) ==
  BeginPush(p) \/ AnswerPush(p) \/ PostFails(p) \/ MarkSettled(p) \/ MarkFailed(p) \/ MarkingFails(p)

PushNext == \/ \E e \in Entries : QueueForSync(e)
            \/ \E p \in Pushers : PushStep(p) \/ InterruptPush(p)
            \/ RestartPush

PushSpec == PushInit /\ [][PushNext]_pushvars

(* sync_to_central() is called periodically, and its request has a timeout *)
(* of 30 seconds.                                                          *)
FairPushSpec == PushSpec /\ \A p \in Pushers : WF_pushvars(PushStep(p))

-----------------------------------------------------------------------------
Push == [phase : {"posting", "marking", "failing"},
         batch : SUBSET Entries, todo : SUBSET Entries, conflicts : SUBSET Entries]

PushTypeOK ==
  /\ status \in [Entries -> {"absent", "pending", "failed", "synced", "conflict"}]
  /\ created_at \in [Entries -> Nat]
  /\ retry_count \in [Entries -> Nat]
  /\ push \in [Pushers -> Push \cup {NoPush}]
  /\ received \subseteq Entries
  /\ attempts \in [Entries -> Nat]
  /\ interruptions \in 0 .. MaxInterruptions

(* However calls overlap, fail and crash, an entry that is settled locally *)
(* (and so never sent again) has reached the central server.               *)
SettledWasReceived ==
  \A e \in Entries : status[e] \in {"synced", "conflict"} => e \in received

(* The retry budget.  Every attempt that is not cut short is counted, so   *)
(* an entry is sent max_retry times, plus once for each further call that  *)
(* read it before the last attempt was counted.  A call counts an entry    *)
(* twice at most: when it was settled and the handler fails it again.      *)
RetryBudget ==
  \A e \in Entries :
    /\ attempts[e] <= MaxRetry - 1 + Cardinality(Pushers) * (1 + interruptions)
    /\ retry_count[e] <= MaxRetry - 1 + 2 * Cardinality(Pushers)

(* The attempts of an entry are counted and limited, whoever pushes it. *)
AttemptsAreBounded == PushTypeOK /\ RetryBudget

(* No entry waits for ever, whatever fails: it is settled, or its retries  *)
(* are exhausted.                                                          *)
EveryEntrySettles ==
  \A e \in Entries :
    status[e] = "pending" ~> (status[e] \in {"synced", "conflict"} \/ retry_count[e] >= MaxRetry)
=============================================================================
