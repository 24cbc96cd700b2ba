--------------------- MODULE PersistentWriteOperations ---------------------
(***************************************************************************)
(* The PersistentWriteOperationExecutor: several API instances over one    *)
(* write_operations table.                                                 *)
(*                                                                         *)
(* A request is a database transaction at PostgreSQL's default isolation,  *)
(* READ COMMITTED.  It reads the row without a lock and checks it; the     *)
(* flush sends an UPDATE of the columns that changed, which waits for the  *)
(* row lock, applies to the row as last committed, and keeps the lock      *)
(* until commit or rollback.  execute() flushes before it calls the        *)
(* connector and again after, so the call happens inside the transaction   *)
(* and nobody else ever sees the status "executing".                       *)
(***************************************************************************)
EXTENDS OperationData

CONSTANTS Txns      \* requests the instances may be serving at a time

VARIABLES
  info,     \* immutable columns of each committed row
  row,      \* mutable columns of each committed row
  txn,      \* the transactions: where they are, what they will write
  calls,    \* history: connector calls made for each operation, up to MaxCalls
  approved, \* history: operations an "approved" row was ever committed for
  disturbed \* history: two transactions overlapped, or one did not commit

pvars == <<info, row, txn, calls, approved, disturbed>>

MaxCalls == 2   \* more calls than this are not told apart

NoRow == [status |-> "absent", approved_by |-> NoUser, audit_trail |-> <<>>]

IdleTxn == [pc |-> "idle"]

(* The transaction that has flushed an update of o and not yet ended. *)
Holds(t, o) == txn[t].pc \in {"calling", "flushed"} /\ txn[t].op = o

Locked(o) == \E t \in Txns : Holds(t, o)

-----------------------------------------------------------------------------
PersistentInit ==
  /\ info = [o \in Ops |-> NoInfo]
  /\ row = [o \in Ops |-> NoRow]
  /\ txn = [t \in Txns |-> IdleTxn]
  /\ calls = [o \in Ops |-> 0]
  /\ approved = {}
  /\ disturbed = FALSE

(* propose(): the INSERT of a fresh identifier meets nobody; its commit is *)
(* the step the others see.                                                *)
ProposeRow(u, o, connector, risk) ==
  LET first == LogEntry("proposed", u, FALSE)
      auto == LogEntry("auto_approved", u, FALSE)
  IN
  /\ row[o].status = "absent"
  /\ \E mfa \in MfaOfProposal(risk) :
       info' = [info EXCEPT ![o] = [user |-> u, connector |-> connector, risk |-> risk,
                                    requires_mfa |-> mfa]]
  /\ row' = [row EXCEPT ![o] =
       IF risk = "low"
       THEN [status |-> "approved", approved_by |-> u, audit_trail |-> <<first, auto>>]
       ELSE [status |-> "pending_approval", approved_by |-> NoUser, audit_trail |-> <<first>>]]
  /\ approved' = IF risk = "low" THEN approved \cup {o} ELSE approved
  /\ UNCHANGED <<txn, calls, disturbed>>

(* The columns a transaction will write, computed from the row it has read *)
(* (a record of the changed columns only).                                 *)
Check(t, o, change) ==
  /\ txn[t].pc = "idle"
  /\ txn' = [txn EXCEPT ![t] = [pc |-> "checked", op |-> o, change |-> change]]
  /\ disturbed' = (disturbed \/ \E other \in Txns : txn[other].pc # "idle")
  /\ UNCHANGED <<info, row, calls, approved>>

(* Mutant of Logged: the entry names the reviewer before there is one. *)
LoggedForReviewer(o, event, actor, mfa) ==
  Append(row[o].audit_trail, LogEntry(event, row[o].approved_by, mfa))

(* add_audit_entry on the row that was read. *)
Logged(o, event, actor, mfa) == Append(row[o].audit_trail, LogEntry(event, actor, mfa))

CheckApprove(t, u, o, mfa) ==
  /\ row[o].status = "pending_approval"
  /\ info[o].requires_mfa => mfa
  /\ Check(t, o, [status |-> "approved", approved_by |-> u,
                  audit_trail |-> Logged(o, "approved", u, mfa)])

(* Mutant of CheckReject: the status of the row is not looked at. *)
CheckRejectAnyTime(t, u, o) ==
  /\ row[o].status # "absent"
  /\ Check(t, o, [status |-> "rejected", approved_by |-> u,
                  audit_trail |-> Logged(o, "rejected", u, FALSE)])

CheckReject(t, u, o) ==
  /\ row[o].status = "pending_approval"
  /\ Check(t, o, [status |-> "rejected", approved_by |-> u,
                  audit_trail |-> Logged(o, "rejected", u, FALSE)])

(* Mutant of CheckExecute: whatever is not over can be executed. *)
CheckExecuteUnapproved(t, o) ==
  /\ row[o].status \in {"pending_approval", "approved"}
  /\ Check(t, o, [status |-> "executing",
                  audit_trail |-> Logged(o, "execution_started", info[o].user, FALSE)])

CheckExecute(t, o) ==
  /\ row[o].status = "approved"
  /\ Check(t, o, [status |-> "executing",
                  audit_trail |-> Logged(o, "execution_started", info[o].user, FALSE)])

ResultEntry(o, success) ==
  LogEntry(IF success THEN "execution_completed" ELSE "execution_failed", info[o].user, FALSE)

(* Mutant of WithResult: the result is not logged. *)
WithUnloggedResult(o, version, success) ==
  [version EXCEPT !.status = IF success THEN "completed" ELSE "failed"]

WithResult(o, version, success) ==
  [version EXCEPT !.status = IF success THEN "completed" ELSE "failed",
                  !.audit_trail = Append(@, ResultEntry(o, success))]

(* The flush of a review: the changed columns go over the row as it is now *)
(* and the row lock is taken.                                              *)
Flush(t, pc, version) ==
  /\ ~Locked(txn[t].op)
  /\ txn' = [txn EXCEPT ![t] = [pc |-> pc, op |-> txn[t].op, version |-> version]]
  /\ UNCHANGED <<info, row, approved, disturbed>>

Updated(t) ==
  LET change == txn[t].change
      current == row[txn[t].op]
  IN  [column \in DOMAIN current |-> IF column \in DOMAIN change THEN change[column]
                                                                ELSE current[column]]

FlushReview(t) ==
  /\ txn[t].pc = "checked"
  /\ txn[t].change.status # "executing"
  /\ Flush(t, "flushed", Updated(t))
  /\ UNCHANGED calls

(* The first flush of execute(), and the connector call that follows at    *)
(* once: without a registered connector it fails on the spot.              *)
FlushExecute(t) ==
  /\ txn[t].pc = "checked"
  /\ txn[t].change.status = "executing"
  /\ LET o == txn[t].op IN
       IF info[o].connector \in Registered
       THEN /\ Flush(t, "calling", Updated(t))
            /\ calls' = [calls EXCEPT ![o] = IF @ < MaxCalls THEN @ + 1 ELSE @]
       ELSE /\ Flush(t, "flushed", WithResult(o, Updated(t), FALSE))
            /\ UNCHANGED calls

(* The connector answered: the second flush, of a row already locked. *)
Answer(t, success) ==
  /\ txn[t].pc = "calling"
  /\ txn' = [txn EXCEPT ![t] =
       [pc |-> "flushed", op |-> txn[t].op, version |-> WithResult(txn[t].op, txn[t].version, success)]]
  /\ UNCHANGED <<info, row, calls, approved, disturbed>>

(* Mutant of Commit: the session is not closed. *)
CommitKeepsSession(t) ==
  /\ txn[t].pc = "flushed"
  /\ row' = [row EXCEPT ![txn[t].op] = txn[t].version]
  /\ approved' = IF txn[t].version.status = "approved" THEN approved \cup {txn[t].op} ELSE approved
  /\ UNCHANGED <<info, txn, calls, disturbed>>

(* get_db_session commits when the request is done ... *)
Commit(t) ==
  /\ txn[t].pc = "flushed"
  /\ row' = [row EXCEPT ![txn[t].op] = txn[t].version]
  /\ approved' = IF txn[t].version.status = "approved" THEN approved \cup {txn[t].op} ELSE approved
  /\ txn' = [txn EXCEPT ![t] = IdleTxn]
  /\ UNCHANGED <<info, calls, disturbed>>

(* ... and rolls back on an exception; the database does the same for an   *)
(* instance that crashes.  A connector call is not undone.                 *)
Abort(t) ==
  /\ txn[t].pc # "idle"
  /\ txn' = [txn EXCEPT ![t] = IdleTxn]
  /\ disturbed' = TRUE
  /\ UNCHANGED <<info, row, calls, approved>>

Submit(u, o) == \E c \in Connectors, risk \in RiskLevels : ProposeRow(u, o, c, risk)

Review(t, u, o) == CheckReject(t, u, o) \/ \E mfa \in BOOLEAN : CheckApprove(t, u, o, mfa)

Proceed(t) == FlushReview(t) \/ FlushExecute(t) \/ Commit(t) \/ \E success \in BOOLEAN : Answer(t, success)

NoFailureNext ==
  \/ \E u \in Users, o \in Ops : Submit(u, o) \/ \E t \in Txns : Review(t, u, o)
  \/ \E t \in Txns : Proceed(t) \/ \E o \in Ops : CheckExecute(t, o)

PersistentNext == NoFailureNext \/ \E t \in Txns : Abort(t)

PersistentSpec == PersistentInit /\ [][PersistentNext]_pvars

(* The same without rollbacks and crashes. *)
NoFailureSpec == PersistentInit /\ [][NoFailureNext]_pvars

(* Transactions proceed: connectors and the database answer.  PostgreSQL   *)
(* queues the waiters of a row lock, so one that waits again and again     *)
(* gets it: strong fairness.                                               *)
FairPersistentSpec ==
  PersistentSpec /\ \A t \in Txns : SF_pvars(FlushReview(t) \/ FlushExecute(t)) /\ WF_pvars(Proceed(t))

-----------------------------------------------------------------------------
Row == [status : Statuses, approved_by : Users \cup {NoUser}, audit_trail : Seq(Entry)]

(* Every variable holds values of the shape the code gives it. *)
PersistentTypeOK ==
  /\ info \in [Ops -> Info \cup {NoInfo}]
  /\ row \in [Ops -> Row]
  /\ calls \in [Ops -> 0 .. MaxCalls]
  /\ approved \subseteq Ops
  /\ disturbed \in BOOLEAN
  /\ \A t \in Txns :
       \/ txn[t] = IdleTxn
       \/ txn[t].pc = "checked" /\ txn[t].op \in Ops
       \/ txn[t].pc \in {"calling", "flushed"} /\ txn[t].op \in Ops /\ txn[t].version \in Row

(* Lost updates lose whole decisions, never halves of one: the status of a *)
(* committed row is the one its audit trail ends in, "executing" is never  *)
(* committed, and a row past approval shows the approval it rests on, with *)
(* the MFA the operation requires.                                         *)
CommittedRowsAreConsistent ==
  \A o \in Ops : row[o].status # "absent" =>
    LET trail == row[o].audit_trail IN
    /\ row[o].status = StatusAfter(trail[Len(trail)].event)
    /\ row[o].status # "executing"
    /\ row[o].status \in {"approved", "completed", "failed"} =>
         \E i \in DOMAIN trail :
           \/ trail[i].event = "auto_approved" /\ info[o].risk = "low"
           \/ trail[i].event = "approved" /\ (info[o].requires_mfa => trail[i].mfa)

(* Whatever is lost or crosses, the committed rows are consistent. *)
CommittedRowsAreSound == PersistentTypeOK /\ CommittedRowsAreConsistent

(* Even when reviews race, roll back and crash, no connector is called for *)
(* an operation whose approval was never committed.                        *)
CallsFollowCommittedApproval == \A o \in Ops : calls[o] > 0 => o \in approved

(* Every transaction ends: they wait for one row lock each, and the lock   *)
(* is always released.                                                     *)
EveryRequestReturns == \A t \in Txns : txn[t].pc # "idle" ~> txn[t].pc = "idle"

(* Every operation as its next reader or writer will find it: a locked row *)
(* in the version its transaction has flushed.                             *)
Current(o) == IF Locked(o) THEN (txn[CHOOSE t \in Txns : Holds(t, o)]).version ELSE row[o]

Lifecycle == INSTANCE OperationLifecycle
               WITH phase <- [o \in Ops |-> Phase(Current(o).status)], writes <- calls

(* As long as requests came one at a time and each of them committed, the  *)
(* executor takes only steps of the same life cycle as the in-memory one.   *)
SerialImplementsLifecycle ==
  /\ Lifecycle!LifecycleInit
  /\ [][disturbed' \/ Lifecycle!LifecycleNext]_<<[o \in Ops |-> Phase(Current(o).status)], calls>>

(* "Multiple instances share the same operation state without conflict":   *)
(* an operation is executed against the external system at most once.      *)
ExecutedAtMostOnce == \A o \in Ops : calls[o] <= 1
=============================================================================
