------------------ MODULE PersistentWriteOperationsProofs ------------------
(***************************************************************************)
(* Proofs about the PostgreSQL executor, for any number of operations and  *)
(* of transactions that cross, roll back and crash.                        *)
(*                                                                         *)
(* What is committed was computed from a row that may be out of date by    *)
(* then, so the invariants must reach into the transactions: what one has  *)
(* read and is going to write is consistent by itself, and rests on an     *)
(* approval that was committed, whatever the row says meanwhile.           *)
(***************************************************************************)
EXTENDS PersistentWriteOperations, SequenceTheorems, TLAPS

PastApproval == {"approved", "executing", "completed", "failed"}

(* A trail shows the approval of an operation with the columns i. *)
Shown(i, trail) ==
  \E n \in DOMAIN trail :
    \/ trail[n].event = "auto_approved" /\ i.risk = "low"
    \/ trail[n].event = "approved" /\ (i.requires_mfa => trail[n].mfa)

(* A status and the trail it is written with belong together. *)
Consistent(i, s, trail) ==
  /\ s # "absent"
  /\ trail \in Seq(Entry)
  /\ s = StatusAfter(trail[Len(trail)].event)
  /\ s \in PastApproval => Shown(i, trail)

Reviews == [status : {"approved", "rejected"}, approved_by : Users, audit_trail : Seq(Entry)]

Executions == [status : {"executing"}, audit_trail : Seq(Entry)]

RowSound(o) ==
  row[o].status # "absent" =>
    /\ info[o] \in Info
    /\ Consistent(info[o], row[o].status, row[o].audit_trail)
    /\ row[o].status # "executing"
    /\ row[o].status \in PastApproval => o \in approved

(* What a transaction is going to write. *)
ChangeSound(o, change) ==
  /\ change \in Reviews \/ (change \in Executions /\ o \in approved)
  /\ Consistent(info[o], change.status, change.audit_trail)

(* What a transaction has flushed. *)
VersionSound(o, version) ==
  /\ version \in Row
  /\ Consistent(info[o], version.status, version.audit_trail)
  /\ version.status \in {"executing", "completed", "failed"} => o \in approved

TxnSound(t) ==
  \/ txn[t] = IdleTxn
  \/ /\ txn[t].op \in Ops
     /\ row[txn[t].op].status # "absent"
     /\ \/ txn[t].pc = "checked" /\ ChangeSound(txn[t].op, txn[t].change)
        \/ /\ txn[t].pc = "calling"
           /\ VersionSound(txn[t].op, txn[t].version)
           /\ txn[t].version.status = "executing"
        \/ /\ txn[t].pc = "flushed"
           /\ VersionSound(txn[t].op, txn[t].version)
           /\ txn[t].version.status # "executing"

IInv == /\ PersistentTypeOK
        /\ DOMAIN txn = Txns
        /\ \A o \in Ops : RowSound(o)
        /\ \A t \in Txns : TxnSound(t)
        /\ CallsFollowCommittedApproval

-----------------------------------------------------------------------------
(* An entry of a known user is an entry. *)
LEMMA EntryTyped ==
  ASSUME NEW event \in Events, NEW u \in Users, NEW mfa \in BOOLEAN
  PROVE  LogEntry(event, u, mfa) \in Entry
BY DEF LogEntry, Entry

(* A trail that grows by an entry ends in it, and shows what it has shown  *)
(* before.                                                                 *)
LEMMA TrailGrows ==
  ASSUME NEW i, NEW trail \in Seq(Entry), NEW e \in Entry
  PROVE  LET longer == Append(trail, e) IN
         /\ longer \in Seq(Entry)
         /\ longer[Len(longer)] = e
         /\ Shown(i, trail) => Shown(i, longer)
         /\ e.event = "approved" /\ (i.requires_mfa => e.mfa) => Shown(i, longer)
<1> DEFINE longer == Append(trail, e)
<1>1. /\ longer \in Seq(Entry) /\ Len(longer) = Len(trail) + 1
      /\ longer[Len(longer)] = e
      /\ Len(longer) \in DOMAIN longer
      /\ \A n \in DOMAIN trail : n \in DOMAIN longer /\ longer[n] = trail[n]
  BY AppendProperties
<1>2. QED
  <2> HIDE DEF longer
  <2> QED BY <1>1 DEF Shown, longer

(* A change over a row: a review replaces every column, an execution the   *)
(* status and the trail.                                                   *)
LEMMA UpdatedVersion ==
  ASSUME NEW t \in Txns, row[txn[t].op] \in Row, txn[t].change \in Reviews \cup Executions
  PROVE  /\ Updated(t) \in Row
         /\ Updated(t).status = txn[t].change.status
         /\ Updated(t).audit_trail = txn[t].change.audit_trail
<1> DEFINE current == row[txn[t].op]
           change == txn[t].change
<1>1. Updated(t) = [column \in DOMAIN current |->
                      IF column \in DOMAIN change THEN change[column] ELSE current[column]]
  BY DEF Updated
<1>2. current \in Row
  OBVIOUS
<1>3. CASE change \in Reviews
  <2> HIDE DEF current, change
  <2> QED BY <1>1, <1>2, <1>3 DEF Row, Reviews, Statuses, change
<1>4. CASE change \in Executions
  <2> HIDE DEF current, change
  <2> QED BY <1>1, <1>2, <1>4 DEF Row, Executions, Statuses, change
<1>5. QED BY <1>3, <1>4

(* A transaction that does not move stays sound while operations are       *)
(* proposed, approvals committed and rows overwritten by others.           *)
LEMMA TxnStaysSound ==
  ASSUME NEW t \in Txns, TxnSound(t), txn'[t] = txn[t],
         approved \subseteq approved',
         \A o \in Ops : row[o].status # "absent" =>
                          info'[o] = info[o] /\ row'[o].status # "absent"
  PROVE  TxnSound(t)'
BY DEF TxnSound, ChangeSound, VersionSound

(* The type of the transactions follows from their soundness. *)
LEMMA SoundIsTyped ==
  ASSUME \A t \in Txns : TxnSound(t)
  PROVE  \A t \in Txns :
           \/ txn[t] = IdleTxn
           \/ txn[t].pc = "checked" /\ txn[t].op \in Ops
           \/ txn[t].pc \in {"calling", "flushed"} /\ txn[t].op \in Ops /\ txn[t].version \in Row
BY DEF TxnSound, VersionSound

-----------------------------------------------------------------------------
(* The invariant holds before the first transaction. *)
LEMMA InitIInv == PersistentInit => IInv
<1> SUFFICES ASSUME PersistentInit PROVE IInv
  OBVIOUS
<1>1. NoRow \in Row /\ NoRow.status = "absent"
  BY DEF NoRow, Row, Statuses
<1>2. \A t \in Txns : TxnSound(t)
  BY DEF PersistentInit, TxnSound
<1>3. \A o \in Ops : RowSound(o)
  BY <1>1 DEF PersistentInit, RowSound
<1>4. PersistentTypeOK
  <2>1. row \in [Ops -> Row] /\ calls \in [Ops -> 0 .. MaxCalls]
    BY <1>1 DEF PersistentInit, MaxCalls
  <2>2. QED BY <1>2, <2>1, SoundIsTyped DEF PersistentInit, PersistentTypeOK
<1>5. QED BY <1>2, <1>3, <1>4 DEF PersistentInit, IInv, CallsFollowCommittedApproval

(* A proposal is a new row that nobody has read yet. *)
LEMMA ProposeIInv ==
  ASSUME IInv, NEW u \in Users, NEW o \in Ops, NEW c \in Connectors, NEW risk \in RiskLevels,
         ProposeRow(u, o, c, risk)
  PROVE  IInv'
<1> DEFINE first == LogEntry("proposed", u, FALSE)
           auto == LogEntry("auto_approved", u, FALSE)
           low == [status |-> "approved", approved_by |-> u, audit_trail |-> <<first, auto>>]
           other == [status |-> "pending_approval", approved_by |-> NoUser,
                     audit_trail |-> <<first>>]
<1>1. /\ row[o].status = "absent"
      /\ row' = [row EXCEPT ![o] = IF risk = "low" THEN low ELSE other]
      /\ approved' = IF risk = "low" THEN approved \cup {o} ELSE approved
      /\ UNCHANGED <<txn, calls, disturbed>>
  BY DEF ProposeRow
<1>2. PICK mfa \in MfaOfProposal(risk) :
        info' = [info EXCEPT ![o] = [user |-> u, connector |-> c, risk |-> risk,
                                     requires_mfa |-> mfa]]
  BY DEF ProposeRow
<1>3. mfa \in BOOLEAN
  BY DEF MfaOfProposal, MfaByRisk
<1>4. /\ info'[o] \in Info /\ info'[o].risk = risk
      /\ info' \in [Ops -> Info \cup {NoInfo}]
      /\ \A p \in Ops \ {o} : info'[p] = info[p] /\ row'[p] = row[p]
      /\ row'[o] = IF risk = "low" THEN low ELSE other
  BY <1>1, <1>2, <1>3 DEF IInv, PersistentTypeOK, Info
<1>5. /\ first \in Entry /\ first.event = "proposed"
      /\ auto \in Entry /\ auto.event = "auto_approved"
  BY DEF LogEntry, Entry, Events
<1>6. low \in Row /\ other \in Row
  <2> HIDE DEF first, auto
  <2>1. <<first, auto>> \in Seq(Entry) /\ <<first>> \in Seq(Entry)
    BY <1>5
  <2>2. QED BY <2>1 DEF Row, Statuses
<1>7. Consistent(info'[o], row'[o].status, row'[o].audit_trail)
  <2> HIDE DEF first, auto
  <2>1. CASE risk = "low"
    <3>1. row'[o].status = "approved" /\ row'[o].audit_trail = <<first, auto>>
      BY <1>4, <2>1
    <3>2. <<first, auto>>[Len(<<first, auto>>)] = auto /\ <<first, auto>>[2] = auto
          /\ 2 \in DOMAIN <<first, auto>> /\ <<first, auto>> \in Seq(Entry)
      BY <1>5
    <3>3. Shown(info'[o], <<first, auto>>)
      BY <1>4, <1>5, <2>1, <3>2 DEF Shown
    <3>4. QED BY <1>5, <3>1, <3>2, <3>3 DEF Consistent, StatusAfter
  <2>2. CASE risk # "low"
    <3>1. row'[o].status = "pending_approval" /\ row'[o].audit_trail = <<first>>
      BY <1>4, <2>2
    <3>2. <<first>>[Len(<<first>>)] = first /\ <<first>> \in Seq(Entry)
      BY <1>5
    <3>3. QED BY <1>5, <3>1, <3>2 DEF Consistent, StatusAfter, PastApproval
  <2>3. QED BY <2>1, <2>2
<1>8. ASSUME NEW p \in Ops PROVE RowSound(p)'
  <2>1. CASE p = o
    BY <1>1, <1>4, <1>7, <2>1 DEF RowSound, PastApproval
  <2>2. CASE p # o
    BY <1>1, <1>4, <2>2 DEF IInv, RowSound
  <2>3. QED BY <2>1, <2>2
<1>9. \A t \in Txns : TxnSound(t)'
  BY <1>1, <1>4, TxnStaysSound DEF IInv
<1>10. row' \in [Ops -> Row]
  BY <1>1, <1>6 DEF IInv, PersistentTypeOK
<1>11. PersistentTypeOK'
  BY <1>1, <1>4, <1>9, <1>10 DEF IInv, PersistentTypeOK
<1>12. CallsFollowCommittedApproval'
  BY <1>1 DEF IInv, CallsFollowCommittedApproval
<1>13. QED BY <1>1, <1>8, <1>9, <1>11, <1>12 DEF IInv

(* A transaction that has checked a row holds a sound change of it, and    *)
(* nothing else moves.                                                     *)
LEMMA CheckIInv ==
  ASSUME IInv, NEW t \in Txns, NEW o \in Ops, NEW change, row[o].status # "absent",
         ChangeSound(o, change), Check(t, o, change)
  PROVE  IInv'
<1>1. /\ txn' = [txn EXCEPT ![t] = [pc |-> "checked", op |-> o, change |-> change]]
      /\ disturbed' \in BOOLEAN
      /\ UNCHANGED <<info, row, calls, approved>>
  BY DEF Check, IInv, PersistentTypeOK
<1>2. DOMAIN txn' = Txns
      /\ \A s \in Txns : txn'[s] = IF s = t THEN [pc |-> "checked", op |-> o, change |-> change]
                                            ELSE txn[s]
  BY <1>1 DEF IInv
<1>3. ASSUME NEW s \in Txns PROVE TxnSound(s)'
  <2>1. CASE s = t
    BY <1>1, <1>2, <2>1 DEF TxnSound, ChangeSound
  <2>2. CASE s # t
    BY <1>1, <1>2, <2>2, TxnStaysSound DEF IInv
  <2>3. QED BY <2>1, <2>2
<1>4. PersistentTypeOK'
  BY <1>1, <1>3 DEF IInv, PersistentTypeOK
<1>5. QED BY <1>1, <1>2, <1>3, <1>4 DEF IInv, RowSound, CallsFollowCommittedApproval

(* A review that has passed its checks is sound, whoever reviews. *)
LEMMA ReviewIInv ==
  ASSUME IInv, NEW t \in Txns, NEW u \in Users, NEW o \in Ops, Review(t, u, o)
  PROVE  IInv'
<1>1. row[o].status = "pending_approval"
  BY DEF Review, CheckReject, CheckApprove
<1>2. row[o].audit_trail \in Seq(Entry)
  BY DEF IInv, PersistentTypeOK, Row
<1>3. ASSUME NEW mfa \in BOOLEAN, CheckApprove(t, u, o, mfa) PROVE IInv'
  <2> DEFINE e == LogEntry("approved", u, mfa)
             trail == Append(row[o].audit_trail, e)
             change == [status |-> "approved", approved_by |-> u, audit_trail |-> trail]
  <2>1. e \in Entry /\ e.event = "approved" /\ e.mfa = mfa
    BY DEF LogEntry, Entry, Events
  <2>2. info[o].requires_mfa => mfa
    BY <1>3 DEF CheckApprove
  <2>3. Consistent(info[o], "approved", trail)
    <3> HIDE DEF e
    <3> QED BY <1>2, <2>1, <2>2, TrailGrows DEF Consistent, StatusAfter
  <2>4. trail \in Seq(Entry)
    BY <2>3 DEF Consistent
  <2>5. Check(t, o, change)
    BY <1>3 DEF CheckApprove, Logged
  <2>6. ChangeSound(o, change)
    <3> HIDE DEF trail
    <3> QED BY <2>3, <2>4 DEF ChangeSound, Reviews
  <2>7. QED
    <3> HIDE DEF change
    <3> QED BY <1>1, <2>5, <2>6, CheckIInv
<1>4. ASSUME CheckReject(t, u, o) PROVE IInv'
  <2> DEFINE e == LogEntry("rejected", u, FALSE)
             trail == Append(row[o].audit_trail, e)
             change == [status |-> "rejected", approved_by |-> u, audit_trail |-> trail]
  <2>1. e \in Entry /\ e.event = "rejected"
    BY DEF LogEntry, Entry, Events
  <2>2. Consistent(info[o], "rejected", trail)
    <3> HIDE DEF e
    <3> QED BY <1>2, <2>1, TrailGrows DEF Consistent, StatusAfter, PastApproval
  <2>3. trail \in Seq(Entry)
    BY <2>2 DEF Consistent
  <2>4. Check(t, o, change)
    BY <1>4 DEF CheckReject, Logged
  <2>5. ChangeSound(o, change)
    <3> HIDE DEF trail
    <3> QED BY <2>2, <2>3 DEF ChangeSound, Reviews
  <2>6. QED
    <3> HIDE DEF change
    <3> QED BY <1>1, <2>4, <2>5, CheckIInv
<1>5. QED BY <1>3, <1>4 DEF Review

(* An execution starts from a committed approval, which its trail shows. *)
LEMMA CheckExecuteIInv ==
  ASSUME IInv, NEW t \in Txns, NEW o \in Ops, CheckExecute(t, o)
  PROVE  IInv'
<1> DEFINE e == LogEntry("execution_started", info[o].user, FALSE)
           trail == Append(row[o].audit_trail, e)
           change == [status |-> "executing", audit_trail |-> trail]
<1>1. row[o].status = "approved" /\ Check(t, o, change)
  BY DEF CheckExecute, Logged
<1>2. /\ info[o] \in Info /\ o \in approved
      /\ row[o].audit_trail \in Seq(Entry) /\ Shown(info[o], row[o].audit_trail)
  BY <1>1 DEF IInv, RowSound, Consistent, PastApproval
<1>3. e \in Entry /\ e.event = "execution_started"
  BY <1>2 DEF LogEntry, Entry, Events, Info
<1>4. Consistent(info[o], "executing", trail)
  <2> HIDE DEF e
  <2> QED BY <1>2, <1>3, TrailGrows DEF Consistent, StatusAfter
<1>5. trail \in Seq(Entry)
  BY <1>4 DEF Consistent
<1>6. ChangeSound(o, change)
  <2> HIDE DEF trail
  <2> QED BY <1>2, <1>4, <1>5 DEF ChangeSound, Executions
<1>7. QED
  <2> HIDE DEF change
  <2> QED BY <1>1, <1>6, CheckIInv

(* A transaction that flushes holds a sound version of its row, and        *)
(* nothing else moves except the calls for an operation that was approved. *)
LEMMA FlushedIInv ==
  ASSUME IInv, NEW t \in Txns, NEW pc \in {"calling", "flushed"}, NEW version,
         txn[t].op \in Ops, row[txn[t].op].status # "absent",
         VersionSound(txn[t].op, version), version.status = "executing" <=> pc = "calling",
         txn' = [txn EXCEPT ![t] = [pc |-> pc, op |-> txn[t].op, version |-> version]],
         UNCHANGED <<info, row, approved, disturbed>>,
         calls' \in [Ops -> 0 .. MaxCalls],
         \A o \in Ops : calls'[o] > 0 => calls[o] > 0 \/ o \in approved
  PROVE  IInv'
<1>1. DOMAIN txn' = Txns
      /\ \A s \in Txns : txn'[s] = IF s = t
                                   THEN [pc |-> pc, op |-> txn[t].op, version |-> version]
                                   ELSE txn[s]
  BY DEF IInv
<1>2. ASSUME NEW s \in Txns PROVE TxnSound(s)'
  <2>1. CASE s = t
    BY <1>1, <2>1 DEF TxnSound, VersionSound
  <2>2. CASE s # t
    BY <1>1, <2>2, TxnStaysSound DEF IInv
  <2>3. QED BY <2>1, <2>2
<1>3. PersistentTypeOK'
  <2>1. \A s \in Txns :
           \/ txn'[s] = IdleTxn
           \/ txn'[s].pc = "checked" /\ txn'[s].op \in Ops
           \/ txn'[s].pc \in {"calling", "flushed"} /\ txn'[s].op \in Ops
                /\ txn'[s].version \in Row
    BY <1>2 DEF TxnSound, VersionSound
  <2>2. QED BY <2>1 DEF IInv, PersistentTypeOK
<1>4. QED BY <1>1, <1>2, <1>3 DEF IInv, RowSound, CallsFollowCommittedApproval

(* A review writes its decision to the row it has locked. *)
LEMMA FlushReviewIInv ==
  ASSUME IInv, NEW t \in Txns, FlushReview(t)
  PROVE  IInv'
<1> DEFINE o == txn[t].op
<1>1. /\ txn[t].pc = "checked" /\ txn[t].change.status # "executing"
      /\ txn' = [txn EXCEPT ![t] = [pc |-> "flushed", op |-> o, version |-> Updated(t)]]
      /\ UNCHANGED <<info, row, approved, disturbed>> /\ UNCHANGED calls
  BY DEF FlushReview, Flush
<1>2. o \in Ops /\ row[o].status # "absent" /\ ChangeSound(o, txn[t].change)
  BY <1>1 DEF IInv, TxnSound, IdleTxn
<1>3. txn[t].change \in Reviews
  BY <1>1, <1>2 DEF ChangeSound, Executions
<1>4. row[o] \in Row
  BY <1>2 DEF IInv, PersistentTypeOK
<1>5. VersionSound(o, Updated(t)) /\ Updated(t).status # "executing"
  <2>1. Updated(t) \in Row /\ Updated(t).status = txn[t].change.status
        /\ Updated(t).audit_trail = txn[t].change.audit_trail
    BY <1>3, <1>4, UpdatedVersion
  <2>2. txn[t].change.status \in {"approved", "rejected"}
    BY <1>3 DEF Reviews
  <2>3. QED BY <1>2, <2>1, <2>2 DEF ChangeSound, VersionSound
<1>6. calls' \in [Ops -> 0 .. MaxCalls] /\ \A p \in Ops : calls'[p] > 0 => calls[p] > 0
  BY <1>1 DEF IInv, PersistentTypeOK
<1>7. QED BY <1>1, <1>2, <1>5, <1>6, FlushedIInv

(* A result, logged after the entries that show the approval. *)
LEMMA ResultSound ==
  ASSUME NEW o \in Ops, NEW version, VersionSound(o, version), version.status = "executing",
         info[o] \in Info, NEW success \in BOOLEAN
  PROVE  /\ VersionSound(o, WithResult(o, version, success))
         /\ WithResult(o, version, success).status # "executing"
<1> DEFINE e == ResultEntry(o, success)
           s == IF success THEN "completed" ELSE "failed"
           trail == Append(version.audit_trail, e)
           after == WithResult(o, version, success)
<1>1. /\ e \in Entry
      /\ e.event = IF success THEN "execution_completed" ELSE "execution_failed"
  BY DEF ResultEntry, LogEntry, Entry, Events, Info
<1>2. /\ version \in Row /\ version.audit_trail \in Seq(Entry)
      /\ Shown(info[o], version.audit_trail) /\ o \in approved
  BY DEF VersionSound, Consistent, PastApproval
<1>3. trail \in Seq(Entry) /\ trail[Len(trail)] = e /\ Shown(info[o], trail)
  <2> HIDE DEF e
  <2> QED BY <1>1, <1>2, TrailGrows
<1>4. Consistent(info[o], s, trail)
  <2> HIDE DEF e, trail
  <2> QED BY <1>1, <1>3 DEF Consistent, StatusAfter
<1>5. after \in Row /\ after.status = s /\ after.audit_trail = trail
  <2>1. after = [version EXCEPT !.status = s, !.audit_trail = trail]
    BY DEF WithResult
  <2> HIDE DEF e, trail, after
  <2>2. QED BY <1>2, <1>3, <2>1 DEF Row, Statuses
<1>6. VersionSound(o, after) /\ after.status # "executing"
  <2> HIDE DEF trail, after
  <2> QED BY <1>2, <1>4, <1>5 DEF VersionSound
<1>7. QED BY <1>6

(* The connector is called for an operation whose approval was committed. *)
LEMMA FlushExecuteIInv ==
  ASSUME IInv, NEW t \in Txns, FlushExecute(t)
  PROVE  IInv'
<1> DEFINE o == txn[t].op
<1>1. txn[t].pc = "checked" /\ txn[t].change.status = "executing"
  BY DEF FlushExecute
<1>2. o \in Ops /\ row[o].status # "absent" /\ ChangeSound(o, txn[t].change)
  BY <1>1 DEF IInv, TxnSound, IdleTxn
<1>3. txn[t].change \in Executions /\ o \in approved
  BY <1>1, <1>2 DEF ChangeSound, Reviews
<1>4. row[o] \in Row /\ info[o] \in Info
  BY <1>2 DEF IInv, PersistentTypeOK, RowSound
<1>5. VersionSound(o, Updated(t)) /\ Updated(t).status = "executing"
  <2>1. Updated(t) \in Row /\ Updated(t).status = txn[t].change.status
        /\ Updated(t).audit_trail = txn[t].change.audit_trail
    BY <1>3, <1>4, UpdatedVersion
  <2>2. QED BY <1>1, <1>2, <1>3, <2>1 DEF ChangeSound, VersionSound
<1>6. CASE info[o].connector \in Registered
  <2>1. /\ txn' = [txn EXCEPT ![t] = [pc |-> "calling", op |-> o, version |-> Updated(t)]]
        /\ UNCHANGED <<info, row, approved, disturbed>>
        /\ calls' = [calls EXCEPT ![o] = IF @ < MaxCalls THEN @ + 1 ELSE @]
    BY <1>6 DEF FlushExecute, Flush
  <2>2. calls' \in [Ops -> 0 .. MaxCalls] /\ \A p \in Ops : p # o => calls'[p] = calls[p]
    BY <2>1, <1>2 DEF IInv, PersistentTypeOK, MaxCalls
  <2>3. QED BY <1>2, <1>3, <1>5, <2>1, <2>2, FlushedIInv
<1>7. CASE info[o].connector \notin Registered
  <2> DEFINE version == WithResult(o, Updated(t), FALSE)
  <2>1. /\ txn' = [txn EXCEPT ![t] = [pc |-> "flushed", op |-> o, version |-> version]]
        /\ UNCHANGED <<info, row, approved, disturbed>> /\ UNCHANGED calls
    BY <1>7 DEF FlushExecute, Flush
  <2>2. VersionSound(o, version) /\ version.status # "executing"
    BY <1>2, <1>4, <1>5, ResultSound
  <2>3. calls' \in [Ops -> 0 .. MaxCalls] /\ \A p \in Ops : calls'[p] > 0 => calls[p] > 0
    BY <2>1 DEF IInv, PersistentTypeOK
  <2> HIDE DEF version
  <2>4. QED BY <1>2, <2>1, <2>2, <2>3, FlushedIInv
<1>8. QED BY <1>6, <1>7

(* The connector has answered the request that waited for it. *)
LEMMA AnswerIInv ==
  ASSUME IInv, NEW t \in Txns, NEW success \in BOOLEAN, Answer(t, success)
  PROVE  IInv'
<1> DEFINE o == txn[t].op
           version == WithResult(o, txn[t].version, success)
<1>1. /\ txn[t].pc = "calling"
      /\ txn' = [txn EXCEPT ![t] = [pc |-> "flushed", op |-> o, version |-> version]]
      /\ UNCHANGED <<info, row, approved, disturbed>> /\ UNCHANGED calls
  BY DEF Answer
<1>2. /\ o \in Ops /\ row[o].status # "absent"
      /\ VersionSound(o, txn[t].version) /\ txn[t].version.status = "executing"
  BY <1>1 DEF IInv, TxnSound, IdleTxn
<1>3. info[o] \in Info
  BY <1>2 DEF IInv, RowSound
<1>4. VersionSound(o, version) /\ version.status # "executing"
  BY <1>2, <1>3, ResultSound
<1>5. calls' \in [Ops -> 0 .. MaxCalls] /\ \A p \in Ops : calls'[p] > 0 => calls[p] > 0
  BY <1>1 DEF IInv, PersistentTypeOK
<1> HIDE DEF version
<1>6. QED BY <1>1, <1>2, <1>4, <1>5, FlushedIInv

(* A commit writes a sound version over whatever the row has become. *)
LEMMA CommitIInv ==
  ASSUME IInv, NEW t \in Txns, Commit(t)
  PROVE  IInv'
<1> DEFINE o == txn[t].op
           version == txn[t].version
<1>1. /\ txn[t].pc = "flushed"
      /\ row' = [row EXCEPT ![o] = version]
      /\ approved' = IF version.status = "approved" THEN approved \cup {o} ELSE approved
      /\ txn' = [txn EXCEPT ![t] = IdleTxn]
      /\ UNCHANGED <<info, calls, disturbed>>
  BY DEF Commit
<1>2. /\ o \in Ops /\ row[o].status # "absent"
      /\ VersionSound(o, version) /\ version.status # "executing"
  BY <1>1 DEF IInv, TxnSound, IdleTxn
<1>3. version \in Row /\ Consistent(info[o], version.status, version.audit_trail)
      /\ version.status # "absent"
  BY <1>2 DEF VersionSound, Consistent
<1>4. row' \in [Ops -> Row] /\ \A p \in Ops : row'[p] = IF p = o THEN version ELSE row[p]
  BY <1>1, <1>3 DEF IInv, PersistentTypeOK
<1>5. ASSUME NEW p \in Ops PROVE RowSound(p)'
  <2>1. CASE p = o
    BY <1>1, <1>2, <1>3, <1>4, <2>1 DEF IInv, RowSound, VersionSound, PastApproval
  <2>2. CASE p # o
    BY <1>1, <1>4, <2>2 DEF IInv, RowSound
  <2>3. QED BY <2>1, <2>2
<1>6. DOMAIN txn' = Txns /\ \A s \in Txns : txn'[s] = IF s = t THEN IdleTxn ELSE txn[s]
  BY <1>1 DEF IInv
<1>7. ASSUME NEW s \in Txns PROVE TxnSound(s)'
  <2>1. CASE s = t
    BY <1>6, <2>1 DEF TxnSound
  <2>2. CASE s # t
    BY <1>1, <1>3, <1>4, <1>6, <2>2, TxnStaysSound DEF IInv
  <2>3. QED BY <2>1, <2>2
<1>8. approved \subseteq approved' /\ approved' \subseteq Ops
  BY <1>1, <1>2 DEF IInv, PersistentTypeOK
<1>9. PersistentTypeOK'
  BY <1>1, <1>4, <1>7, <1>8 DEF IInv, PersistentTypeOK
<1>10. CallsFollowCommittedApproval'
  BY <1>1, <1>8 DEF IInv, CallsFollowCommittedApproval
<1>11. QED BY <1>5, <1>6, <1>7, <1>9, <1>10 DEF IInv

(* A rollback or a crash takes back everything but the calls. *)
LEMMA AbortIInv ==
  ASSUME IInv, NEW t \in Txns, Abort(t)
  PROVE  IInv'
<1>1. txn' = [txn EXCEPT ![t] = IdleTxn] /\ disturbed' = TRUE
      /\ UNCHANGED <<info, row, calls, approved>>
  BY DEF Abort
<1>2. DOMAIN txn' = Txns /\ \A s \in Txns : txn'[s] = IF s = t THEN IdleTxn ELSE txn[s]
  BY <1>1 DEF IInv
<1>3. ASSUME NEW s \in Txns PROVE TxnSound(s)'
  <2>1. CASE s = t
    BY <1>2, <2>1 DEF TxnSound
  <2>2. CASE s # t
    BY <1>1, <1>2, <2>2, TxnStaysSound DEF IInv
  <2>3. QED BY <2>1, <2>2
<1>4. PersistentTypeOK'
  BY <1>1, <1>3 DEF IInv, PersistentTypeOK
<1>5. QED BY <1>1, <1>2, <1>3, <1>4 DEF IInv, RowSound, CallsFollowCommittedApproval

(* Transactions, their failures and crashes keep the invariant. *)
LEMMA NextIInv == IInv /\ [PersistentNext]_pvars => IInv'
<1> SUFFICES ASSUME IInv, [PersistentNext]_pvars PROVE IInv'
  OBVIOUS
<1>1. CASE PersistentNext
  BY <1>1, ProposeIInv, ReviewIInv, CheckExecuteIInv, FlushReviewIInv, FlushExecuteIInv,
    AnswerIInv, CommitIInv, AbortIInv DEF PersistentNext, NoFailureNext, Submit, Proceed
<1>2. CASE UNCHANGED pvars
  <2>1. UNCHANGED <<info, row, txn, calls, approved, disturbed>>
    BY <1>2 DEF pvars
  <2>2. \A t \in Txns : TxnSound(t)'
    BY <2>1, TxnStaysSound DEF IInv
  <2>3. QED BY <2>1, <2>2 DEF IInv, PersistentTypeOK, RowSound,
              CallsFollowCommittedApproval
<1>3. QED BY <1>1, <1>2

(* The inductive invariant holds in every reachable state. *)
LEMMA Invariance == PersistentSpec => []IInv
BY InitIInv, NextIInv, PTL DEF PersistentSpec

-----------------------------------------------------------------------------
(* However transactions cross, roll back and crash, a committed row never  *)
(* mixes the halves of two decisions: its status is the one its trail ends *)
(* in, and past approval the trail shows the approval it rests on.         *)
THEOREM LostUpdatesLoseWholeDecisions == PersistentSpec => []CommittedRowsAreSound
<1>1. IInv => CommittedRowsAreSound
  <2> SUFFICES ASSUME IInv PROVE CommittedRowsAreSound
    OBVIOUS
  <2>1. CommittedRowsAreConsistent
    BY DEF IInv, RowSound, Consistent, Shown, PastApproval, CommittedRowsAreConsistent
  <2>2. QED BY <2>1 DEF IInv, CommittedRowsAreSound
<1>2. QED BY <1>1, Invariance, PTL

(* No connector is called for an operation whose approval was never        *)
(* committed, whatever has happened to the row since it was read.          *)
THEOREM CallsAreApproved == PersistentSpec => []CallsFollowCommittedApproval
<1>1. IInv => CallsFollowCommittedApproval
  BY DEF IInv
<1>2. QED BY <1>1, Invariance, PTL
-----------------------------------------------------------------------------
(* As long as requests came one at a time and committed, one transaction   *)
(* at most is open, what it has decided still fits its row, and a call has *)
(* been made only for an operation that has got past its approval.         *)
Alone == \A s, t \in Txns : txn[s].pc # "idle" /\ txn[t].pc # "idle" => s = t

DecisionFits ==
  \A t \in Txns : txn[t].pc = "checked" =>
    row[txn[t].op].status = IF txn[t].change.status = "executing" THEN "approved"
                                                                 ELSE "pending_approval"

CallsAreCurrent ==
  \A o \in Ops : calls[o] > 0 => Current(o).status \in {"executing", "completed", "failed"}

Serial == Alone /\ DecisionFits /\ CallsAreCurrent

SerialIInv == IInv /\ (~disturbed => Serial)

(* The life cycle's view of the table, as Lifecycle instantiates it. *)
PhaseOf == [o \in Ops |-> Phase(Current(o).status)]

Holding(x, o) == x.pc \in {"calling", "flushed"} /\ x.op = o

(* With nobody but t under way, what the next reader finds is what t has   *)
(* flushed, or else the row.                                               *)
LEMMA OneHolder ==
  ASSUME NEW f, NEW r, NEW o, NEW t \in Txns, \A s \in Txns \ {t} : f[s].pc = "idle"
  PROVE  (IF \E s \in Txns : Holding(f[s], o)
          THEN (f[CHOOSE s \in Txns : Holding(f[s], o)]).version ELSE r[o])
         = IF Holding(f[t], o) THEN f[t].version ELSE r[o]
<1>1. \A s \in Txns : Holding(f[s], o) => s = t
  BY DEF Holding
<1>2. CASE Holding(f[t], o)
  <2>1. (CHOOSE s \in Txns : Holding(f[s], o)) = t
    BY <1>1, <1>2
  <2>2. QED BY <1>2, <2>1
<1>3. CASE ~Holding(f[t], o)
  BY <1>1, <1>3
<1>4. QED BY <1>2, <1>3

(* The row the life cycle is read from while one transaction is open. *)
LEMMA CurrentBefore ==
  ASSUME NEW t \in Txns, \A s \in Txns \ {t} : txn[s].pc = "idle", NEW o
  PROVE  Current(o) = IF Holding(txn[t], o) THEN txn[t].version ELSE row[o]
<1>1. Current(o) = IF \E s \in Txns : Holding(txn[s], o)
                   THEN (txn[CHOOSE s \in Txns : Holding(txn[s], o)]).version ELSE row[o]
  BY DEF Current, Locked, Holds, Holding
<1>2. QED BY <1>1, OneHolder

(* The row the life cycle is read from after it is closed. *)
LEMMA CurrentAfter ==
  ASSUME NEW t \in Txns, \A s \in Txns \ {t} : txn'[s].pc = "idle", NEW o
  PROVE  Current(o)' = IF Holding(txn'[t], o) THEN txn'[t].version ELSE row'[o]
<1>1. Current(o)' = IF \E s \in Txns : Holding(txn'[s], o)
                    THEN (txn'[CHOOSE s \in Txns : Holding(txn'[s], o)]).version ELSE row'[o]
  BY DEF Current, Locked, Holds, Holding
<1>2. QED BY <1>1, OneHolder

(* The phase a status stands for. *)
LEMMA Phases ==
  /\ Phase("absent") = "absent" /\ Phase("pending_approval") = "pending"
  /\ Phase("approved") = "approved" /\ Phase("rejected") = "rejected"
  /\ Phase("executing") = "executing"
  /\ Phase("completed") = "finished" /\ Phase("failed") = "finished"
BY DEF Phase

(* One operation that changes its status changes its phase, and no other   *)
(* operation does.                                                         *)
LEMMA PhaseMoves ==
  ASSUME NEW o \in Ops, NEW s,
         \A p \in Ops : Current(p)'.status = IF p = o THEN s ELSE Current(p).status
  PROVE  PhaseOf' = [PhaseOf EXCEPT ![o] = Phase(s)]
BY DEF PhaseOf

(* A step that leaves the current row alone is none of the life cycle. *)
LEMMA PhaseStays ==
  ASSUME \A p \in Ops : Current(p)'.status = Current(p).status
  PROVE  PhaseOf' = PhaseOf
BY DEF PhaseOf

-----------------------------------------------------------------------------
Follows == [Lifecycle!LifecycleNext]_(Lifecycle!lvars)

(* A proposal submits a new operation. *)
LEMMA ProposeSerial ==
  ASSUME IInv, Serial, NEW u \in Users, NEW o \in Ops, NEW c \in Connectors,
         NEW risk \in RiskLevels, ProposeRow(u, o, c, risk)
  PROVE  Serial' /\ Follows
<1> DEFINE s == IF risk = "low" THEN "approved" ELSE "pending_approval"
<1>1. /\ row[o].status = "absent" /\ UNCHANGED <<txn, calls, disturbed>>
      /\ row'[o].status = s /\ \A p \in Ops \ {o} : row'[p] = row[p]
  BY DEF ProposeRow, IInv, PersistentTypeOK
<1>2. \A t \in Txns : txn[t].pc # "idle" => txn[t].op \in Ops /\ row[txn[t].op].status # "absent"
  BY DEF IInv, TxnSound, IdleTxn
<1>3. \A p \in Ops : Locked(p) => p # o
  BY <1>1, <1>2 DEF Locked, Holds
<1>4. \A p \in Ops : Locked(p)' = Locked(p)
  BY <1>1 DEF Locked, Holds
<1>5. \A p \in Ops : Current(p)' = IF p = o THEN row'[o] ELSE Current(p)
  BY <1>1, <1>3, <1>4 DEF Current, Holds
<1>6. Current(o) = row[o]
  BY <1>3 DEF Current
<1>7. calls[o] \in Nat /\ ~(calls[o] > 0)
  BY <1>1, <1>6 DEF IInv, PersistentTypeOK, Serial, CallsAreCurrent
<1>8. Serial'
  BY <1>1, <1>2, <1>5, <1>7 DEF Serial, Alone, DecisionFits, CallsAreCurrent
<1>9. PhaseOf' = [PhaseOf EXCEPT ![o] = Phase(s)]
  BY <1>1, <1>5, PhaseMoves
<1>10. PhaseOf[o] = "absent" /\ Phase(s) \in {"pending", "approved"}
  BY <1>1, <1>6, Phases DEF PhaseOf
<1> HIDE DEF s
<1>11. Lifecycle!Submit(o)
  BY <1>1, <1>9, <1>10 DEF Lifecycle!Submit, PhaseOf
<1>12. QED BY <1>8, <1>11 DEF Lifecycle!LifecycleNext, Follows

(* A request that has checked its row has not moved it. *)
LEMMA CheckSerial ==
  ASSUME IInv, Serial, NEW t \in Txns, NEW o \in Ops, NEW change, Check(t, o, change), ~disturbed',
         row[o].status = IF change.status = "executing" THEN "approved" ELSE "pending_approval"
  PROVE  Serial' /\ Follows
<1>1. /\ \A s \in Txns : txn[s].pc = "idle"
      /\ txn' = [txn EXCEPT ![t] = [pc |-> "checked", op |-> o, change |-> change]]
      /\ UNCHANGED <<info, row, calls, approved>>
  BY DEF Check
<1>2. /\ txn'[t] = [pc |-> "checked", op |-> o, change |-> change]
      /\ \A s \in Txns \ {t} : txn'[s] = txn[s]
  BY <1>1 DEF IInv
<1>3. \A p \in Ops : Current(p)' = Current(p)
  <2> SUFFICES ASSUME NEW p \in Ops PROVE Current(p)' = Current(p)
    OBVIOUS
  <2>1. Current(p) = row[p]
    BY <1>1, CurrentBefore DEF Holding
  <2>2. Current(p)' = row'[p]
    BY <1>1, <1>2, CurrentAfter DEF Holding
  <2>3. QED BY <1>1, <2>1, <2>2
<1>4. Serial'
  BY <1>1, <1>2, <1>3 DEF Serial, Alone, DecisionFits, CallsAreCurrent
<1>5. PhaseOf' = PhaseOf
  BY <1>3, PhaseStays
<1>6. QED BY <1>1, <1>4, <1>5 DEF Follows, Lifecycle!lvars, PhaseOf

(* What a flush or an answer does to the table its readers see. *)
LEMMA FlushMoves ==
  ASSUME IInv, Alone, NEW t \in Txns, txn[t].pc # "idle",
         NEW pc \in {"calling", "flushed"}, NEW version,
         txn' = [txn EXCEPT ![t] = [pc |-> pc, op |-> txn[t].op, version |-> version]],
         UNCHANGED <<info, row, approved, disturbed>>
  PROVE  /\ Alone' /\ DecisionFits'
         /\ Current(txn[t].op) = IF txn[t].pc = "checked" THEN row[txn[t].op] ELSE txn[t].version
         /\ \A p \in Ops : Current(p)' = IF p = txn[t].op THEN version ELSE Current(p)
         /\ PhaseOf' = [PhaseOf EXCEPT ![txn[t].op] = Phase(version.status)]
<1> DEFINE o == txn[t].op
<1>1. o \in Ops /\ txn[t].pc \in {"checked", "calling", "flushed"}
  BY DEF IInv, TxnSound, IdleTxn
<1>2. /\ \A s \in Txns \ {t} : txn[s].pc = "idle" /\ txn'[s] = txn[s]
      /\ txn'[t] = [pc |-> pc, op |-> o, version |-> version]
  BY DEF IInv, Alone
<1>3. \A p \in Ops : Current(p) = IF Holding(txn[t], p) THEN txn[t].version ELSE row[p]
  BY <1>2, CurrentBefore
<1>4. \A p \in Ops : Current(p)' = IF Holding(txn'[t], p) THEN txn'[t].version ELSE row'[p]
  BY <1>2, CurrentAfter
<1>5. Current(o) = IF txn[t].pc = "checked" THEN row[o] ELSE txn[t].version
  BY <1>1, <1>3 DEF Holding
<1>6. \A p \in Ops : Current(p)' = IF p = o THEN version ELSE Current(p)
  BY <1>1, <1>2, <1>3, <1>4 DEF Holding
<1>7. Alone' /\ DecisionFits'
  BY <1>2 DEF Alone, DecisionFits
<1> HIDE DEF o
<1>8. PhaseOf' = [PhaseOf EXCEPT ![o] = Phase(version.status)]
  BY <1>1, <1>6, PhaseMoves
<1>9. QED BY <1>5, <1>6, <1>7, <1>8 DEF o

(* The first flush of a review decides a pending operation. *)
LEMMA FlushReviewSerial ==
  ASSUME IInv, Serial, NEW t \in Txns, FlushReview(t)
  PROVE  Serial' /\ Follows
<1> DEFINE o == txn[t].op
           s == txn[t].change.status
<1>1. /\ txn[t].pc = "checked" /\ s # "executing"
      /\ txn' = [txn EXCEPT ![t] = [pc |-> "flushed", op |-> txn[t].op, version |-> Updated(t)]]
      /\ UNCHANGED <<info, row, approved, disturbed>> /\ UNCHANGED calls
  BY DEF FlushReview, Flush
<1>2. o \in Ops /\ ChangeSound(o, txn[t].change) /\ row[o].status = "pending_approval"
  BY <1>1 DEF IInv, TxnSound, IdleTxn, Serial, DecisionFits
<1>3. txn[t].change \in Reviews /\ row[o] \in Row
  BY <1>1, <1>2 DEF ChangeSound, Executions, IInv, PersistentTypeOK
<1>4. Updated(t).status = s /\ s \in {"approved", "rejected"}
  BY <1>3, UpdatedVersion DEF Reviews
<1>5. /\ Alone' /\ DecisionFits'
      /\ Current(o) = row[o]
      /\ \A p \in Ops : Current(p)' = IF p = o THEN Updated(t) ELSE Current(p)
      /\ PhaseOf' = [PhaseOf EXCEPT ![o] = Phase(s)]
  <2>1. txn[t].pc # "idle" /\ Alone
    BY <1>1 DEF Serial
  <2>2. /\ Alone' /\ DecisionFits'
        /\ Current(txn[t].op) = IF txn[t].pc = "checked" THEN row[txn[t].op] ELSE txn[t].version
        /\ \A p \in Ops : Current(p)' = IF p = txn[t].op THEN Updated(t) ELSE Current(p)
        /\ PhaseOf' = [PhaseOf EXCEPT ![txn[t].op] = Phase(Updated(t).status)]
    BY <1>1, <2>1, FlushMoves
  <2>3. QED BY <1>1, <1>4, <2>2
<1>6. calls[o] \in Nat /\ ~(calls[o] > 0)
  BY <1>2, <1>5 DEF IInv, PersistentTypeOK, Serial, CallsAreCurrent
<1>7. Serial'
  BY <1>1, <1>5, <1>6 DEF Serial, CallsAreCurrent
<1>8. PhaseOf[o] = "pending"
  BY <1>2, <1>5, Phases DEF PhaseOf
<1> HIDE DEF o, s
<1>9. CASE s = "approved"
  <2>1. PhaseOf' = [PhaseOf EXCEPT ![o] = "approved"]
    BY <1>5, <1>9, Phases
  <2>2. Lifecycle!Accept(o)
    BY <1>1, <1>8, <2>1 DEF Lifecycle!Accept, PhaseOf
  <2>3. QED BY <1>2, <1>7, <2>2 DEF Lifecycle!LifecycleNext, Follows
<1>10. CASE s = "rejected"
  <2>1. PhaseOf' = [PhaseOf EXCEPT ![o] = "rejected"]
    BY <1>5, <1>10, Phases
  <2>2. PhaseOf' = [p \in Ops |-> IF p \in {o} THEN "rejected" ELSE PhaseOf[p]]
    BY <2>1 DEF PhaseOf
  <2>3. Lifecycle!Deny({o})
    BY <1>1, <1>8, <2>2 DEF Lifecycle!Deny, PhaseOf
  <2>4. QED BY <1>2, <1>7, <2>3 DEF Lifecycle!LifecycleNext, Follows
<1>11. QED BY <1>4, <1>9, <1>10

(* The first flush of an execution begins it, once, or fails it. *)
LEMMA FlushExecuteSerial ==
  ASSUME IInv, Serial, NEW t \in Txns, FlushExecute(t)
  PROVE  Serial' /\ Follows
<1> DEFINE o == txn[t].op
<1>1. txn[t].pc = "checked" /\ txn[t].change.status = "executing"
  BY DEF FlushExecute
<1>2. o \in Ops /\ ChangeSound(o, txn[t].change) /\ row[o].status = "approved"
  BY <1>1 DEF IInv, TxnSound, IdleTxn, Serial, DecisionFits
<1>3. txn[t].change \in Executions /\ row[o] \in Row
  BY <1>1, <1>2 DEF ChangeSound, Reviews, IInv, PersistentTypeOK
<1>4. Updated(t).status = "executing"
  BY <1>1, <1>3, UpdatedVersion
<1>5. CASE info[o].connector \in Registered
  <2>1. /\ txn' = [txn EXCEPT ![t] = [pc |-> "calling", op |-> txn[t].op, version |-> Updated(t)]]
        /\ UNCHANGED <<info, row, approved, disturbed>>
        /\ calls' = [calls EXCEPT ![o] = IF @ < MaxCalls THEN @ + 1 ELSE @]
    BY <1>5 DEF FlushExecute, Flush
  <2>2. /\ Alone' /\ DecisionFits'
        /\ Current(o) = row[o]
        /\ \A p \in Ops : Current(p)' = IF p = o THEN Updated(t) ELSE Current(p)
        /\ PhaseOf' = [PhaseOf EXCEPT ![o] = Phase("executing")]
    <3>1. txn[t].pc # "idle" /\ Alone
      BY <1>1, <2>1 DEF Serial
    <3>2. /\ Alone' /\ DecisionFits'
          /\ Current(txn[t].op) = IF txn[t].pc = "checked" THEN row[txn[t].op] ELSE txn[t].version
          /\ \A p \in Ops : Current(p)' = IF p = txn[t].op THEN Updated(t) ELSE Current(p)
          /\ PhaseOf' = [PhaseOf EXCEPT ![txn[t].op] = Phase(Updated(t).status)]
      BY <1>1, <2>1, <3>1, FlushMoves
    <3>3. QED BY <1>1, <1>4, <2>1, <3>2
  <2>3. calls[o] = 0
    BY <1>2, <2>2 DEF IInv, PersistentTypeOK, Serial, CallsAreCurrent
  <2>4. calls' = [calls EXCEPT ![o] = @ + 1]
    BY <1>2, <2>1, <2>3 DEF IInv, PersistentTypeOK, MaxCalls
  <2>5. Serial'
    BY <1>2, <1>4, <2>2, <2>4 DEF Serial, CallsAreCurrent, IInv, PersistentTypeOK
  <2>6. PhaseOf[o] = "approved" /\ PhaseOf' = [PhaseOf EXCEPT ![o] = "executing"]
    BY <1>2, <2>2, Phases DEF PhaseOf
  <2> HIDE DEF o
  <2>7. Lifecycle!Begin(o)
    BY <2>4, <2>6 DEF Lifecycle!Begin, PhaseOf
  <2>8. QED BY <1>2, <2>5, <2>7 DEF Lifecycle!LifecycleNext, Follows
<1>6. CASE info[o].connector \notin Registered
  <2> DEFINE version == WithResult(o, Updated(t), FALSE)
  <2>1. /\ txn' = [txn EXCEPT ![t] = [pc |-> "flushed", op |-> txn[t].op, version |-> version]]
        /\ UNCHANGED <<info, row, approved, disturbed>> /\ UNCHANGED calls
    BY <1>6 DEF FlushExecute, Flush
  <2>2. version.status = "failed"
    <3>1. Updated(t) \in Row
      BY <1>3, UpdatedVersion
    <3>2. QED BY <3>1 DEF WithResult, Row
  <2> HIDE DEF version
  <2>3. /\ Alone' /\ DecisionFits'
        /\ Current(o) = row[o]
        /\ \A p \in Ops : Current(p)' = IF p = o THEN version ELSE Current(p)
        /\ PhaseOf' = [PhaseOf EXCEPT ![o] = Phase("failed")]
    <3>1. txn[t].pc # "idle" /\ Alone
      BY <1>1, <2>1 DEF Serial
    <3>2. /\ Alone' /\ DecisionFits'
          /\ Current(txn[t].op) = IF txn[t].pc = "checked" THEN row[txn[t].op] ELSE txn[t].version
          /\ \A p \in Ops : Current(p)' = IF p = txn[t].op THEN version ELSE Current(p)
          /\ PhaseOf' = [PhaseOf EXCEPT ![txn[t].op] = Phase(version.status)]
      BY <1>1, <2>1, <3>1, FlushMoves
    <3>3. QED BY <1>1, <2>1, <2>2, <3>2
  <2>4. Serial'
    BY <2>1, <2>2, <2>3 DEF Serial, CallsAreCurrent
  <2>5. PhaseOf[o] = "approved" /\ PhaseOf' = [PhaseOf EXCEPT ![o] = "finished"]
    BY <1>2, <2>3, Phases DEF PhaseOf
  <2> HIDE DEF o
  <2>6. Lifecycle!FailUnserved(o)
    BY <2>1, <2>5 DEF Lifecycle!FailUnserved, PhaseOf
  <2>7. QED BY <1>2, <2>4, <2>6 DEF Lifecycle!LifecycleNext, Follows
<1>7. QED BY <1>5, <1>6

(* The answer of the connector ends the operation. *)
LEMMA AnswerSerial ==
  ASSUME IInv, Serial, NEW t \in Txns, NEW success \in BOOLEAN, Answer(t, success)
  PROVE  Serial' /\ Follows
<1> DEFINE o == txn[t].op
           version == WithResult(o, txn[t].version, success)
           s == IF success THEN "completed" ELSE "failed"
<1>1. /\ txn[t].pc = "calling"
      /\ txn' = [txn EXCEPT ![t] = [pc |-> "flushed", op |-> txn[t].op, version |-> version]]
      /\ UNCHANGED <<info, row, approved, disturbed>> /\ UNCHANGED calls
  BY DEF Answer
<1>2. o \in Ops /\ VersionSound(o, txn[t].version) /\ txn[t].version.status = "executing"
  BY <1>1 DEF IInv, TxnSound, IdleTxn
<1>3. version.status = s
  BY <1>2 DEF WithResult, VersionSound, Row
<1> HIDE DEF version
<1>4. /\ Alone' /\ DecisionFits'
      /\ Current(o) = txn[t].version
      /\ \A p \in Ops : Current(p)' = IF p = o THEN version ELSE Current(p)
      /\ PhaseOf' = [PhaseOf EXCEPT ![o] = Phase(s)]
  <2>1. txn[t].pc # "idle" /\ Alone
    BY <1>1 DEF Serial
  <2>2. /\ Alone' /\ DecisionFits'
        /\ Current(txn[t].op) = IF txn[t].pc = "checked" THEN row[txn[t].op] ELSE txn[t].version
        /\ \A p \in Ops : Current(p)' = IF p = txn[t].op THEN version ELSE Current(p)
        /\ PhaseOf' = [PhaseOf EXCEPT ![txn[t].op] = Phase(version.status)]
    BY <1>1, <2>1, FlushMoves
  <2>3. QED BY <1>1, <1>3, <2>2
<1>5. Serial'
  BY <1>1, <1>3, <1>4 DEF Serial, CallsAreCurrent
<1>6. PhaseOf[o] = "executing" /\ Phase(s) = "finished"
  BY <1>2, <1>4, Phases DEF PhaseOf
<1> HIDE DEF o, s
<1>7. Lifecycle!End(o)
  <2>1. PhaseOf' = [PhaseOf EXCEPT ![o] = "finished"]
    BY <1>4, <1>6
  <2>2. QED BY <1>1, <1>6, <2>1 DEF Lifecycle!End, PhaseOf
<1>8. QED BY <1>2, <1>5, <1>7 DEF Lifecycle!LifecycleNext, Follows

(* A commit shows everybody what its readers would have waited for. *)
LEMMA CommitSerial ==
  ASSUME IInv, Serial, NEW t \in Txns, Commit(t)
  PROVE  Serial' /\ Follows
<1> DEFINE o == txn[t].op
<1>1. /\ txn[t].pc = "flushed"
      /\ row' = [row EXCEPT ![o] = txn[t].version]
      /\ txn' = [txn EXCEPT ![t] = IdleTxn]
      /\ UNCHANGED <<info, calls, disturbed>>
  BY DEF Commit
<1>2. o \in Ops
  BY <1>1 DEF IInv, TxnSound, IdleTxn
<1>3. /\ \A s \in Txns \ {t} : txn[s].pc = "idle" /\ txn'[s] = txn[s]
      /\ txn'[t] = IdleTxn
  BY <1>1 DEF IInv, Serial, Alone
<1>4. \A p \in Ops : row'[p] = IF p = o THEN txn[t].version ELSE row[p]
  BY <1>1 DEF IInv, PersistentTypeOK
<1>5. ASSUME NEW p \in Ops PROVE Current(p)' = Current(p)
  <2>1. Current(p) = IF Holding(txn[t], p) THEN txn[t].version ELSE row[p]
    BY <1>3, CurrentBefore
  <2>2. Current(p)' = IF Holding(txn'[t], p) THEN txn'[t].version ELSE row'[p]
    BY <1>3, CurrentAfter
  <2>3. Holding(txn[t], p) <=> p = o
    BY <1>1 DEF Holding
  <2>4. ~Holding(txn'[t], p)
    BY <1>3 DEF Holding, IdleTxn
  <2>5. QED BY <1>4, <2>1, <2>2, <2>3, <2>4
<1>6. Serial'
  BY <1>1, <1>3, <1>5 DEF Serial, Alone, DecisionFits, CallsAreCurrent, IdleTxn
<1>7. PhaseOf' = PhaseOf
  BY <1>5, PhaseStays
<1>8. QED BY <1>1, <1>6, <1>7 DEF Follows, Lifecycle!lvars, PhaseOf

(* A step of requests that come one at a time and commit is a step of the  *)
(* life cycle, or invisible.                                               *)
LEMMA SerialStep ==
  ASSUME IInv, Serial, [PersistentNext]_pvars, ~disturbed'
  PROVE  Serial' /\ Follows
<1>1. ASSUME NEW t \in Txns, NEW u \in Users, NEW o \in Ops, Review(t, u, o)
      PROVE  Serial' /\ Follows
  <2>1. ASSUME CheckReject(t, u, o) PROVE Serial' /\ Follows
    <3> DEFINE change == [status |-> "rejected", approved_by |-> u,
                          audit_trail |-> Logged(o, "rejected", u, FALSE)]
    <3>1. row[o].status = "pending_approval" /\ Check(t, o, change)
          /\ change.status = "rejected"
      BY <2>1 DEF CheckReject
    <3> HIDE DEF change
    <3>2. QED BY <3>1, CheckSerial
  <2>2. ASSUME NEW mfa \in BOOLEAN, CheckApprove(t, u, o, mfa) PROVE Serial' /\ Follows
    <3> DEFINE change == [status |-> "approved", approved_by |-> u,
                          audit_trail |-> Logged(o, "approved", u, mfa)]
    <3>1. row[o].status = "pending_approval" /\ Check(t, o, change)
          /\ change.status = "approved"
      BY <2>2 DEF CheckApprove
    <3> HIDE DEF change
    <3>2. QED BY <3>1, CheckSerial
  <2>3. QED BY <1>1, <2>1, <2>2 DEF Review
<1>2. ASSUME NEW t \in Txns, NEW o \in Ops, CheckExecute(t, o) PROVE Serial' /\ Follows
  <2> DEFINE change == [status |-> "executing",
                        audit_trail |-> Logged(o, "execution_started", info[o].user, FALSE)]
  <2>1. row[o].status = "approved" /\ Check(t, o, change) /\ change.status = "executing"
    BY <1>2 DEF CheckExecute
  <2> HIDE DEF change
  <2>2. QED BY <2>1, CheckSerial
<1>3. CASE PersistentNext
  <2>1. \A t \in Txns : ~Abort(t)
    BY DEF Abort
  <2>2. QED BY <1>1, <1>2, <1>3, <2>1, ProposeSerial, FlushReviewSerial, FlushExecuteSerial,
          AnswerSerial, CommitSerial DEF PersistentNext, NoFailureNext, Submit, Proceed
<1>4. CASE UNCHANGED pvars
  <2>1. UNCHANGED <<info, row, txn, calls, approved, disturbed>>
    BY <1>4 DEF pvars
  <2>2. \A p \in Ops : Current(p)' = Current(p)
    BY <2>1 DEF Current, Locked, Holds
  <2>3. Serial'
    BY <2>1, <2>2 DEF Serial, Alone, DecisionFits, CallsAreCurrent
  <2>4. PhaseOf' = PhaseOf
    BY <2>2, PhaseStays
  <2>5. QED BY <2>1, <2>3, <2>4 DEF Follows, Lifecycle!lvars, PhaseOf
<1>5. QED BY <1>3, <1>4

(* Nothing that has disturbed the requests is forgotten. *)
LEMMA DisturbedStays ==
  ASSUME [PersistentNext]_pvars, disturbed
  PROVE  disturbed'
BY DEF PersistentNext, NoFailureNext, Submit, Review, Proceed, ProposeRow, CheckReject,
  CheckApprove, CheckExecute, Check, FlushReview, FlushExecute, Flush, Answer, Commit, Abort, pvars

(* At the beginning nothing has been read, called or disturbed. *)
LEMMA SerialInit == PersistentInit => SerialIInv /\ Lifecycle!LifecycleInit
<1> SUFFICES ASSUME PersistentInit PROVE SerialIInv /\ Lifecycle!LifecycleInit
  OBVIOUS
<1>1. \A t \in Txns : txn[t].pc = "idle"
  BY DEF PersistentInit, IdleTxn
<1>2. \A o \in Ops : Current(o).status = "absent"
  BY <1>1 DEF PersistentInit, Current, Locked, Holds, NoRow
<1>3. Serial
  BY <1>1 DEF Serial, Alone, DecisionFits, CallsAreCurrent, PersistentInit
<1>4. Lifecycle!LifecycleInit
  BY <1>2, Phases DEF Lifecycle!LifecycleInit, PersistentInit
<1>5. QED BY <1>3, <1>4, InitIInv DEF SerialIInv

(* Requests that come one at a time and commit take the operations of the  *)
(* shared table through the same life cycle as the in-memory executor:     *)
(* decided once, called at most once, ended once.  The first crossing, the *)
(* first rollback or crash ends the promise.                               *)
THEOREM SerialRequestsFollowLifecycle == PersistentSpec => SerialImplementsLifecycle
<1>1. SerialIInv /\ [PersistentNext]_pvars => SerialIInv'
  <2> SUFFICES ASSUME SerialIInv, [PersistentNext]_pvars PROVE SerialIInv'
    OBVIOUS
  <2>1. IInv'
    BY NextIInv DEF SerialIInv
  <2>2. ~disturbed' => ~disturbed
    BY DisturbedStays
  <2>3. ~disturbed' => Serial'
    BY <2>2, SerialStep DEF SerialIInv
  <2>4. QED BY <2>1, <2>3 DEF SerialIInv
<1>2. SerialIInv /\ [PersistentNext]_pvars =>
        [disturbed' \/ Lifecycle!LifecycleNext]_<<PhaseOf, calls>>
  <2> SUFFICES ASSUME SerialIInv, [PersistentNext]_pvars, ~disturbed'
               PROVE  [disturbed' \/ Lifecycle!LifecycleNext]_<<PhaseOf, calls>>
    OBVIOUS
  <2>1. ~disturbed
    BY DisturbedStays
  <2>2. Follows
    BY <2>1, SerialStep DEF SerialIInv
  <2>3. QED BY <2>2 DEF Follows, Lifecycle!lvars, PhaseOf
<1>3. QED BY <1>1, <1>2, SerialInit, PTL
          DEF PersistentSpec, SerialImplementsLifecycle, PhaseOf
=============================================================================
