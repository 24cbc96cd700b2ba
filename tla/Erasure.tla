------------------------------ MODULE Erasure -------------------------------
(***************************************************************************)
(* The GDPRService: the erasure and the export of what is known about one  *)
(* user, who may be using the system in the meantime.  Each reads table by *)
(* table and sees, in each, what has been committed by then.               *)
(***************************************************************************)
EXTENDS Naturals, Sequences, FiniteSets

CONSTANTS
  Turns,        \* sessions of the user: one turn of a chat each
  Erasers,      \* process_erasure_request(), in sessions of their own
  AuditLimit,   \* the audit entries an export takes at most: a thousand
  MaxRequests   \* bound: data subject requests created

ASSUME ErasureAssumption == AuditLimit \in Nat /\ MaxRequests \in Nat

(* A turn writes messages, a memory of the agent and audit entries, and    *)
(* the conversation if it is the first; the rows of the table "memories"   *)
(* are written by no session of the user.                                  *)
Tables == {"conversations", "messages", "audit", "agent_memories"}

(* The tables an erasure and an export read, in this order.                *)
Order == <<"conversations", "messages", "audit">>

VARIABLES
  account,    \* the row of the user
  turn,       \* its sessions
  first,      \* the turn that began the conversation of each
  stored,     \* the rows of each turn in each table
  eraser,     \* an erasure: the next table to read, and what it has read
  export,     \* an export likewise, and whether the user was erased when it began
  pending,    \* rows of gdpr_requests
  addressed,  \* the audit entries that quote the address of the user
  late        \* history: rows written after the last erasure had read their table

erasureVars == <<account, turn, first, stored, eraser, export, pending, addressed, late>>

Idle == [pc |-> 0]

ErasureInit ==
  /\ account = [email |-> "own", active |-> TRUE]
  /\ turn = [t \in Turns |-> "none"]
  /\ first = [t \in Turns |-> t]
  /\ stored = [t \in Turns |-> [b \in Tables |-> "none"]]
  /\ eraser = [e \in Erasers |-> Idle]
  /\ export = Idle
  /\ pending = 0 /\ addressed = {} /\ late = {}

RowsOf(b) == {t \in Turns : stored[t][b] # "none"}

(* get_current_user(): an inactive account is refused, once.  The turn     *)
(* begins a conversation or goes on with one that is there.                *)
OpenTurn(t) ==
  /\ turn[t] = "none" /\ account.active
  /\ turn' = [turn EXCEPT ![t] = "open"]
  /\ \E f \in RowsOf("conversations") \cup {t} : first' = [first EXCEPT ![t] = f]
  /\ UNCHANGED <<account, stored, eraser, export, pending, addressed, late>>

(* The erasure e will not come upon a row of t in the table b: it does not *)
(* read the table, it has read it, or it has read the conversations and    *)
(* looks for the messages of those that were there.                        *)
PassesBy(e, t, b) ==
  /\ eraser[e] # Idle
  /\ \/ b = "agent_memories" \/ b \in DOMAIN eraser[e].seen
     \/ /\ b = "messages" /\ "conversations" \in DOMAIN eraser[e].seen
        /\ first[t] \notin eraser[e].seen["conversations"]

RowWritten(t, b) == IF b = "conversations" /\ first[t] # t THEN "none" ELSE "personal"

CommitTurn(t) ==
  /\ turn[t] = "open"
  /\ turn' = [turn EXCEPT ![t] = "committed"]
  /\ stored' = [stored EXCEPT ![t] = [b \in Tables |-> RowWritten(t, b)]]
  /\ late' = late \cup {<<t, b>> : b \in {c \in Tables :
       ~account.active \/ \E e \in Erasers : PassesBy(e, t, c)}}
  /\ UNCHANGED <<account, first, eraser, export, pending, addressed>>

(* create_request() audits the address; nothing completes the request.  It *)
(* shares no row with the sessions and is not interleaved with them.       *)
CreateRequest ==
  /\ pending < MaxRequests
  /\ \A t \in Turns : turn[t] = "committed"
  /\ \A e \in Erasers : eraser[e] = Idle
  /\ export = Idle
  /\ pending' = pending + 1
  /\ addressed' = addressed \cup {"request"}
  /\ UNCHANGED <<account, turn, first, stored, eraser, export, late>>

-----------------------------------------------------------------------------
(* The subject is looked for by its address. *)
BeginErasure(e) ==
  /\ eraser[e] = Idle /\ account.email = "own"
  /\ eraser' = [eraser EXCEPT ![e] = [pc |-> 1, seen |-> <<>>]]
  /\ UNCHANGED <<account, turn, first, stored, export, pending, addressed, late>>

(* What a reader of the tables finds in the next: of the messages, those   *)
(* of the conversations it has found.                                      *)
Finds(b, seen) == {t \in RowsOf(b) : b = "messages" => first[t] \in seen["conversations"]}

(* With one more table read. *)
AndSeen(seen, b, rows) == [c \in {b} \cup DOMAIN seen |-> IF c = b THEN rows ELSE seen[c]]

(* The session flushes what it has changed before it queries again: by the *)
(* messages it holds the locks of the conversations, and another erasure   *)
(* of them waits until it ends.                                            *)
Unlocked(e) ==
  \A f \in Erasers \ {e} :
    eraser[f].pc > 2 => eraser[f].seen["conversations"] \cap eraser[e].seen["conversations"] = {}

ReadTable(e) ==
  /\ eraser[e] # Idle /\ eraser[e].pc \in DOMAIN Order
  /\ eraser[e].pc = 2 => Unlocked(e)
  /\ LET b == Order[eraser[e].pc]
         seen == eraser[e].seen
     IN eraser' = [eraser EXCEPT ![e] = [pc |-> @.pc + 1, seen |-> AndSeen(seen, b, Finds(b, seen))]]
  /\ UNCHANGED <<account, turn, first, stored, export, pending, addressed, late>>

(* The last flush takes the lock of the user. *)
FlushErasure(e) ==
  /\ eraser[e] # Idle /\ eraser[e].pc = Len(Order) + 1
  /\ \A f \in Erasers : eraser[f].pc <= Len(Order) + 1
  /\ eraser' = [eraser EXCEPT ![e].pc = @ + 1]
  /\ UNCHANGED <<account, turn, first, stored, export, pending, addressed, late>>

(* Mutant of Redacted: the audit entries are kept as they are. *)
RedactedMessages(t, b, seen) ==
  IF b = "messages" /\ t \in seen[b] THEN "redacted" ELSE stored[t][b]

Redacted(t, b, seen) ==
  IF b \in DOMAIN seen /\ t \in seen[b] THEN "redacted" ELSE stored[t][b]

CommitErasure(e) ==
  /\ eraser[e] # Idle /\ eraser[e].pc = Len(Order) + 2
  /\ eraser' = [eraser EXCEPT ![e] = Idle]
  /\ stored' = [t \in Turns |-> [b \in Tables |-> Redacted(t, b, eraser[e].seen)]]
  /\ account' = [email |-> "redacted", active |-> FALSE]
  /\ addressed' = addressed \cup {"erasure"}
  /\ UNCHANGED <<turn, first, export, pending, late>>

AbortErasure(e) ==
  /\ eraser[e] # Idle
  /\ eraser' = [eraser EXCEPT ![e] = Idle]
  /\ UNCHANGED <<account, turn, first, stored, export, pending, addressed, late>>

-----------------------------------------------------------------------------
(* process_access_request(), and the portability request that wraps it.    *)
BeginExport ==
  /\ export = Idle \/ export.pc = Len(Order) + 1
  /\ export' = [pc |-> 1, data |-> <<>>, before |-> RowsOf("messages"), known |-> account.email = "own"]
  /\ UNCHANGED <<account, turn, first, stored, eraser, pending, addressed, late>>

(* Of the audit entries the most recent ones, up to the limit; the order   *)
(* of their times is not that of the commits.                              *)
Takes(b, seen) ==
  IF b # "audit" THEN {Finds(b, seen)}
  ELSE {rows \in SUBSET RowsOf(b) :
          \/ rows = RowsOf(b) /\ Cardinality(rows) <= AuditLimit
          \/ rows # RowsOf(b) /\ Cardinality(rows) = AuditLimit}

ExportTable ==
  /\ export # Idle /\ export.pc \in DOMAIN Order
  /\ LET b == Order[export.pc] IN
     IF export.known
     THEN \E rows \in Takes(b, export.data) :
            export' = [export EXCEPT !.pc = @ + 1, !.data = AndSeen(@, b, rows)]
     ELSE export' = [export EXCEPT !.pc = @ + 1]
  /\ UNCHANGED <<account, turn, first, stored, eraser, pending, addressed, late>>

ErasureNext ==
  \/ CreateRequest \/ BeginExport \/ ExportTable
  \/ \E t \in Turns : OpenTurn(t) \/ CommitTurn(t)
  \/ \E e \in Erasers : BeginErasure(e) \/ ReadTable(e) \/ FlushErasure(e) \/ CommitErasure(e) \/ AbortErasure(e)

ErasureSpec == ErasureInit /\ [][ErasureNext]_erasureVars

-----------------------------------------------------------------------------
(* Once a user is erased, what is left of it in conversations, messages    *)
(* and audit entries was written by sessions that had been let in before,  *)
(* after the erasure had read the table; or is a message in a conversation *)
(* that was begun after it had read the conversations.                     *)
ErasureReachesAll ==
  account.email = "redacted" =>
    \A t \in Turns : \A b \in {"conversations", "messages", "audit"} :
      stored[t][b] = "personal" => <<t, b>> \in late

(* An export has every turn that had been committed when it began, the     *)
(* conversation of every message, and the audit entries of the turns or as *)
(* many as it may have; and nothing of a user that was erased by then.     *)
ExportIsComplete ==
  export # Idle =>
    \A b \in DOMAIN export.data :
      /\ export.known
      /\ b = "messages" => export.before \subseteq export.data[b]
      /\ b = "messages" => \A t \in export.data[b] : first[t] \in export.data["conversations"]
      /\ b = "audit" => export.before \subseteq export.data[b] \/ Cardinality(export.data[b]) = AuditLimit

(* A request stays pending, and the address stays in the audit trail.      *)
ErasureIsSound == ErasureReachesAll /\ ExportIsComplete
=============================================================================
