------------------------------ MODULE ChatTurns ------------------------------
(***************************************************************************)
(* Chat turns over REST and over WebSockets.  AgentRuntime.chat() loads    *)
(* the history, asks the model, and stores question and answer in the      *)
(* database session it is given; the session is committed by               *)
(* get_db_session.  A REST request has a session of its own; a WebSocket   *)
(* keeps one from the handshake to the disconnect, so its turns stay       *)
(* uncommitted, and the conversation rows they have updated stay locked,   *)
(* as long as the socket is open.                                          *)
(*                                                                         *)
(* A message the rate limiter, the permission check or the validation      *)
(* turns down changes nothing here.                                        *)
(***************************************************************************)
EXTENDS Naturals, FiniteSets

CONSTANTS
  Conversations,
  Sessions,    \* database sessions of REST requests and sockets
  Sockets,     \* the sessions that belong to a WebSocket
  UsedBy,      \* the conversations the client of each session writes to
  MaxHistory,  \* _MAX_HISTORY
  MaxTurns,    \* bound: turns begun
  MaxFaults    \* bound: failures of the model or the database, and stops

ASSUME ChatAssumption ==
  /\ Sockets \subseteq Sessions
  /\ UsedBy \in [Sessions -> SUBSET Conversations]
  /\ MaxHistory \in Nat \ {0} /\ MaxTurns \in Nat /\ MaxFaults \in Nat

VARIABLES
  messages,    \* the messages table, as committed
  session,     \* what each session is doing and has not committed
  turns,       \* number of turns begun; numbers them
  faults,      \* number of faults, for the bound
  owed,        \* history: turns whose answer the client has got, and no fault took away
  overlapped   \* history: a turn began next to another or to uncommitted ones

chatVars == <<messages, session, turns, faults, owed, overlapped>>

(* A session between turns: uncommitted messages, locked conversations, and *)
(* whether the database or SQLAlchemy refuses to go on with it.             *)
Idle(pending, locks, broken) ==
  [pc |-> "idle", pending |-> pending, locks |-> locks, broken |-> broken]

(* A session whose turn is at the model. *)
Asking(k, turn, number, pending, locks, broken) ==
  [pc |-> "asking", conversation |-> k, turn |-> turn, number |-> number,
   pending |-> pending, locks |-> locks, broken |-> broken]

Fresh == Idle({}, {}, FALSE)

Turn(s) == session[s].turn

Message(s, role, number) ==
  [conversation |-> session[s].conversation, turn |-> Turn(s), by |-> s,
   role |-> role, number |-> number]

ChatInit ==
  /\ messages = {}
  /\ session = [s \in Sessions |-> Fresh]
  /\ turns = 0 /\ faults = 0
  /\ owed = {}
  /\ overlapped = FALSE

Fault == faults < MaxFaults /\ faults' = faults + 1

-----------------------------------------------------------------------------
(* Mutant of Visible: the session does not see what it has not committed. *)
VisibleCommitted(s, k) == {m \in messages : m.conversation = k}

(* A query flushes the session first and sees its own messages. *)
Visible(s, k) == {m \in messages \cup session[s].pending : m.conversation = k}

(* Mutant of HistoryLength: the whole conversation is loaded. *)
WholeLength(s, k) == Cardinality(Visible(s, k))

(* The length of the history: it is cut at MaxHistory. *)
HistoryLength(s, k) ==
  LET visible == Cardinality(Visible(s, k)) IN IF visible > MaxHistory THEN MaxHistory ELSE visible

(* chat() to the model call: the question gets the number after the        *)
(* length of the history.                                                  *)
Ask(s, k) ==
  LET number == HistoryLength(s, k) + 1
      question == [conversation |-> k, turn |-> turns + 1, by |-> s, role |-> "user", number |-> number]
  IN
  /\ session[s].pc = "idle" /\ ~session[s].broken
  /\ turns < MaxTurns
  /\ turns' = turns + 1
  /\ session' = [session EXCEPT ![s] =
       Asking(k, turns + 1, number, @.pending \cup {question}, @.locks, FALSE)]
  /\ overlapped' = (overlapped \/ \E o \in Sessions \ {s} : session[o] # Fresh)
  /\ UNCHANGED <<messages, owed, faults>>

(* The turns a fault takes away with the uncommitted messages of s. *)
Forgotten(s) == {m.turn : m \in session[s].pending}

(* A retrieval query fails in the database.  chat() goes on, but the       *)
(* transaction is aborted: its rows and locks are gone.                    *)
RetrievalFails(s) ==
  /\ Fault
  /\ session[s].pc = "asking" /\ ~session[s].broken
  /\ session' = [session EXCEPT ![s] = Asking(@.conversation, @.turn, @.number, {}, {}, TRUE)]
  /\ owed' = owed \ Forgotten(s)
  /\ UNCHANGED <<messages, turns, overlapped>>

ModelAnswers(s) ==
  /\ session[s].pc = "asking"
  /\ session' = [session EXCEPT ![s].pc = "storing"]
  /\ UNCHANGED <<messages, turns, owed, overlapped, faults>>

(* What an exception of the turn leaves: a request rolls back, a socket     *)
(* only sends an error event and goes on.                                   *)
AfterError(s) ==
  IF s \in Sockets THEN Idle(session[s].pending, session[s].locks, session[s].broken) ELSE Fresh

(* Mutant of ModelFails: the request answers with the error instead of     *)
(* raising it, and its session is committed.                               *)
ModelFailsQuietly(s) ==
  /\ Fault
  /\ session[s].pc = "asking"
  /\ session' = [session EXCEPT ![s] = AfterError(s)]
  /\ messages' = IF s \in Sockets THEN messages ELSE messages \cup session[s].pending
  /\ UNCHANGED <<turns, owed, overlapped>>

(* Mutant of ModelFails: a socket rolls its session back. *)
ModelFailsRollingBack(s) ==
  /\ Fault
  /\ session[s].pc = "asking"
  /\ session' = [session EXCEPT ![s] = Fresh]
  /\ UNCHANGED <<messages, turns, owed, overlapped>>

(* An LLMError, or any other exception, at the model call. *)
ModelFails(s) ==
  /\ Fault
  /\ session[s].pc = "asking"
  /\ session' = [session EXCEPT ![s] = AfterError(s)]
  /\ UNCHANGED <<messages, turns, owed, overlapped>>

Blocks(o, s) == o # s /\ session[s].conversation \in session[o].locks

(* The session of s with the answer flushed. *)
Stored(s, number) ==
  LET pending == session[s].pending \cup {Message(s, "assistant", number)}
      locks == session[s].locks \cup {session[s].conversation}
  IN
  IF s \in Sockets
  THEN Idle(pending, locks, FALSE)
  ELSE [session[s] EXCEPT !.pc = "closing", !.pending = pending, !.locks = locks]

(* Mutant of Store: the answer is numbered after the messages there are. *)
StoreRenumbered(s) ==
  LET k == session[s].conversation IN
  /\ session[s].pc = "storing" /\ ~session[s].broken
  /\ \A o \in Sessions : ~Blocks(o, s)
  /\ session' = [session EXCEPT ![s] = Stored(s, Cardinality(Visible(s, k)) + 1)]
  /\ owed' = IF s \in Sockets THEN owed \cup {Turn(s)} ELSE owed
  /\ UNCHANGED <<messages, turns, overlapped, faults>>

(* The flush of question, answer and conversation.updated_at: the UPDATE   *)
(* waits for the row lock and keeps it.  A socket sends the answer now.    *)
Store(s) ==
  /\ session[s].pc = "storing" /\ ~session[s].broken
  /\ \A o \in Sessions : ~Blocks(o, s)
  /\ session' = [session EXCEPT ![s] = Stored(s, session[s].number + 1)]
  /\ owed' = IF s \in Sockets THEN owed \cup {Turn(s)} ELSE owed
  /\ UNCHANGED <<messages, turns, overlapped, faults>>

(* Mutant of Deadlocked: nothing looks for cycles. *)
NeverDeadlocked(s) == FALSE

(* s waits in a cycle of row locks. *)
Deadlocked(s) ==
  \E C \in SUBSET Sessions :
    /\ s \in C
    /\ \A c \in C : session[c].pc = "storing" /\ \E o \in C : Blocks(o, c)

(* The flush fails, in an aborted transaction or as the database's victim  *)
(* of a deadlock.  The session of a socket is not rolled back, and stays   *)
(* unusable until the disconnect.                                          *)
StoreFails(s) ==
  /\ session[s].pc = "storing"
  /\ session[s].broken \/ Deadlocked(s)
  /\ session' = [session EXCEPT ![s] =
       IF s \in Sockets THEN Idle({}, {}, TRUE) ELSE Fresh]
  /\ owed' = owed \ Forgotten(s)
  /\ UNCHANGED <<messages, turns, overlapped, faults>>

(* The request has been handled, or the socket disconnected (which it only *)
(* notices between turns): get_db_session commits.                         *)
Ended(s) == session[s] # Fresh /\ session[s].pc = IF s \in Sockets THEN "idle" ELSE "closing"

Commit(s) ==
  /\ Ended(s)
  /\ messages' = messages \cup session[s].pending
  /\ session' = [session EXCEPT ![s] = Fresh]
  /\ owed' = IF s \in Sockets THEN owed ELSE owed \cup {Turn(s)}
  /\ UNCHANGED <<turns, overlapped, faults>>

(* The commit fails: a connection is lost, or a background task that was   *)
(* given the session (_check_goal_progress) is using it.                   *)
CommitFails(s) ==
  /\ Fault
  /\ Ended(s)
  /\ session' = [session EXCEPT ![s] = Fresh]
  /\ owed' = owed \ Forgotten(s)
  /\ UNCHANGED <<messages, turns, overlapped>>

(* The process stops: every task is cancelled, every session rolled back. *)
Stop ==
  /\ Fault
  /\ \E s \in Sessions : session[s] # Fresh
  /\ session' = [s \in Sessions |-> Fresh]
  /\ owed' = owed \ UNION {Forgotten(s) : s \in Sessions}
  /\ UNCHANGED <<messages, turns, overlapped>>

TurnStep(s) ==
  ModelAnswers(s) \/ ModelFails(s) \/ Store(s) \/ StoreFails(s) \/ Commit(s) \/ CommitFails(s)

ChatNext ==
  \/ \E s \in Sessions : (\E k \in UsedBy[s] : Ask(s, k)) \/ RetrievalFails(s) \/ TurnStep(s)
  \/ Stop

ChatSpec == ChatInit /\ [][ChatNext]_chatVars

(* The model call has a timeout, and sockets are closed at last. *)
FairChatSpec == ChatSpec /\ \A s \in Sessions : WF_chatVars(TurnStep(s))

-----------------------------------------------------------------------------
MessageRows ==
  [conversation : Conversations, turn : 1 .. MaxTurns, by : Sessions,
   role : {"user", "assistant"}, number : 1 .. MaxHistory + 2]

(* Every variable holds values of the shape the code gives it. *)
ChatTypeOK ==
  /\ messages \subseteq MessageRows
  /\ turns \in 0 .. MaxTurns /\ faults \in 0 .. MaxFaults
  /\ owed \subseteq 1 .. turns
  /\ overlapped \in BOOLEAN
  /\ \A s \in Sessions :
       /\ session[s].pc \in {"idle", "asking", "storing", "closing"}
       /\ session[s].pending \subseteq MessageRows
       /\ session[s].locks \subseteq Conversations

(* Whatever runs next to a turn, fails or stops: an answer is stored only  *)
(* with its question, and its number is the next one.                      *)
AnswersFollowQuestions ==
  \A m \in messages : m.role = "assistant" =>
    \E q \in messages : q.role = "user" /\ q.turn = m.turn /\ m.number = q.number + 1

(* A REST request stores a whole turn or nothing of it. *)
RequestsStoreWholeTurns ==
  \A m \in messages : m.by \notin Sockets => Cardinality({n \in messages : n.turn = m.turn}) = 2

(* Whatever overlaps, fails or is rolled back, what is stored are turns:   *)
(* whole ones from a request, ones whose answer has its question from a    *)
(* socket.                                                                 *)
StoredTurnsAreSound == ChatTypeOK /\ AnswersFollowQuestions /\ RequestsStoreWholeTurns

(* An answer the client has got is stored, or waits in the session of an   *)
(* open socket, unless a fault of the database or a stop took it.          *)
AnswersAreKept ==
  \A t \in owed :
    \E m \in messages \cup UNION {session[s].pending : s \in Sessions} :
      m.turn = t /\ m.role = "assistant"

(* As long as turns do not overlap, a conversation not longer than the     *)
(* history is numbered from 1 without gaps, in the order of its turns.     *)
ShortConversationsAreNumbered ==
  \A s \in Sessions, k \in Conversations :
    LET rows == Visible(s, k) IN
    ~overlapped /\ Cardinality(rows) <= MaxHistory =>
      /\ {m.number : m \in rows} = 1 .. Cardinality(rows)
      /\ \A m, n \in rows : m.turn < n.turn => m.number < n.number

(* Every turn ends, even if it waits for the row of a conversation another *)
(* session has updated, or several wait for each other.                    *)
EveryTurnEnds == \A s \in Sessions : session[s].pc = "storing" ~> session[s].pc # "storing"

(* "Sequence number for ordering within a conversation (monotonically      *)
(* increasing)": a later turn has the greater numbers.                     *)
NumbersIncrease ==
  \A m, n \in messages :
    m.conversation = n.conversation /\ m.turn < n.turn => m.number < n.number
=============================================================================
