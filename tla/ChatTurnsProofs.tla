--------------------------- MODULE ChatTurnsProofs ---------------------------
(***************************************************************************)
(* Proofs about chat turns: what the messages table holds and what of it   *)
(* a client can rely on, for any number of sessions, sockets and           *)
(* conversations, and any bound on the history.                            *)
(***************************************************************************)
EXTENDS ChatTurns, FiniteSetTheorems, TLAPS

-----------------------------------------------------------------------------
(* The inductive invariant.                                                *)

IdleSessions ==
  [pc : {"idle"}, pending : SUBSET MessageRows, locks : SUBSET Conversations, broken : BOOLEAN]

BusySessions ==
  [pc : {"asking", "storing", "closing"}, conversation : Conversations, turn : 1 .. MaxTurns,
   number : 1 .. MaxHistory + 1,
   pending : SUBSET MessageRows, locks : SUBSET Conversations, broken : BOOLEAN]

Question(x, s) ==
  [conversation |-> x.conversation, turn |-> x.turn, by |-> s, role |-> "user", number |-> x.number]

AnswerTo(x, s) ==
  [conversation |-> x.conversation, turn |-> x.turn, by |-> s, role |-> "assistant", number |-> x.number + 1]

(* Every answer among the rows has its question there. *)
Paired(rows) ==
  \A m \in rows : m.role = "assistant" =>
    \E q \in rows : q.role = "user" /\ q.turn = m.turn /\ m.number = q.number + 1

(* What session s may look like.  A session that is going to store an      *)
(* answer still has the question; a request has one turn and no more.      *)
Fits(x, s) ==
  /\ x \in IdleSessions \cup BusySessions
  /\ IsFiniteSet(x.pending)
  /\ \A m \in x.pending : m.by = s
  /\ Paired(x.pending)
  /\ x.pc \in {"asking", "storing"} /\ ~x.broken => Question(x, s) \in x.pending
  /\ x.pc \in {"asking", "storing"} => \A m \in x.pending : m.turn = x.turn => m.role = "user"
  /\ s \in Sockets => x.pc # "closing"
  /\ s \notin Sockets =>
       /\ x.pc = "idle" => x.pending = {}
       /\ x.pc \in {"asking", "storing"} => x.pending \subseteq {Question(x, s)}
       /\ x.pc = "closing" => x.pending = {Question(x, s), AnswerTo(x, s)}

SessionsFit ==
  /\ messages \subseteq MessageRows /\ IsFiniteSet(messages)
  /\ turns \in 0 .. MaxTurns /\ faults \in 0 .. MaxFaults
  /\ overlapped \in BOOLEAN
  /\ DOMAIN session = Sessions
  /\ \A s \in Sessions : Fits(session[s], s)

(* The turns that a session has not committed, the one it is at included. *)
TurnsOf(x) == {m.turn : m \in x.pending} \cup (IF x.pc = "idle" THEN {} ELSE {x.turn})

(* Turns are numbered once: no two sessions have the same, and none has    *)
(* one that is committed.                                                  *)
TurnsAreOwned ==
  /\ \A s \in Sessions : TurnsOf(session[s]) \subseteq 1 .. turns
  /\ \A s, o \in Sessions : s # o => TurnsOf(session[s]) \cap TurnsOf(session[o]) = {}
  /\ \A m \in messages : m.turn \in 1 .. turns /\ \A s \in Sessions : m.turn \notin TurnsOf(session[s])

OwedAreKept == owed \subseteq 1 .. turns /\ AnswersAreKept

Numbered(rows) ==
  Cardinality(rows) <= MaxHistory =>
    /\ {m.number : m \in rows} = 1 .. Cardinality(rows)
    /\ \A m, n \in rows : m.turn < n.turn => m.number < n.number

(* The rows of conversation k that a session with the given pending rows   *)
(* sees.                                                                   *)
Seen(pending, k) == {m \in messages \cup pending : m.conversation = k}

(* As long as nothing has overlapped, one session has all that is not      *)
(* committed, and it is at the last turn.                                  *)
NumberingHolds ==
  ~overlapped =>
    /\ \A s, o \in Sessions : s = o \/ session[s] = Fresh \/ session[o] = Fresh
    /\ \A k \in Conversations :
         Numbered(Seen({}, k)) /\ \A s \in Sessions : Numbered(Seen(session[s].pending, k))
    /\ \A s \in Sessions : session[s].pc \in {"asking", "storing"} /\ ~session[s].broken =>
         LET rows == Seen(session[s].pending, session[s].conversation) IN
         /\ session[s].turn = turns
         /\ Cardinality(rows) <= MaxHistory => session[s].number = Cardinality(rows)

ChatIInv ==
  /\ SessionsFit
  /\ TurnsAreOwned
  /\ AnswersFollowQuestions /\ RequestsStoreWholeTurns
  /\ OwedAreKept
  /\ NumberingHolds

-----------------------------------------------------------------------------
(* Sessions.                                                               *)

(* A session that is busy has a conversation, a turn and a number. *)
LEMMA BusyRecord ==
  ASSUME NEW s \in Sessions, NEW x, Fits(x, s), x.pc # "idle"
  PROVE  /\ x \in BusySessions
         /\ x.conversation \in Conversations /\ x.turn \in 1 .. MaxTurns
         /\ x.number \in 1 .. MaxHistory + 1 /\ x.turn \in TurnsOf(x)
  BY DEF Fits, IdleSessions, BusySessions, TurnsOf

(* Between turns a session has nothing but what it has not committed. *)
LEMMA IdleRecord ==
  ASSUME NEW s \in Sessions, NEW x, Fits(x, s), x.pc = "idle"
  PROVE  x = Idle(x.pending, x.locks, x.broken)
  BY DEF Fits, IdleSessions, BusySessions, Idle

(* A session that has nothing uncommitted fits. *)
LEMMA FreshFits ==
  ASSUME NEW s \in Sessions, NEW b \in BOOLEAN
  PROVE  Fits(Idle({}, {}, b), s) /\ TurnsOf(Idle({}, {}, b)) = {}
  BY FS_EmptySet DEF Fits, Idle, IdleSessions, Paired, TurnsOf

(* A step of one session disturbs the fit of no other. *)
LEMMA OneSessionFits ==
  ASSUME ChatAssumption, SessionsFit, NEW s \in Sessions, NEW x, NEW P \in SUBSET session[s].pending,
         session' = [session EXCEPT ![s] = x], Fits(x, s),
         messages' = messages \cup P,
         turns' \in 0 .. MaxTurns, faults' \in 0 .. MaxFaults, overlapped' \in BOOLEAN
  PROVE  SessionsFit'
<1>1. IsFiniteSet(messages')
  BY FS_Union, FS_Subset DEF SessionsFit, Fits
<1>2. messages' \subseteq MessageRows
  <2>1. session[s].pending \subseteq MessageRows
    BY DEF SessionsFit, Fits, IdleSessions, BusySessions
  <2>2. QED BY <2>1 DEF SessionsFit
<1>3. \A o \in Sessions : Fits(session'[o], o)
  BY DEF SessionsFit
<1>4. DOMAIN session' = Sessions
  BY DEF SessionsFit
<1>5. QED BY <1>1, <1>2, <1>3, <1>4 DEF SessionsFit

(* A step of one session that takes no turn but new ones, and commits only *)
(* messages of its own, keeps the turns apart.                             *)
LEMMA OneSessionOwns ==
  ASSUME SessionsFit, TurnsAreOwned, NEW s \in Sessions, NEW x, NEW P \in SUBSET session[s].pending,
         session' = [session EXCEPT ![s] = x],
         messages' = messages \cup P, \A m \in P : m.turn \notin TurnsOf(x),
         turns' \in Nat, turns' >= turns,
         TurnsOf(x) \subseteq TurnsOf(session[s]) \cup (turns + 1 .. turns')
  PROVE  TurnsAreOwned'
<1>0. turns \in Nat /\ DOMAIN session = Sessions
  BY DEF SessionsFit
<1>1. session'[s] = x /\ \A o \in Sessions : o # s => session'[o] = session[o]
  BY <1>0
<1>2. \A o \in Sessions : TurnsOf(session[o]) \subseteq 1 .. turns
  BY DEF TurnsAreOwned
<1>3. \A o \in Sessions : o # s => TurnsOf(session[s]) \cap TurnsOf(session[o]) = {}
  BY DEF TurnsAreOwned
<1>4. \A m \in P : m.turn \in TurnsOf(session[s])
  BY DEF TurnsOf
<1>5. \A o \in Sessions : TurnsOf(session'[o]) \subseteq 1 .. turns'
  <2>1. TurnsOf(x) \subseteq 1 .. turns'
    BY <1>0, <1>2
  <2>2. QED BY <1>0, <1>1, <1>2, <2>1
<1>6. \A o \in Sessions : o # s => TurnsOf(x) \cap TurnsOf(session[o]) = {}
  BY <1>0, <1>2, <1>3
<1>7. \A r, o \in Sessions : r # o => TurnsOf(session'[r]) \cap TurnsOf(session'[o]) = {}
  <2>1. \A r, o \in Sessions : r # s /\ o # s /\ r # o =>
          TurnsOf(session'[r]) \cap TurnsOf(session'[o]) = {}
    BY <1>1 DEF TurnsAreOwned
  <2>2. QED BY <1>1, <1>6, <2>1
<1>8. ASSUME NEW m \in messages'
      PROVE  m.turn \in 1 .. turns' /\ \A o \in Sessions : m.turn \notin TurnsOf(session'[o])
  <2>1. CASE m \in P
    BY <2>1, <1>0, <1>1, <1>2, <1>3, <1>4
  <2>2. CASE m \in messages
    <3>1. m.turn \in 1 .. turns /\ \A o \in Sessions : m.turn \notin TurnsOf(session[o])
      BY <2>2 DEF TurnsAreOwned
    <3>2. m.turn \notin TurnsOf(x)
      BY <1>0, <3>1
    <3>3. QED BY <1>0, <1>1, <3>1, <3>2
  <2>3. QED BY <2>1, <2>2
<1>9. QED BY <1>5, <1>7, <1>8 DEF TurnsAreOwned

(* A promised answer stays if its session keeps it or stores it. *)
LEMMA OneSessionKeeps ==
  ASSUME SessionsFit, OwedAreKept, NEW s \in Sessions, NEW x,
         session' = [session EXCEPT ![s] = x], messages \subseteq messages',
         turns' \in Nat, turns' >= turns,
         \A t \in owed' : t \in 1 .. turns /\
           \/ \E m \in messages' \cup x.pending : m.turn = t /\ m.role = "assistant"
           \/ t \in owed /\ \A m \in session[s].pending :
                m.turn = t /\ m.role = "assistant" => m \in messages' \cup x.pending
  PROVE  OwedAreKept'
<1>0. turns \in Nat /\ DOMAIN session = Sessions
  BY DEF SessionsFit
<1>1. session'[s] = x /\ \A o \in Sessions : o # s => session'[o] = session[o]
  BY <1>0
<1>2. ASSUME NEW t \in owed'
      PROVE  \E m \in messages' \cup UNION {session'[o].pending : o \in Sessions} :
               m.turn = t /\ m.role = "assistant"
  <2>1. CASE \E m \in messages' \cup x.pending : m.turn = t /\ m.role = "assistant"
    BY <1>1, <2>1
  <2>2. CASE t \in owed /\ \A m \in session[s].pending :
               m.turn = t /\ m.role = "assistant" => m \in messages' \cup x.pending
    <3>1. PICK m \in messages \cup UNION {session[o].pending : o \in Sessions} :
            m.turn = t /\ m.role = "assistant"
      BY <2>2 DEF OwedAreKept, AnswersAreKept
    <3>2. m \in messages' \cup UNION {session'[o].pending : o \in Sessions}
      BY <1>1, <2>2, <3>1
    <3>3. QED BY <3>1, <3>2
  <2>3. QED BY <2>1, <2>2
<1>3. owed' \subseteq 1 .. turns'
  BY <1>0
<1>4. QED BY <1>2, <1>3 DEF OwedAreKept, AnswersAreKept

-----------------------------------------------------------------------------
(* Numbers.                                                                *)

(* A row with the next number, of a turn that is not before any other,     *)
(* keeps a conversation numbered.                                          *)
LEMMA NextRow ==
  ASSUME MaxHistory \in Nat,
         NEW rows, IsFiniteSet(rows), \A m \in rows : m.turn \in Nat, Numbered(rows),
         NEW row, row \notin rows, row.turn \in Nat, \A m \in rows : m.turn <= row.turn,
         Cardinality(rows) + 1 <= MaxHistory => row.number = Cardinality(rows) + 1
  PROVE  /\ Cardinality(rows \cup {row}) = Cardinality(rows) + 1
         /\ Numbered(rows \cup {row})
<1> DEFINE n == Cardinality(rows)
           more == rows \cup {row}
<1>1. n \in Nat /\ Cardinality(more) = n + 1
  BY FS_AddElement, FS_CardinalityType
<1>2. SUFFICES ASSUME n + 1 <= MaxHistory
               PROVE  /\ {m.number : m \in more} = 1 .. n + 1
                      /\ \A m, o \in more : m.turn < o.turn => m.number < o.number
  <2>1. n + 1 <= MaxHistory =>
               /\ {m.number : m \in more} = 1 .. n + 1
               /\ \A m, o \in more : m.turn < o.turn => m.number < o.number
    BY <1>2
  <2>2. QED BY <1>1, <2>1 DEF Numbered
<1>3. {m.number : m \in rows} = 1 .. n /\ \A m, o \in rows : m.turn < o.turn => m.number < o.number
  BY <1>1, <1>2 DEF Numbered
<1>4. row.number = n + 1
  BY <1>2
<1>5. \A m \in rows : m.number \in 1 .. n
  BY <1>3
<1> HIDE DEF n
<1>6. {m.number : m \in more} = {m.number : m \in rows} \cup {row.number}
  BY Zenon
<1>7. {m.number : m \in more} = 1 .. n + 1
  BY <1>1, <1>3, <1>4, <1>6
<1>8. \A m, o \in more : m.turn < o.turn => m.number < o.number
  BY <1>1, <1>3, <1>4, <1>5
<1>9. QED BY <1>7, <1>8

(* What there is to know of a set of rows a session sees. *)
LEMMA SeenRows ==
  ASSUME ChatAssumption, SessionsFit, TurnsAreOwned, NEW s \in Sessions, NEW k
  PROVE  /\ IsFiniteSet(Seen(session[s].pending, k))
         /\ \A m \in Seen(session[s].pending, k) : m.turn \in Nat /\ m.turn <= turns
<1>0. turns \in Nat
  BY DEF SessionsFit
<1>1. IsFiniteSet(messages \cup session[s].pending)
  BY FS_Union DEF SessionsFit, Fits
<1>2. Seen(session[s].pending, k) \subseteq messages \cup session[s].pending
  BY DEF Seen
<1>3. IsFiniteSet(Seen(session[s].pending, k))
  BY <1>1, <1>2, FS_Subset
<1>4. \A m \in session[s].pending : m.turn \in 1 .. turns
  BY DEF TurnsAreOwned, TurnsOf
<1>5. \A m \in messages : m.turn \in 1 .. turns
  BY DEF TurnsAreOwned
<1>6. QED BY <1>0, <1>2, <1>3, <1>4, <1>5

(* A step of the one session that is not fresh, which leaves the messages  *)
(* and numbers what it adds.                                               *)
LEMMA OneSessionNumbers ==
  ASSUME SessionsFit, NumberingHolds, NEW s \in Sessions, NEW x,
         session' = [session EXCEPT ![s] = x], messages' = messages, overlapped => overlapped',
         ~overlapped' =>
           /\ \A o \in Sessions : o # s => session[o] = Fresh
           /\ \A k \in Conversations : Numbered(Seen(x.pending, k))
           /\ x.pc \in {"asking", "storing"} /\ ~x.broken =>
                /\ x.turn = turns'
                /\ Cardinality(Seen(x.pending, x.conversation)) <= MaxHistory =>
                     x.number = Cardinality(Seen(x.pending, x.conversation))
  PROVE  NumberingHolds'
<1>0. DOMAIN session = Sessions
  BY DEF SessionsFit
<1>1. session'[s] = x /\ \A o \in Sessions : o # s => session'[o] = session[o]
  BY <1>0
<1>2. \A P, k : Seen(P, k)' = Seen(P, k)
  BY DEF Seen
<1>3. Fresh.pending = {} /\ Fresh.pc = "idle"
  BY DEF Fresh, Idle
<1>4. ASSUME ~overlapped'
      PROVE  /\ \A r, o \in Sessions : r = o \/ session'[r] = Fresh \/ session'[o] = Fresh
             /\ \A k \in Conversations :
                  Numbered(Seen({}, k)) /\ \A o \in Sessions : Numbered(Seen(session'[o].pending, k))
             /\ \A o \in Sessions : session'[o].pc \in {"asking", "storing"} /\ ~session'[o].broken =>
                  /\ session'[o].turn = turns'
                  /\ Cardinality(Seen(session'[o].pending, session'[o].conversation)) <= MaxHistory =>
                       session'[o].number = Cardinality(Seen(session'[o].pending, session'[o].conversation))
  <2>1. \A k \in Conversations : Numbered(Seen({}, k))
    BY <1>4 DEF NumberingHolds
  <2>2. QED BY <1>1, <1>3, <1>4, <2>1
<1>5. QED BY <1>2, <1>4 DEF NumberingHolds, Seen

-----------------------------------------------------------------------------
(* Steps that commit nothing.                                              *)

(* A step of one session that commits nothing. *)
LEMMA UncommittedStep ==
  ASSUME ChatAssumption, ChatIInv, NEW s \in Sessions, NEW x,
         session' = [session EXCEPT ![s] = x], messages' = messages, Fits(x, s),
         turns' \in turns .. MaxTurns, faults' \in 0 .. MaxFaults,
         overlapped' \in BOOLEAN, overlapped => overlapped',
         TurnsOf(x) \subseteq TurnsOf(session[s]) \cup (turns + 1 .. turns'),
         \A t \in owed' : t \in 1 .. turns /\
           \/ \E m \in x.pending : m.turn = t /\ m.role = "assistant"
           \/ t \in owed /\ \A m \in session[s].pending :
                m.turn = t /\ m.role = "assistant" => m \in x.pending,
         ~overlapped' =>
           /\ \A o \in Sessions : o # s => session[o] = Fresh
           /\ \A k \in Conversations : Numbered(Seen(x.pending, k))
           /\ x.pc \in {"asking", "storing"} /\ ~x.broken =>
                /\ x.turn = turns'
                /\ Cardinality(Seen(x.pending, x.conversation)) <= MaxHistory =>
                     x.number = Cardinality(Seen(x.pending, x.conversation))
  PROVE  ChatIInv'
<1>0. turns \in 0 .. MaxTurns /\ MaxTurns \in Nat
  BY DEF ChatIInv, SessionsFit, ChatAssumption
<1>1. turns' \in 0 .. MaxTurns /\ turns' \in Nat /\ turns' >= turns
  BY <1>0
<1>2. SessionsFit'
  <2>1. messages' = messages \cup {} /\ {} \in SUBSET session[s].pending
    OBVIOUS
  <2>2. QED BY <1>1, <2>1, OneSessionFits DEF ChatIInv
<1>3. TurnsAreOwned'
  <2>1. /\ messages' = messages \cup {} /\ {} \in SUBSET session[s].pending
        /\ \A m \in {} : m.turn \notin TurnsOf(x)
    OBVIOUS
  <2>2. QED BY <1>1, <2>1, OneSessionOwns DEF ChatIInv
<1>4. AnswersFollowQuestions' /\ RequestsStoreWholeTurns'
  BY DEF ChatIInv, AnswersFollowQuestions, RequestsStoreWholeTurns
<1>5. OwedAreKept'
  <2>1. messages \subseteq messages'
    OBVIOUS
  <2>2. \A t \in owed' : t \in 1 .. turns /\
          \/ \E m \in messages' \cup x.pending : m.turn = t /\ m.role = "assistant"
          \/ t \in owed /\ \A m \in session[s].pending :
               m.turn = t /\ m.role = "assistant" => m \in messages' \cup x.pending
    OBVIOUS
  <2>3. QED BY <1>1, <2>1, <2>2, OneSessionKeeps DEF ChatIInv
<1>6. NumberingHolds'
  BY OneSessionNumbers DEF ChatIInv
<1>7. QED BY <1>2, <1>3, <1>4, <1>5, <1>6 DEF ChatIInv

(* As long as nothing has overlapped, the other sessions are fresh. *)
LEMMA OthersAreFresh ==
  ASSUME ChatIInv, NEW s \in Sessions, session[s] # Fresh, ~overlapped
  PROVE  \A o \in Sessions : o # s => session[o] = Fresh
  BY DEF ChatIInv, NumberingHolds

(* What a session sees is numbered, whether it keeps its messages or not. *)
LEMMA SeenIsNumbered ==
  ASSUME ChatIInv, NEW s \in Sessions, ~overlapped
  PROVE  \A k \in Conversations : Numbered(Seen({}, k)) /\ Numbered(Seen(session[s].pending, k))
  BY DEF ChatIInv, NumberingHolds

(* A turn is begun: the question gets the next number. *)
LEMMA AskIInv ==
  ASSUME ChatAssumption, ChatIInv, NEW s \in Sessions, NEW k \in UsedBy[s], Ask(s, k)
  PROVE  ChatIInv'
<1> DEFINE number == HistoryLength(s, k) + 1
           question == [conversation |-> k, turn |-> turns + 1, by |-> s, role |-> "user", number |-> number]
           x == [pc |-> "asking", conversation |-> k, turn |-> turns + 1, number |-> number,
                 pending |-> session[s].pending \cup {question}, locks |-> session[s].locks,
                 broken |-> FALSE]
           rows == Seen(session[s].pending, k)
<1>0. /\ turns \in 0 .. MaxTurns /\ MaxTurns \in Nat /\ turns + 1 \in 1 .. MaxTurns
      /\ faults \in 0 .. MaxFaults /\ overlapped \in BOOLEAN
      /\ MaxHistory \in Nat \ {0} /\ k \in Conversations /\ DOMAIN session = Sessions
  BY DEF ChatIInv, SessionsFit, ChatAssumption, Ask
<1>1. Fits(session[s], s) /\ session[s].pc = "idle" /\ ~session[s].broken
  BY DEF ChatIInv, SessionsFit, Ask
<1>2. IsFiniteSet(rows) /\ Cardinality(rows) \in Nat /\ \A m \in rows : m.turn \in Nat /\ m.turn <= turns
  BY SeenRows, FS_CardinalityType DEF ChatIInv
<1>3. Visible(s, k) = rows
  BY DEF Visible, Seen
<1>4. /\ number \in 1 .. MaxHistory + 1
      /\ Cardinality(rows) + 1 <= MaxHistory => number = Cardinality(rows) + 1
  BY <1>0, <1>2, <1>3 DEF HistoryLength
<1> HIDE DEF number
<1>5. session' = [session EXCEPT ![s] = x] /\ turns' = turns + 1
      /\ UNCHANGED <<messages, owed, faults>>
      /\ overlapped' = (overlapped \/ \E o \in Sessions \ {s} : session[o] # Fresh)
  BY DEF Ask, Asking, number
<1>6. question \in MessageRows
  BY <1>0, <1>4 DEF MessageRows
<1>7. session[s].pending \subseteq MessageRows /\ session[s].locks \subseteq Conversations
  BY <1>1 DEF Fits, IdleSessions, BusySessions
<1>8. \A m \in session[s].pending : m.turn \in 1 .. turns
  BY DEF ChatIInv, TurnsAreOwned, TurnsOf
<1>9. Fits(x, s)
  <2>1. x \in BusySessions
    BY <1>0, <1>4, <1>6, <1>7 DEF BusySessions
  <2>2. IsFiniteSet(x.pending)
    BY <1>1, FS_AddElement DEF Fits
  <2>3. \A m \in x.pending : m.by = s
    BY <1>1 DEF Fits
  <2>4. Paired(x.pending)
    BY <1>1 DEF Fits, Paired
  <2>5. Question(x, s) = question
    BY DEF Question
  <2>6. \A m \in x.pending : m.turn = x.turn => m.role = "user"
    BY <1>0, <1>8
  <2>7. s \notin Sockets => x.pending \subseteq {question}
    BY <1>1 DEF Fits
  <2>8. x.pc = "asking" /\ question \in x.pending
    OBVIOUS
  <2> HIDE DEF x, question
  <2>9. QED BY <2>1, <2>2, <2>3, <2>4, <2>5, <2>6, <2>7, <2>8 DEF Fits
<1>10. TurnsOf(x) \subseteq TurnsOf(session[s]) \cup (turns + 1 .. turns')
  BY <1>0, <1>5 DEF TurnsOf
<1>11. \A t \in owed' : t \in 1 .. turns /\ t \in owed /\ \A m \in session[s].pending :
         m.turn = t /\ m.role = "assistant" => m \in x.pending
  BY <1>5 DEF ChatIInv, OwedAreKept
<1>12. ASSUME ~overlapped'
       PROVE  /\ \A o \in Sessions : o # s => session[o] = Fresh
              /\ \A c \in Conversations : Numbered(Seen(x.pending, c))
              /\ Cardinality(Seen(x.pending, k)) <= MaxHistory => number = Cardinality(Seen(x.pending, k))
  <2>1. ~overlapped /\ \A o \in Sessions : o # s => session[o] = Fresh
    BY <1>5, <1>12
  <2>2. Seen(x.pending, k) = rows \cup {question}
    BY DEF Seen
  <2>3. \A c \in Conversations : c # k => Seen(x.pending, c) = Seen(session[s].pending, c)
    BY DEF Seen
  <2>4. \A c \in Conversations : Numbered(Seen(session[s].pending, c))
    BY <2>1, SeenIsNumbered
  <2>5. question \notin rows /\ question.turn \in Nat /\ \A m \in rows : m.turn <= question.turn
    BY <1>0, <1>2
  <2>6. Cardinality(rows) + 1 <= MaxHistory => question.number = Cardinality(rows) + 1
    BY <1>4
  <2>7. MaxHistory \in Nat /\ IsFiniteSet(rows) /\ \A m \in rows : m.turn \in Nat
    BY <1>0, <1>2
  <2>8. Numbered(rows)
    BY <1>0, <2>4
  <2> HIDE DEF question, rows, x
  <2>9. Cardinality(rows \cup {question}) = Cardinality(rows) + 1 /\ Numbered(rows \cup {question})
    BY <2>5, <2>6, <2>7, <2>8, NextRow
  <2>10. \A c \in Conversations : Numbered(Seen(x.pending, c))
    BY <2>2, <2>3, <2>4, <2>9
  <2>11. Cardinality(Seen(x.pending, k)) <= MaxHistory => number = Cardinality(Seen(x.pending, k))
    BY <1>4, <2>2, <2>9
  <2>12. QED BY <2>1, <2>10, <2>11
<1>13. x.pc = "asking" /\ x.conversation = k /\ x.turn = turns' /\ x.number = number
  BY <1>5
<1>14. turns' \in turns .. MaxTurns /\ faults' \in 0 .. MaxFaults /\ messages' = messages
       /\ overlapped' \in BOOLEAN /\ (overlapped => overlapped')
  BY <1>0, <1>5
<1>15. session' = [session EXCEPT ![s] = x]
  BY <1>5
<1> HIDE DEF x, question, rows
<1>16. QED BY <1>9, <1>10, <1>11, <1>12, <1>13, <1>14, <1>15, UncommittedStep

(* What every step of a turn that is under way can use. *)
LEMMA Types ==
  ASSUME ChatAssumption, ChatIInv
  PROVE  /\ turns \in 0 .. MaxTurns /\ MaxTurns \in Nat /\ turns \in turns .. MaxTurns
         /\ faults \in 0 .. MaxFaults /\ (Fault => faults' \in 0 .. MaxFaults)
         /\ overlapped \in BOOLEAN /\ MaxHistory \in Nat /\ DOMAIN session = Sessions
         /\ owed \subseteq 1 .. turns
         /\ \A s \in Sessions : Fits(session[s], s)
  BY DEF ChatIInv, SessionsFit, OwedAreKept, ChatAssumption, Fault

(* A step that leaves session s with nothing uncommitted, and takes the    *)
(* turns it had from those that are owed.                                  *)
LEMMA ForgettingIInv ==
  ASSUME ChatAssumption, ChatIInv, NEW s \in Sessions, NEW b \in BOOLEAN,
         session[s] # Fresh,
         session' = [session EXCEPT ![s] = Idle({}, {}, b)],
         owed' \subseteq owed,
         \A t \in owed' : \A m \in session[s].pending : m.turn = t => m.role # "assistant",
         faults' \in 0 .. MaxFaults, UNCHANGED <<messages, turns, overlapped>>
  PROVE  ChatIInv'
<1> DEFINE x == Idle({}, {}, b)
<1>1. Fits(x, s) /\ TurnsOf(x) = {} /\ x.pending = {} /\ x.pc = "idle"
  BY FreshFits DEF Idle
<1>2. \A t \in owed' : t \in 1 .. turns /\ t \in owed
  BY Types
<1>3. ~overlapped' => \A o \in Sessions : o # s => session[o] = Fresh
  BY OthersAreFresh
<1>4. ~overlapped' => \A k \in Conversations : Numbered(Seen({}, k))
  BY SeenIsNumbered
<1>5. turns' \in turns .. MaxTurns /\ overlapped' \in BOOLEAN /\ (overlapped => overlapped')
      /\ messages' = messages
  BY Types
<1>6. session' = [session EXCEPT ![s] = x]
  OBVIOUS
<1> HIDE DEF x
<1>7. TurnsOf(x) \subseteq TurnsOf(session[s]) \cup (turns + 1 .. turns')
  BY <1>1
<1>8. \A t \in owed' : t \in 1 .. turns /\
        \/ \E m \in x.pending : m.turn = t /\ m.role = "assistant"
        \/ t \in owed /\ \A m \in session[s].pending :
             m.turn = t /\ m.role = "assistant" => m \in x.pending
  BY <1>2
<1>9. ~overlapped' =>
        /\ \A o \in Sessions : o # s => session[o] = Fresh
        /\ \A k \in Conversations : Numbered(Seen(x.pending, k))
        /\ x.pc \in {"asking", "storing"} /\ ~x.broken =>
             /\ x.turn = turns'
             /\ Cardinality(Seen(x.pending, x.conversation)) <= MaxHistory =>
                  x.number = Cardinality(Seen(x.pending, x.conversation))
  BY <1>1, <1>3, <1>4
<1>10. Fits(x, s) /\ faults' \in 0 .. MaxFaults
  BY <1>1
<1>11. QED BY <1>5, <1>6, <1>7, <1>8, <1>9, <1>10, UncommittedStep

(* A turn at the model, or about to store its answer. *)
LEMMA RunningTurn ==
  ASSUME ChatAssumption, ChatIInv, NEW s \in Sessions, session[s].pc \in {"asking", "storing"}
  PROVE  /\ session[s] # Fresh /\ session[s] \in BusySessions
         /\ session[s] = [pc |-> session[s].pc, conversation |-> session[s].conversation,
              turn |-> session[s].turn, number |-> session[s].number, pending |-> session[s].pending,
              locks |-> session[s].locks, broken |-> session[s].broken]
         /\ session[s].turn \in 1 .. turns
         /\ \A m \in session[s].pending : m.turn = session[s].turn => m.role = "user"
         /\ s \notin Sockets => \A m \in session[s].pending : m.role = "user"
<1>1. Fits(session[s], s)
  BY Types
<1>2. session[s].pc # "idle" /\ session[s].pc # "closing"
  OBVIOUS
<1>3. session[s] \in BusySessions /\ session[s].turn \in TurnsOf(session[s])
  BY <1>1, <1>2, BusyRecord
<1>4. session[s] # Fresh
  BY <1>2 DEF Fresh, Idle
<1>5. session[s].turn \in 1 .. turns
  BY <1>3 DEF ChatIInv, TurnsAreOwned
<1>6. \A m \in session[s].pending : m.turn = session[s].turn => m.role = "user"
  BY <1>1 DEF Fits
<1>7. s \notin Sockets => \A m \in session[s].pending : m.role = "user"
  BY <1>1 DEF Fits, Question
<1>8. session[s] = [pc |-> session[s].pc, conversation |-> session[s].conversation,
              turn |-> session[s].turn, number |-> session[s].number, pending |-> session[s].pending,
              locks |-> session[s].locks, broken |-> session[s].broken]
  BY <1>3 DEF BusySessions
<1>9. QED BY <1>3, <1>4, <1>5, <1>6, <1>7, <1>8

(* A retrieval that fails leaves its turn in a broken transaction. *)
LEMMA RetrievalFailsIInv ==
  ASSUME ChatAssumption, ChatIInv, NEW s \in Sessions, RetrievalFails(s)
  PROVE  ChatIInv'
<1> DEFINE x == [pc |-> "asking", conversation |-> session[s].conversation,
                 turn |-> session[s].turn, number |-> session[s].number, pending |-> {},
                 locks |-> {}, broken |-> TRUE]
<1>1. session[s].pc = "asking"
  BY DEF RetrievalFails
<1>2. /\ session[s] # Fresh /\ session[s] \in BusySessions
      /\ session[s] = [pc |-> session[s].pc, conversation |-> session[s].conversation,
              turn |-> session[s].turn, number |-> session[s].number, pending |-> session[s].pending,
              locks |-> session[s].locks, broken |-> session[s].broken]
  BY <1>1, RunningTurn
<1>3. session' = [session EXCEPT ![s] = x]
  BY Types DEF RetrievalFails, Asking
<1>4. x \in BusySessions
  BY <1>2 DEF BusySessions
<1>5. Fits(x, s)
  BY <1>4, FS_EmptySet DEF Fits, Paired
<1>6. TurnsOf(x) \subseteq TurnsOf(session[s])
  BY <1>1 DEF TurnsOf
<1>7. \A t \in owed' : t \in 1 .. turns /\ t \in owed /\ \A m \in session[s].pending : m.turn # t
  BY Types DEF RetrievalFails, Forgotten
<1>8. ~overlapped => \A o \in Sessions : o # s => session[o] = Fresh
  BY <1>2, OthersAreFresh
<1>9. ~overlapped => \A k \in Conversations : Numbered(Seen({}, k))
  BY SeenIsNumbered
<1>10. turns' \in turns .. MaxTurns /\ overlapped' \in BOOLEAN /\ (overlapped => overlapped')
       /\ turns' = turns /\ overlapped' = overlapped /\ messages' = messages /\ faults' \in 0 .. MaxFaults
  BY Types DEF RetrievalFails
<1>11. x.pending = {} /\ x.broken
  OBVIOUS
<1> HIDE DEF x
<1>12. TurnsOf(x) \subseteq TurnsOf(session[s]) \cup (turns + 1 .. turns')
  BY <1>6
<1>13. \A t \in owed' : t \in 1 .. turns /\
         \/ \E m \in x.pending : m.turn = t /\ m.role = "assistant"
         \/ t \in owed /\ \A m \in session[s].pending :
              m.turn = t /\ m.role = "assistant" => m \in x.pending
  BY <1>7
<1>14. ~overlapped' =>
         /\ \A o \in Sessions : o # s => session[o] = Fresh
         /\ \A k \in Conversations : Numbered(Seen(x.pending, k))
         /\ x.pc \in {"asking", "storing"} /\ ~x.broken =>
              /\ x.turn = turns'
              /\ Cardinality(Seen(x.pending, x.conversation)) <= MaxHistory =>
                   x.number = Cardinality(Seen(x.pending, x.conversation))
  BY <1>8, <1>9, <1>10, <1>11
<1>15. QED BY <1>3, <1>5, <1>10, <1>12, <1>13, <1>14, UncommittedStep

(* The model answers, and the turn has the answer in hand. *)
LEMMA ModelAnswersIInv ==
  ASSUME ChatAssumption, ChatIInv, NEW s \in Sessions, ModelAnswers(s)
  PROVE  ChatIInv'
<1> DEFINE x == [pc |-> "storing", conversation |-> session[s].conversation,
                 turn |-> session[s].turn, number |-> session[s].number,
                 pending |-> session[s].pending, locks |-> session[s].locks, broken |-> session[s].broken]
<1>1. session[s].pc = "asking"
  BY DEF ModelAnswers
<1>2. /\ session[s] # Fresh /\ session[s] \in BusySessions
      /\ session[s] = [pc |-> session[s].pc, conversation |-> session[s].conversation,
              turn |-> session[s].turn, number |-> session[s].number, pending |-> session[s].pending,
              locks |-> session[s].locks, broken |-> session[s].broken]
  BY <1>1, RunningTurn
<1>3. session' = [session EXCEPT ![s] = x]
  <2>1. session' = [session EXCEPT ![s] = [session[s] EXCEPT !.pc = "storing"]]
    BY Types DEF ModelAnswers
  <2>2. [session[s] EXCEPT !.pc = "storing"] = x
    BY <1>2
  <2>3. QED BY <2>1, <2>2
<1>4. x \in BusySessions
  BY <1>2 DEF BusySessions
<1>5. Fits(x, s)
  <2>1. Fits(session[s], s)
    BY Types
  <2>2. Question(x, s) = Question(session[s], s)
    BY DEF Question
  <2>3. x.pc = "storing" /\ x.pending = session[s].pending /\ x.turn = session[s].turn
        /\ x.broken = session[s].broken
    OBVIOUS
  <2> HIDE DEF x
  <2>4. QED BY <1>1, <1>4, <2>1, <2>2, <2>3 DEF Fits
<1>6. TurnsOf(x) \subseteq TurnsOf(session[s])
  BY <1>1 DEF TurnsOf
<1>7. \A t \in owed' : t \in 1 .. turns /\ t \in owed
  BY Types DEF ModelAnswers
<1>8. ~overlapped => \A o \in Sessions : o # s => session[o] = Fresh
  BY <1>2, OthersAreFresh
<1>9. ~overlapped => \A k \in Conversations : Numbered(Seen(session[s].pending, k))
  BY SeenIsNumbered
<1>10. turns' \in turns .. MaxTurns /\ overlapped' \in BOOLEAN /\ (overlapped => overlapped')
       /\ turns' = turns /\ overlapped' = overlapped /\ messages' = messages /\ faults' \in 0 .. MaxFaults
  BY Types DEF ModelAnswers
<1>11. x.pending = session[s].pending /\ x.broken = session[s].broken /\ x.turn = session[s].turn
       /\ x.number = session[s].number /\ x.conversation = session[s].conversation
  OBVIOUS
<1>12. ~overlapped /\ ~session[s].broken =>
         /\ session[s].turn = turns
         /\ Cardinality(Seen(session[s].pending, session[s].conversation)) <= MaxHistory =>
              session[s].number = Cardinality(Seen(session[s].pending, session[s].conversation))
  BY <1>1 DEF ChatIInv, NumberingHolds
<1> HIDE DEF x
<1>13. TurnsOf(x) \subseteq TurnsOf(session[s]) \cup (turns + 1 .. turns')
  BY <1>6
<1>14. \A t \in owed' : t \in 1 .. turns /\
         \/ \E m \in x.pending : m.turn = t /\ m.role = "assistant"
         \/ t \in owed /\ \A m \in session[s].pending :
              m.turn = t /\ m.role = "assistant" => m \in x.pending
  BY <1>7, <1>11
<1>15. ~overlapped' =>
         /\ \A o \in Sessions : o # s => session[o] = Fresh
         /\ \A k \in Conversations : Numbered(Seen(x.pending, k))
         /\ x.pc \in {"asking", "storing"} /\ ~x.broken =>
              /\ x.turn = turns'
              /\ Cardinality(Seen(x.pending, x.conversation)) <= MaxHistory =>
                   x.number = Cardinality(Seen(x.pending, x.conversation))
  BY <1>8, <1>9, <1>10, <1>11, <1>12
<1>16. QED BY <1>3, <1>5, <1>10, <1>13, <1>14, <1>15, UncommittedStep

(* A socket goes on with what it has, a request rolls back: it had stored  *)
(* nothing but the question.                                               *)
LEMMA ModelFailsIInv ==
  ASSUME ChatAssumption, ChatIInv, NEW s \in Sessions, ModelFails(s)
  PROVE  ChatIInv'
<1>1. session[s].pc = "asking"
  BY DEF ModelFails
<1>2. session[s] # Fresh /\ session[s] \in BusySessions
      /\ (s \notin Sockets => \A m \in session[s].pending : m.role = "user")
  BY <1>1, RunningTurn
<1>3. turns' = turns /\ overlapped' = overlapped /\ messages' = messages /\ faults' \in 0 .. MaxFaults
      /\ owed' = owed
  BY Types DEF ModelFails
<1>4. CASE s \notin Sockets
  <2>1. session' = [session EXCEPT ![s] = Idle({}, {}, FALSE)]
    BY <1>4 DEF ModelFails, AfterError, Fresh
  <2>2. \A m \in session[s].pending : m.role # "assistant"
    BY <1>2, <1>4
  <2>3. QED BY <1>2, <1>3, <2>1, <2>2, ForgettingIInv
<1>5. CASE s \in Sockets
  <2> DEFINE x == [pc |-> "idle", pending |-> session[s].pending, locks |-> session[s].locks,
                   broken |-> session[s].broken]
  <2>1. session' = [session EXCEPT ![s] = x]
    BY <1>5 DEF ModelFails, AfterError, Idle
  <2>2. Fits(session[s], s)
    BY Types
  <2>3. Fits(x, s)
    <3>1. x \in IdleSessions
      BY <1>2 DEF BusySessions, IdleSessions
    <3>2. QED BY <1>5, <2>2, <3>1 DEF Fits
  <2>4. TurnsOf(x) \subseteq TurnsOf(session[s])
    BY DEF TurnsOf
  <2>5. \A t \in owed' : t \in 1 .. turns /\ t \in owed
    BY <1>3, Types
  <2>6. ~overlapped => \A o \in Sessions : o # s => session[o] = Fresh
    BY <1>2, OthersAreFresh
  <2>7. ~overlapped => \A k \in Conversations : Numbered(Seen(session[s].pending, k))
    BY SeenIsNumbered
  <2>8. turns' \in turns .. MaxTurns /\ overlapped' \in BOOLEAN /\ (overlapped => overlapped')
    BY <1>3, Types
  <2>9. x.pending = session[s].pending /\ x.pc = "idle"
    OBVIOUS
  <2> HIDE DEF x
  <2>10. QED BY <1>3, <2>1, <2>3, <2>4, <2>5, <2>6, <2>7, <2>8, <2>9, UncommittedStep
<1>6. QED BY <1>4, <1>5

(* An insert that fails takes the transaction with it. *)
LEMMA StoreFailsIInv ==
  ASSUME ChatAssumption, ChatIInv, NEW s \in Sessions, StoreFails(s)
  PROVE  ChatIInv'
<1>1. session[s] # Fresh
  BY RunningTurn DEF StoreFails
<1>2. PICK b \in BOOLEAN : session' = [session EXCEPT ![s] = Idle({}, {}, b)]
  BY DEF StoreFails, Fresh
<1>3. owed' \subseteq owed /\ \A t \in owed' : \A m \in session[s].pending : m.turn # t
  BY DEF StoreFails, Forgotten
<1>4. faults' \in 0 .. MaxFaults /\ UNCHANGED <<messages, turns, overlapped>>
  BY Types DEF StoreFails
<1>5. QED BY <1>1, <1>2, <1>3, <1>4, ForgettingIInv

(* A commit that fails stores nothing. *)
LEMMA CommitFailsIInv ==
  ASSUME ChatAssumption, ChatIInv, NEW s \in Sessions, CommitFails(s)
  PROVE  ChatIInv'
<1>1. session[s] # Fresh /\ session' = [session EXCEPT ![s] = Idle({}, {}, FALSE)]
  BY DEF CommitFails, Ended, Fresh
<1>2. owed' \subseteq owed /\ \A t \in owed' : \A m \in session[s].pending : m.turn # t
  BY DEF CommitFails, Forgotten
<1>3. faults' \in 0 .. MaxFaults /\ UNCHANGED <<messages, turns, overlapped>>
  BY Types DEF CommitFails
<1>4. QED BY <1>1, <1>2, <1>3, ForgettingIInv

(* The answer gets the number after its question; a socket sends it. *)
LEMMA StoreIInv ==
  ASSUME ChatAssumption, ChatIInv, NEW s \in Sessions, Store(s)
  PROVE  ChatIInv'
<1> DEFINE k == session[s].conversation
           answer == AnswerTo(session[s], s)
           more == session[s].pending \cup {answer}
           x == IF s \in Sockets
                THEN [pc |-> "idle", pending |-> more, locks |-> session[s].locks \cup {k}, broken |-> FALSE]
                ELSE [pc |-> "closing", conversation |-> k, turn |-> session[s].turn,
                      number |-> session[s].number, pending |-> more,
                      locks |-> session[s].locks \cup {k}, broken |-> session[s].broken]
           rows == Seen(session[s].pending, k)
<1>1. session[s].pc = "storing" /\ ~session[s].broken
  BY DEF Store
<1>2. /\ session[s] # Fresh /\ session[s] \in BusySessions
      /\ session[s] = [pc |-> session[s].pc, conversation |-> session[s].conversation,
              turn |-> session[s].turn, number |-> session[s].number, pending |-> session[s].pending,
              locks |-> session[s].locks, broken |-> session[s].broken]
      /\ session[s].turn \in 1 .. turns
      /\ \A m \in session[s].pending : m.turn = session[s].turn => m.role = "user"
  BY <1>1, RunningTurn
<1>3. Fits(session[s], s)
  BY Types
<1>4. Message(s, "assistant", session[s].number + 1) = answer
  BY DEF Message, AnswerTo, Turn
<1>5. session' = [session EXCEPT ![s] = x]
  <2>1. CASE s \in Sockets
    BY <1>4, <2>1 DEF Store, Stored, Idle
  <2>2. CASE s \notin Sockets
    <3> DEFINE y == [session[s] EXCEPT !.pc = "closing"]
               z == [y EXCEPT !.pending = more]
    <3>1. y = [pc |-> "closing", conversation |-> session[s].conversation,
              turn |-> session[s].turn, number |-> session[s].number, pending |-> session[s].pending,
              locks |-> session[s].locks, broken |-> session[s].broken]
      BY <1>2
    <3>2. session' = [session EXCEPT ![s] = [z EXCEPT !.locks = session[s].locks \cup {k}]]
      BY <1>4, <2>2 DEF Store, Stored
    <3> HIDE DEF y, more
    <3>3. z = [pc |-> "closing", conversation |-> session[s].conversation,
              turn |-> session[s].turn, number |-> session[s].number, pending |-> more,
              locks |-> session[s].locks, broken |-> session[s].broken]
      BY <3>1
    <3> HIDE DEF z
    <3>4. x = [pc |-> "closing", conversation |-> session[s].conversation,
              turn |-> session[s].turn, number |-> session[s].number, pending |-> more,
              locks |-> session[s].locks \cup {k}, broken |-> session[s].broken]
      BY <2>2
    <3> HIDE DEF x
    <3>5. [z EXCEPT !.locks = session[s].locks \cup {k}] = x
      BY <3>3, <3>4
    <3>6. QED BY <3>2, <3>5
  <2>3. QED BY <2>1, <2>2
<1>6. /\ messages' = messages /\ turns' = turns /\ overlapped' = overlapped /\ faults' = faults
      /\ owed' = IF s \in Sockets THEN owed \cup {session[s].turn} ELSE owed
  BY DEF Store, Turn
<1>7. x.pending = more /\ x.pc \notin {"asking", "storing"}
  OBVIOUS
<1>8. /\ session[s].number \in 1 .. MaxHistory + 1 /\ session[s].turn \in 1 .. MaxTurns
      /\ k \in Conversations /\ session[s].locks \subseteq Conversations
      /\ session[s].pending \subseteq MessageRows /\ session[s].broken \in BOOLEAN
  BY <1>2 DEF BusySessions
<1>9. answer \in MessageRows
  BY <1>8, Types DEF AnswerTo, MessageRows
<1>10. Question(session[s], s) \in session[s].pending
  BY <1>1, <1>3 DEF Fits
<1>11. Fits(x, s)
  <2>1. x \in IdleSessions \cup BusySessions
    <3>1. more \subseteq MessageRows /\ session[s].locks \cup {k} \subseteq Conversations
      BY <1>8, <1>9
    <3> HIDE DEF more
    <3>2. QED BY <1>8, <3>1 DEF IdleSessions, BusySessions
  <2>2. IsFiniteSet(more)
    BY <1>3, FS_AddElement DEF Fits
  <2>3. \A m \in more : m.by = s
    BY <1>3 DEF Fits, AnswerTo
  <2>4. Paired(more)
    <3>1. /\ answer.turn = Question(session[s], s).turn
          /\ answer.number = Question(session[s], s).number + 1
          /\ Question(session[s], s).role = "user"
      BY DEF AnswerTo, Question
    <3>2. Paired(session[s].pending)
      BY <1>3 DEF Fits
    <3> HIDE DEF answer
    <3>3. QED BY <1>10, <3>1, <3>2 DEF Paired
  <2>5. CASE s \in Sockets
    BY <1>7, <2>1, <2>2, <2>3, <2>4, <2>5 DEF Fits
  <2>6. CASE s \notin Sockets
    <3>1. session[s].pending = {Question(session[s], s)}
      BY <1>1, <1>3, <1>10, <2>6 DEF Fits
    <3>2. x.pc = "closing" /\ Question(x, s) = Question(session[s], s) /\ AnswerTo(x, s) = answer
      BY <2>6 DEF Question, AnswerTo
    <3>3. x.pending = {Question(x, s), AnswerTo(x, s)}
      BY <1>7, <3>1, <3>2
    <3> HIDE DEF x, more
    <3>4. QED BY <1>7, <2>1, <2>2, <2>3, <2>4, <2>6, <3>2, <3>3 DEF Fits
  <2>7. QED BY <2>5, <2>6
<1>12. TurnsOf(x) \subseteq TurnsOf(session[s]) \cup (turns + 1 .. turns')
  <2>1. {m.turn : m \in more} = {m.turn : m \in session[s].pending} \cup {session[s].turn}
    <3>1. answer.turn = session[s].turn
      BY DEF AnswerTo
    <3> HIDE DEF answer
    <3>2. {m.turn : m \in more} = {m.turn : m \in session[s].pending} \cup {answer.turn}
      BY Zenon
    <3>3. QED BY <3>1, <3>2
  <2>2. x.pc # "idle" => x.turn = session[s].turn
    OBVIOUS
  <2> HIDE DEF x, more
  <2>3. QED BY <1>1, <1>7, <2>1, <2>2 DEF TurnsOf
<1>13. \A t \in owed' : t \in 1 .. turns /\
         \/ \E m \in x.pending : m.turn = t /\ m.role = "assistant"
         \/ t \in owed /\ \A m \in session[s].pending :
              m.turn = t /\ m.role = "assistant" => m \in x.pending
  <2>1. answer \in more /\ answer.turn = session[s].turn /\ answer.role = "assistant"
    BY DEF AnswerTo
  <2>2. session[s].pending \subseteq more /\ owed \subseteq 1 .. turns
    BY Types
  <2> HIDE DEF x, more, answer
  <2>3. QED BY <1>2, <1>6, <1>7, <2>1, <2>2
<1>14. ASSUME ~overlapped'
       PROVE  /\ \A o \in Sessions : o # s => session[o] = Fresh
              /\ \A c \in Conversations : Numbered(Seen(more, c))
  <2>1. \A o \in Sessions : o # s => session[o] = Fresh
    BY <1>2, <1>6, <1>14, OthersAreFresh
  <2>2. Seen(more, k) = rows \cup {answer}
    BY DEF Seen, AnswerTo
  <2>3. \A c \in Conversations : c # k => Seen(more, c) = Seen(session[s].pending, c)
    BY DEF Seen, AnswerTo
  <2>4. \A c \in Conversations : Numbered(Seen(session[s].pending, c))
    BY <1>6, <1>14, SeenIsNumbered
  <2>5. session[s].turn = turns /\ (Cardinality(rows) <= MaxHistory => session[s].number = Cardinality(rows))
    BY <1>1, <1>6, <1>14 DEF ChatIInv, NumberingHolds
  <2>6. answer.turn = turns /\ answer.role = "assistant" /\ answer.number = session[s].number + 1
    BY <2>5 DEF AnswerTo
  <2>7. answer \notin rows
    <3>1. answer \notin session[s].pending
      BY <1>2, <2>5, <2>6
    <3>2. session[s].turn \in TurnsOf(session[s])
      BY <1>1 DEF TurnsOf
    <3>3. answer \notin messages
      BY <2>5, <2>6, <3>2 DEF ChatIInv, TurnsAreOwned
    <3>4. QED BY <3>1, <3>3 DEF Seen
  <2>8. /\ IsFiniteSet(rows) /\ Cardinality(rows) \in Nat /\ turns \in Nat /\ MaxHistory \in Nat
        /\ \A m \in rows : m.turn \in Nat /\ m.turn <= turns
    <3>1. IsFiniteSet(rows) /\ \A m \in rows : m.turn \in Nat /\ m.turn <= turns
      BY SeenRows DEF ChatIInv
    <3>2. turns \in Nat /\ MaxHistory \in Nat
      BY Types
    <3> HIDE DEF rows
    <3>3. QED BY <3>1, <3>2, FS_CardinalityType
  <2>9. Cardinality(rows) + 1 <= MaxHistory => answer.number = Cardinality(rows) + 1
    BY <2>5, <2>6, <2>8
  <2>10. Numbered(rows)
    BY <1>8, <2>4
  <2> HIDE DEF answer, rows, more
  <2>11. Numbered(rows \cup {answer})
    BY <2>6, <2>7, <2>8, <2>9, <2>10, NextRow
  <2>12. QED BY <2>1, <2>2, <2>3, <2>4, <2>11
<1>15. turns' \in turns .. MaxTurns /\ overlapped' \in BOOLEAN /\ (overlapped => overlapped')
       /\ messages' = messages /\ faults' \in 0 .. MaxFaults
  BY <1>6, Types
<1> HIDE DEF x, more
<1>16. ~overlapped' =>
         /\ \A o \in Sessions : o # s => session[o] = Fresh
         /\ \A c \in Conversations : Numbered(Seen(x.pending, c))
         /\ x.pc \in {"asking", "storing"} /\ ~x.broken =>
              /\ x.turn = turns'
              /\ Cardinality(Seen(x.pending, x.conversation)) <= MaxHistory =>
                   x.number = Cardinality(Seen(x.pending, x.conversation))
  BY <1>7, <1>14
<1>17. QED BY <1>5, <1>11, <1>12, <1>13, <1>15, <1>16, UncommittedStep

-----------------------------------------------------------------------------
(* Steps that end sessions.                                                *)

(* Two are a pair. *)
LEMMA PairCounts ==
  ASSUME NEW a, NEW b, a # b
  PROVE  Cardinality({a, b}) = 2
<1>1. IsFiniteSet({a}) /\ Cardinality({a}) = 1
  BY FS_Singleton
<1>2. {a, b} = {a} \cup {b} /\ b \notin {a}
  OBVIOUS
<1>3. Cardinality({a} \cup {b}) = 1 + 1
  BY <1>1, <1>2, FS_AddElement
<1>4. QED BY <1>2, <1>3

(* A commit: the messages of the session are stored, whole turns of a      *)
(* request, and of a socket each answer with its question.                 *)
LEMMA CommitIInv ==
  ASSUME ChatAssumption, ChatIInv, NEW s \in Sessions, Commit(s)
  PROVE  ChatIInv'
<1> DEFINE P == session[s].pending
<1>1. /\ session[s] # Fresh /\ messages' = messages \cup P
      /\ session' = [session EXCEPT ![s] = Fresh]
      /\ owed' = IF s \in Sockets THEN owed ELSE owed \cup {session[s].turn}
      /\ turns' = turns /\ overlapped' = overlapped /\ faults' = faults
      /\ session[s].pc = IF s \in Sockets THEN "idle" ELSE "closing"
  BY DEF Commit, Ended, Turn
<1>2. Fits(session[s], s) /\ Fits(Fresh, s) /\ TurnsOf(Fresh) = {} /\ Fresh.pending = {}
  BY Types, FreshFits DEF Fresh, Idle
<1>3. /\ turns' \in 0 .. MaxTurns /\ turns' \in Nat /\ turns' >= turns
      /\ faults' \in 0 .. MaxFaults /\ overlapped' \in BOOLEAN
  BY <1>1, Types
<1>4. SessionsFit'
  BY <1>1, <1>2, <1>3, OneSessionFits DEF ChatIInv
<1>5. TurnsAreOwned'
  <2>1. /\ \A m \in P : m.turn \notin TurnsOf(Fresh)
        /\ TurnsOf(Fresh) \subseteq TurnsOf(session[s]) \cup (turns + 1 .. turns')
    BY <1>2
  <2>2. QED BY <1>1, <1>3, <2>1, OneSessionOwns DEF ChatIInv
<1>6. AnswersFollowQuestions'
  BY <1>1, <1>2 DEF ChatIInv, AnswersFollowQuestions, Fits, Paired
<1>7. RequestsStoreWholeTurns'
  <2>1. \A m \in P : m.turn \in TurnsOf(session[s])
    BY DEF TurnsOf
  <2>2. \A m \in messages, n \in P : m.turn # n.turn
    BY <2>1 DEF ChatIInv, TurnsAreOwned
  <2>3. ASSUME NEW m \in messages', m.by \notin Sockets
        PROVE  Cardinality({n \in messages' : n.turn = m.turn}) = 2
    <3>1. CASE m \in messages
      <4>1. {n \in messages' : n.turn = m.turn} = {n \in messages : n.turn = m.turn}
        BY <1>1, <2>2, <3>1
      <4>2. QED BY <2>3, <3>1, <4>1 DEF ChatIInv, RequestsStoreWholeTurns
    <3>2. CASE m \in P
      <4>1. s \notin Sockets
        BY <1>2, <2>3, <3>2 DEF Fits
      <4>2. P = {Question(session[s], s), AnswerTo(session[s], s)}
        BY <1>1, <1>2, <4>1 DEF Fits
      <4>3. /\ Question(session[s], s) # AnswerTo(session[s], s)
            /\ Question(session[s], s).turn = session[s].turn
            /\ AnswerTo(session[s], s).turn = session[s].turn
        <5>1. Question(session[s], s).role = "user" /\ AnswerTo(session[s], s).role = "assistant"
          BY DEF Question, AnswerTo
        <5>2. QED BY <5>1 DEF Question, AnswerTo
      <4>4. {n \in messages' : n.turn = m.turn} = P
        BY <1>1, <2>2, <3>2, <4>2, <4>3
      <4>5. Cardinality({Question(session[s], s), AnswerTo(session[s], s)}) = 2
        BY <4>3, PairCounts
      <4>6. QED BY <4>2, <4>4, <4>5
    <3>3. QED BY <1>1, <3>1, <3>2
  <2>4. QED BY <2>3 DEF RequestsStoreWholeTurns
<1>8. OwedAreKept'
  <2>1. \A t \in owed' : t \in 1 .. turns /\
          \/ \E m \in messages' \cup Fresh.pending : m.turn = t /\ m.role = "assistant"
          \/ t \in owed /\ \A m \in session[s].pending :
               m.turn = t /\ m.role = "assistant" => m \in messages' \cup Fresh.pending
    <3>1. CASE s \in Sockets
      BY <1>1, <3>1, Types
    <3>2. CASE s \notin Sockets
      <4>1. AnswerTo(session[s], s) \in P
        BY <1>1, <1>2, <3>2 DEF Fits
      <4>2. AnswerTo(session[s], s).turn = session[s].turn /\ AnswerTo(session[s], s).role = "assistant"
        BY DEF AnswerTo
      <4>3. session[s].turn \in 1 .. turns
        BY <1>1, <3>2 DEF ChatIInv, TurnsAreOwned, TurnsOf
      <4>4. owed \subseteq 1 .. turns
        BY Types
      <4>5. QED BY <1>1, <4>1, <4>2, <4>3, <4>4
    <3>3. QED BY <3>1, <3>2
  <2>2. messages \subseteq messages'
    BY <1>1
  <2>3. QED BY <1>1, <1>3, <2>1, <2>2, OneSessionKeeps DEF ChatIInv
<1>9. NumberingHolds'
  <2>1. \A o \in Sessions : session'[o] = IF o = s THEN Fresh ELSE session[o]
    BY <1>1, Types
  <2>2. SUFFICES ASSUME ~overlapped'
                 PROVE  /\ \A o \in Sessions : session'[o] = Fresh
                        /\ \A k \in Conversations : Numbered(Seen({}, k)')
    <3>1. Fresh.pending = {} /\ Fresh.pc = "idle"
      BY DEF Fresh, Idle
    <3>2. QED BY <2>2, <3>1 DEF NumberingHolds, Seen
  <2>3. \A o \in Sessions : session'[o] = Fresh
    BY <1>1, <2>1, <2>2, OthersAreFresh
  <2>4. \A k \in Conversations : Seen({}, k)' = Seen(P, k)
    BY <1>1 DEF Seen
  <2>5. \A k \in Conversations : Numbered(Seen(P, k))
    BY <1>1, <2>2, SeenIsNumbered
  <2>6. QED BY <2>3, <2>4, <2>5
<1>10. QED BY <1>4, <1>5, <1>6, <1>7, <1>8, <1>9 DEF ChatIInv

(* The process stops: what was not committed is gone, and so are the       *)
(* answers promised by it.                                                 *)
LEMMA StopIInv ==
  ASSUME ChatAssumption, ChatIInv, Stop
  PROVE  ChatIInv'
<1>1. /\ session' = [s \in Sessions |-> Fresh]
      /\ messages' = messages /\ turns' = turns /\ overlapped' = overlapped
      /\ owed' = owed \ UNION {Forgotten(s) : s \in Sessions}
      /\ faults' \in 0 .. MaxFaults
  BY Types DEF Stop
<1>2. Fresh.pending = {} /\ Fresh.pc = "idle"
  BY DEF Fresh, Idle
<1>3. \A s \in Sessions : Fits(Fresh, s) /\ TurnsOf(Fresh) = {}
  BY FreshFits DEF Fresh
<1>4. SessionsFit'
  BY <1>1, <1>3 DEF ChatIInv, SessionsFit
<1>5. TurnsAreOwned'
  BY <1>1, <1>3 DEF ChatIInv, TurnsAreOwned
<1>6. AnswersFollowQuestions' /\ RequestsStoreWholeTurns'
  BY <1>1 DEF ChatIInv, AnswersFollowQuestions, RequestsStoreWholeTurns
<1>7. OwedAreKept'
  <2>1. owed' \subseteq owed /\ owed' \subseteq 1 .. turns'
    BY <1>1, Types
  <2>2. ASSUME NEW t \in owed'
        PROVE  \E m \in messages' : m.turn = t /\ m.role = "assistant"
    <3>1. PICK m \in messages \cup UNION {session[o].pending : o \in Sessions} :
            m.turn = t /\ m.role = "assistant"
      BY <2>1, <2>2 DEF ChatIInv, OwedAreKept, AnswersAreKept
    <3>2. \A o \in Sessions : m \notin session[o].pending
      BY <1>1, <2>2, <3>1 DEF Forgotten
    <3>3. QED BY <1>1, <3>1, <3>2
  <2>3. QED BY <2>1, <2>2 DEF OwedAreKept, AnswersAreKept
<1>8. NumberingHolds'
  BY <1>1, <1>2 DEF ChatIInv, NumberingHolds, Seen
<1>9. QED BY <1>4, <1>5, <1>6, <1>7, <1>8 DEF ChatIInv

-----------------------------------------------------------------------------
(* The theorems.                                                           *)

(* The invariant holds before the first turn. *)
LEMMA ChatInitIInv ==
  ASSUME ChatAssumption, ChatInit
  PROVE  ChatIInv
<1>1. \A s \in Sessions : session[s] = Fresh /\ Fits(Fresh, s) /\ TurnsOf(Fresh) = {}
  BY FreshFits DEF ChatInit, Fresh
<1>2. Fresh.pending = {} /\ Fresh.pc = "idle"
  BY DEF Fresh, Idle
<1>3. SessionsFit
  <2>1. messages \subseteq MessageRows /\ IsFiniteSet(messages)
    BY FS_EmptySet DEF ChatInit
  <2>2. turns \in 0 .. MaxTurns /\ faults \in 0 .. MaxFaults
    BY DEF ChatInit, ChatAssumption
  <2>3. overlapped \in BOOLEAN
    BY Zenon DEF ChatInit
  <2>4. DOMAIN session = Sessions
    BY DEF ChatInit
  <2>5. QED BY <1>1, <2>1, <2>2, <2>3, <2>4 DEF SessionsFit
<1>4. TurnsAreOwned
  BY <1>1 DEF ChatInit, TurnsAreOwned
<1>5. OwedAreKept /\ AnswersFollowQuestions /\ RequestsStoreWholeTurns
  BY DEF ChatInit, OwedAreKept, AnswersAreKept, AnswersFollowQuestions, RequestsStoreWholeTurns
<1>6. NumberingHolds
  <2>1. Cardinality({}) = 0 /\ MaxHistory \in Nat
    BY FS_EmptySet DEF ChatAssumption
  <2>2. Numbered({})
    BY <2>1 DEF Numbered
  <2>3. \A k \in Conversations : Seen({}, k) = {}
    BY DEF ChatInit, Seen
  <2>4. QED BY <1>1, <1>2, <2>2, <2>3 DEF NumberingHolds
<1>7. QED BY <1>3, <1>4, <1>5, <1>6 DEF ChatIInv

(* Every step keeps it. *)
LEMMA ChatNextIInv ==
  ASSUME ChatAssumption, ChatIInv, [ChatNext]_chatVars
  PROVE  ChatIInv'
<1>1. ASSUME NEW s \in Sessions, NEW k \in UsedBy[s], Ask(s, k) PROVE ChatIInv'
  BY <1>1, AskIInv
<1>2. ASSUME NEW s \in Sessions, RetrievalFails(s) PROVE ChatIInv'
  BY <1>2, RetrievalFailsIInv
<1>3. ASSUME NEW s \in Sessions, TurnStep(s) PROVE ChatIInv'
  BY <1>3, ModelAnswersIInv, ModelFailsIInv, StoreIInv, StoreFailsIInv, CommitIInv, CommitFailsIInv
     DEF TurnStep
<1>4. CASE Stop
  BY <1>4, StopIInv
<1>5. CASE UNCHANGED chatVars
  BY <1>5 DEF chatVars, ChatIInv, SessionsFit, TurnsAreOwned, AnswersFollowQuestions,
     RequestsStoreWholeTurns, OwedAreKept, AnswersAreKept, NumberingHolds, Seen
<1>6. QED BY <1>1, <1>2, <1>3, <1>4, <1>5 DEF ChatNext

(* The inductive invariant holds in every reachable state. *)
LEMMA ChatInvariance == ChatSpec => []ChatIInv
<1>1. ChatInit => ChatIInv
  BY ChatInitIInv, ChatAssumption
<1>2. ChatIInv /\ [ChatNext]_chatVars => ChatIInv'
  BY ChatNextIInv, ChatAssumption
<1>3. QED BY <1>1, <1>2, PTL DEF ChatSpec

(* agent_runtime.py, db.py: whatever overlaps, fails, deadlocks or is      *)
(* rolled back, a request stores a whole turn or nothing of it, and no     *)
(* answer is stored without its question.                                  *)
THEOREM StoredTurnsAreWhole == ChatSpec => []StoredTurnsAreSound
<1>1. ChatIInv => StoredTurnsAreSound
  <2>1. SUFFICES ASSUME ChatIInv PROVE ChatTypeOK
    BY DEF ChatIInv, StoredTurnsAreSound
  <2>2. \A s \in Sessions : session[s] \in IdleSessions \cup BusySessions
    BY <2>1 DEF ChatIInv, SessionsFit, Fits
  <2>3. QED BY <2>1, <2>2 DEF ChatIInv, SessionsFit, OwedAreKept, ChatTypeOK, IdleSessions, BusySessions
<1>2. QED BY <1>1, ChatInvariance, PTL

(* An answer a client has got is stored, or waits in the session of a      *)
(* socket that is still open, unless the database lost it or the process   *)
(* stopped; an exception of the model loses none.                          *)
THEOREM PromisedAnswersAreKept == ChatSpec => []AnswersAreKept
<1>1. ChatIInv => AnswersAreKept
  BY DEF ChatIInv, OwedAreKept
<1>2. QED BY <1>1, ChatInvariance, PTL

(* As long as no turn begins next to another, sequence numbers are 1, 2,   *)
(* 3, ... in the order of the turns, up to the length of the history.      *)
THEOREM SequenceNumbersAreGapless == ChatSpec => []ShortConversationsAreNumbered
<1>1. ChatIInv => ShortConversationsAreNumbered
  <2>1. \A s \in Sessions, k \in Conversations : Visible(s, k) = Seen(session[s].pending, k)
    BY DEF Visible, Seen
  <2>2. SUFFICES ASSUME ChatIInv, ~overlapped, NEW s \in Sessions, NEW k \in Conversations
                 PROVE  Numbered(Visible(s, k))
    BY DEF ShortConversationsAreNumbered, Numbered
  <2>3. QED BY <2>1, <2>2, SeenIsNumbered
<1>2. QED BY <1>1, ChatInvariance, PTL
=============================================================================
