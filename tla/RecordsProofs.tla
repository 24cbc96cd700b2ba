--------------------------- MODULE RecordsProofs ---------------------------
(***************************************************************************)
(* Proofs about what is kept of users and their work - memories,           *)
(* conversations, spaces, documents, reports, erasures.  Each component is *)
(* on its own, as in ThinkingProofs.                                       *)
(***************************************************************************)
EXTENDS ThinkingProofs, Erasure, AgentMemories, Assessments, Conversations,
        DocumentVersions

-----------------------------------------------------------------------------
(* GDPR requests.                                                          *)

AccountStates == {[email |-> "own", active |-> TRUE], [email |-> "redacted", active |-> FALSE]}

ReadTables == {"conversations", "messages", "audit"}

FitsEraser(x) ==
  x # Idle =>
    /\ DOMAIN x = {"pc", "seen"} /\ x.pc \in 1 .. 5
    /\ DOMAIN x.seen = {Order[i] : i \in {j \in 1 .. 3 : j < x.pc}}

(* What an export has taken of one table. *)
HasTaken(b, x) ==
  /\ x.known
  /\ b \in ReadTables
  /\ b = "conversations" => \A t \in x.before : first[t] \in x.data[b]
  /\ b = "messages" => /\ x.before \subseteq x.data[b] /\ x.data[b] \subseteq Turns
                       /\ \A t \in x.data[b] : first[t] \in x.data["conversations"] /\ turn[t] = "committed"
  /\ b = "audit" => x.before \subseteq x.data[b] \/ Cardinality(x.data[b]) = AuditLimit

FitsExport(x) ==
  x # Idle =>
    /\ DOMAIN x = {"pc", "data", "before", "known"} /\ x.pc \in 1 .. 4
    /\ x.before \subseteq Turns
    /\ \A t \in x.before : turn[t] = "committed"
    /\ x.known => DOMAIN x.data = {Order[i] : i \in {j \in 1 .. 3 : j < x.pc}}
    /\ \A b \in DOMAIN x.data : HasTaken(b, x)

(* What an erasure has not found in the tables it has read, or will not    *)
(* find, came later.                                                       *)
Saw(x) ==
  x # Idle =>
    /\ \A b \in DOMAIN x.seen : \A t \in Turns :
         /\ t \in x.seen[b] => stored[t][b] # "none"
         /\ t \notin x.seen[b] /\ stored[t][b] = "personal" => <<t, b>> \in late
    /\ "conversations" \in DOMAIN x.seen =>
         \A t \in Turns : first[t] \notin x.seen["conversations"] /\ stored[t]["messages"] = "personal"
                          => <<t, "messages">> \in late

(* Every conversation is there before its second turn, and with its first. *)
Conversing(t) ==
  /\ first[t] \in Turns
  /\ first[t] = t \/ stored[first[t]]["conversations"] # "none"
  /\ \A b \in {"messages", "audit"} : stored[t][b] = "none" <=> turn[t] # "committed"
  /\ stored[t]["conversations"] = "none" <=> ~(turn[t] = "committed" /\ first[t] = t)

ErasureIInv ==
  /\ account \in AccountStates
  /\ turn \in [Turns -> {"none", "open", "committed"}]
  /\ first = [t \in Turns |-> first[t]]
  /\ stored \in [Turns -> [Tables -> {"none", "personal", "redacted"}]]
  /\ \A t \in Turns : Conversing(t)
  /\ eraser = [e \in Erasers |-> eraser[e]]
  /\ \A e \in Erasers : FitsEraser(eraser[e]) /\ Saw(eraser[e])
  /\ FitsExport(export)
  /\ ErasureReachesAll

(* Nothing is recorded and nothing requested at first. *)
LEMMA ErasureInitIInv ==
  ASSUME ErasureInit
  PROVE  ErasureIInv
<1>1. \A t \in Turns : turn[t] = "none" /\ first[t] = t /\ \A b \in Tables : stored[t][b] = "none"
  BY DEF ErasureInit
<1>2. \A t \in Turns : Conversing(t)
  BY <1>1 DEF Conversing, Tables
<1>3. QED BY <1>2 DEF ErasureInit, ErasureIInv, AccountStates, Idle, FitsEraser, FitsExport, ErasureReachesAll,
                     Tables, Saw

(* The conversations are erased before the messages, and these before the  *)
(* audit entries.                                                          *)
LEMMA OrderIs ==
  /\ Order[1] = "conversations" /\ Order[2] = "messages" /\ Order[3] = "audit"
  /\ Len(Order) = 3 /\ DOMAIN Order = {1, 2, 3}
  /\ ReadTables \subseteq Tables
  /\ {Order[i] : i \in {j \in 1 .. 3 : j < 1}} = {}
  /\ {Order[i] : i \in {j \in 1 .. 3 : j < 2}} = {"conversations"}
  /\ {Order[i] : i \in {j \in 1 .. 3 : j < 3}} = {"conversations", "messages"}
  /\ {Order[i] : i \in {j \in 1 .. 3 : j < 4}} = ReadTables
  /\ {Order[i] : i \in {j \in 1 .. 3 : j < 5}} = ReadTables
<1>1. Order[1] = "conversations" /\ Order[2] = "messages" /\ Order[3] = "audit" /\ Len(Order) = 3
      /\ DOMAIN Order = {1, 2, 3}
  BY DEF Order
<1>2. {j \in 1 .. 3 : j < 1} = {} /\ {j \in 1 .. 3 : j < 2} = {1} /\ {j \in 1 .. 3 : j < 3} = {1, 2}
  OBVIOUS
<1>3. {j \in 1 .. 3 : j < 4} = {1, 2, 3} /\ {j \in 1 .. 3 : j < 5} = {1, 2, 3}
  OBVIOUS
<1>4. QED BY <1>1, <1>2, <1>3 DEF Tables, ReadTables

(* An erasure reads what it has read of the tables. *)
LEMMA SeenTables ==
  ASSUME NEW x, FitsEraser(x), x # Idle
  PROVE  /\ DOMAIN x.seen \subseteq ReadTables
         /\ x.pc \in {4, 5} => DOMAIN x.seen = ReadTables
<1>1. x.pc \in {1, 2, 3, 4, 5}
  BY DEF FitsEraser
<1>2. QED BY <1>1, OrderIs DEF FitsEraser, ReadTables

(* An export is not changed by the turns that open and commit. *)
LEMMA ExportStays ==
  ASSUME FitsExport(export), export' = export,
         \A t \in Turns : turn[t] = "committed" => turn'[t] = "committed" /\ first'[t] = first[t]
  PROVE  FitsExport(export)'
<1> SUFFICES ASSUME export # Idle PROVE FitsExport(export)'
  BY DEF FitsExport
<1>1. /\ DOMAIN export = {"pc", "data", "before", "known"} /\ export.pc \in 1 .. 4
      /\ export.before \subseteq Turns /\ \A t \in export.before : turn[t] = "committed"
      /\ export.known => DOMAIN export.data = {Order[i] : i \in {j \in 1 .. 3 : j < export.pc}}
  BY DEF FitsExport
<1>2. ASSUME NEW b \in DOMAIN export.data PROVE HasTaken(b, export)'
  <2>1. HasTaken(b, export) BY DEF FitsExport
  <2>2. export.known /\ b \in ReadTables BY <2>1 DEF HasTaken
  <2>3. CASE b = "conversations" BY <1>1, <2>1, <2>2, <2>3 DEF HasTaken
  <2>4. CASE b = "messages" BY <1>1, <2>1, <2>2, <2>4 DEF HasTaken
  <2>5. CASE b = "audit" BY <1>1, <2>1, <2>2, <2>5 DEF HasTaken
  <2> QED BY <2>2, <2>3, <2>4, <2>5 DEF ReadTables
<1> QED BY <1>1, <1>2 DEF FitsExport

(* A turn adds its rows, for whoever reads after it. *)
LEMMA CommitTurnIInv ==
  ASSUME ErasureIInv, NEW t \in Turns, CommitTurn(t)
  PROVE  ErasureIInv'
<1> USE OrderIs
<1>1. /\ turn[t] = "open" /\ turn' = [turn EXCEPT ![t] = "committed"]
      /\ stored' = [stored EXCEPT ![t] = [b \in Tables |-> RowWritten(t, b)]]
      /\ account' = account /\ first' = first /\ eraser' = eraser /\ export' = export
      /\ late \subseteq late'
  BY DEF CommitTurn
<1>2. \A u \in Turns \ {t} : stored'[u] = stored[u] /\ turn'[u] = turn[u]
  BY <1>1 DEF ErasureIInv
<1>3. turn'[t] = "committed" /\ \A b \in Tables : stored'[t][b] = RowWritten(t, b)
  BY <1>1 DEF ErasureIInv
<1>4. \A e \in Erasers, b \in Tables : PassesBy(e, t, b) => <<t, b>> \in late'
  BY DEF CommitTurn
<1>5. ~account.active => \A b \in Tables : <<t, b>> \in late'
  BY DEF CommitTurn
<1>6. /\ turn' \in [Turns -> {"none", "open", "committed"}]
      /\ stored' \in [Turns -> [Tables -> {"none", "personal", "redacted"}]]
  BY <1>1 DEF ErasureIInv, RowWritten
<1>7. /\ \A u \in Turns \ {t} : Conversing(u) /\ first'[u] = first[u]
      /\ Conversing(t) /\ first'[t] = first[t]
  BY <1>1 DEF ErasureIInv
<1>8. /\ stored'[t]["messages"] # "none" /\ stored'[t]["audit"] # "none"
      /\ stored'[t]["conversations"] = "none" <=> first[t] # t
      /\ stored[t]["conversations"] = "none" /\ stored[t]["messages"] = "none" /\ stored[t]["audit"] = "none"
  BY <1>1, <1>3, <1>7 DEF RowWritten, Conversing, ReadTables
<1>9. \A u \in Turns : Conversing(u)'
  <2> SUFFICES ASSUME NEW u \in Turns PROVE Conversing(u)' OBVIOUS
  <2>1. first[u] \in Turns /\ first'[u] = first[u] /\ Conversing(u) BY <1>7 DEF Conversing
  <2>2. stored[first[u]]["conversations"] # "none" => stored'[first[u]]["conversations"] # "none"
    BY <1>2, <1>8, <2>1
  <2>3. CASE u = t BY <1>3, <1>8, <2>1, <2>2, <2>3 DEF Conversing
  <2>4. CASE u # t BY <1>2, <2>1, <2>2, <2>4 DEF Conversing
  <2> QED BY <2>3, <2>4
<1>10. ASSUME NEW e \in Erasers PROVE FitsEraser(eraser'[e]) /\ Saw(eraser[e])'
  <2>1. Saw(eraser[e]) /\ FitsEraser(eraser[e]) /\ eraser'[e] = eraser[e] BY <1>1 DEF ErasureIInv
  <2>2. ASSUME eraser[e] # Idle, NEW b \in DOMAIN eraser[e].seen, NEW u \in Turns
        PROVE  /\ u \in eraser[e].seen[b] => stored'[u][b] # "none"
               /\ u \notin eraser[e].seen[b] /\ stored'[u][b] = "personal" => <<u, b>> \in late'
    <3>1. b \in ReadTables BY <2>1, <2>2, SeenTables
    <3>2. CASE u = t
      <4>1. stored[t][b] = "none" BY <1>8, <3>1 DEF ReadTables
      <4>2. PassesBy(e, t, b) BY <2>2 DEF PassesBy
      <4> QED BY <1>4, <2>1, <2>2, <3>1, <3>2, <4>1, <4>2 DEF Saw
    <3>3. CASE u # t BY <1>1, <1>2, <2>1, <2>2, <3>3 DEF Saw
    <3> QED BY <3>2, <3>3
  <2>3. ASSUME eraser[e] # Idle, "conversations" \in DOMAIN eraser[e].seen, NEW u \in Turns,
               first[u] \notin eraser[e].seen["conversations"], stored'[u]["messages"] = "personal"
        PROVE  <<u, "messages">> \in late'
    <3>1. CASE u = t
      <4>1. PassesBy(e, t, "messages") /\ "messages" \in Tables BY <2>3, <3>1 DEF PassesBy, Tables
      <4> QED BY <1>4, <3>1, <4>1
    <3>2. CASE u # t BY <1>1, <1>2, <2>1, <2>3, <3>2 DEF Saw
    <3> QED BY <3>1, <3>2
  <2> QED BY <1>1, <2>1, <2>2, <2>3 DEF Saw
<1>11. FitsExport(export)'
  <2>1. \A u \in Turns : turn[u] = "committed" => turn'[u] = "committed" BY <1>2, <1>3
  <2> QED BY <1>1, <2>1, ExportStays DEF ErasureIInv
<1>12. ErasureReachesAll'
  <2>1. account.email = "redacted" => ~account.active BY DEF ErasureIInv, AccountStates
  <2>2. ReadTables = {"conversations", "messages", "audit"} BY DEF ReadTables
  <2> QED BY <1>1, <1>2, <1>5, <2>1, <2>2 DEF ErasureIInv, ErasureReachesAll
<1> QED BY <1>1, <1>6, <1>9, <1>10, <1>11, <1>12 DEF ErasureIInv

(* A step that writes no rows. *)
LEMMA ErasureReads ==
  ASSUME ErasureIInv, UNCHANGED <<account, turn, first, stored, late>>,
         FitsExport(export'), eraser' = [e \in Erasers |-> eraser'[e]],
         \A e \in Erasers : eraser'[e] = eraser[e] \/ (FitsEraser(eraser'[e]) /\ Saw(eraser'[e]))
  PROVE  ErasureIInv'
<1>1. FitsExport(export)'
  BY DEF FitsExport, HasTaken
<1>2. ErasureReachesAll' /\ \A t \in Turns : Conversing(t)'
  BY DEF ErasureIInv, ErasureReachesAll, Conversing
<1>3. \A e \in Erasers : FitsEraser(eraser'[e]) /\ Saw(eraser'[e])
  BY DEF ErasureIInv
<1>4. \A e \in Erasers : Saw(eraser[e])'
  BY <1>3 DEF Saw
<1> QED BY <1>1, <1>2, <1>3, <1>4 DEF ErasureIInv

(* Every step of turns, erasures and exports preserves the invariant. *)
LEMMA ErasureNextIInv ==
  ASSUME ErasureIInv, [ErasureNext]_erasureVars
  PROVE  ErasureIInv'
<1> USE OrderIs
<1>1. CASE CreateRequest
  <2>1. UNCHANGED <<account, turn, first, stored, late>> /\ eraser' = eraser /\ export' = export
    BY <1>1 DEF CreateRequest
  <2> QED BY <2>1, ErasureReads DEF ErasureIInv
<1>2. CASE BeginExport
  <2>1. /\ UNCHANGED <<account, turn, first, stored, late>> /\ eraser' = eraser
        /\ export' = [pc |-> 1, data |-> <<>>, before |-> RowsOf("messages"), known |-> account.email = "own"]
    BY <1>2 DEF BeginExport
  <2>2. FitsExport(export')
    <3>1. DOMAIN << >> = {} OBVIOUS
    <3>2. \A t \in RowsOf("messages") : turn[t] = "committed" /\ t \in Turns
      BY DEF RowsOf, ErasureIInv, Conversing
    <3> QED BY <2>1, <3>1, <3>2 DEF FitsExport
  <2> QED BY <2>1, <2>2, ErasureReads DEF ErasureIInv
<1>3. CASE ExportTable
  <2>1. UNCHANGED <<account, turn, first, stored, late>> /\ eraser' = eraser
    BY <1>3 DEF ExportTable
  <2>2. /\ export # Idle /\ export.pc \in {1, 2, 3} /\ FitsExport(export)
    BY <1>3 DEF ExportTable, ErasureIInv
  <2>3. CASE ~export.known
    <3>1. export' = [export EXCEPT !.pc = @ + 1]
      BY <1>3, <2>3 DEF ExportTable
    <3>2. DOMAIN export.data = {} /\ export.pc + 1 \in 1 .. 4
      BY <2>2, <2>3 DEF FitsExport, HasTaken
    <3> QED BY <2>1, <2>2, <2>3, <3>1, <3>2, ErasureReads DEF ErasureIInv, FitsExport
  <2>4. CASE export.known
    <3>1. PICK table, rows, data :
            /\ table = Order[export.pc] /\ rows \in Takes(table, export.data)
            /\ data = AndSeen(export.data, table, rows)
            /\ export' = [export EXCEPT !.pc = @ + 1, !.data = data]
      BY <1>3, <2>4 DEF ExportTable
    <3>2. /\ DOMAIN data = {table} \cup DOMAIN export.data /\ data[table] = rows
          /\ \A b \in DOMAIN export.data \ {table} : data[b] = export.data[b]
      BY <3>1 DEF AndSeen
    <3>3. /\ export'.pc = export.pc + 1 /\ export'.data = data /\ export'.before = export.before
          /\ export'.known = export.known /\ DOMAIN export' = {"pc", "data", "before", "known"}
      BY <2>2, <3>1 DEF FitsExport
    <3>4. /\ DOMAIN export.data = {Order[i] : i \in {j \in 1 .. 3 : j < export.pc}}
          /\ \A b \in DOMAIN export.data : HasTaken(b, export)
          /\ \A t \in export.before : turn[t] = "committed" /\ t \in Turns
      BY <2>2, <2>4 DEF FitsExport
    <3>5. \A t \in export.before : /\ t \in RowsOf("messages") /\ t \in RowsOf("audit")
                                   /\ first[t] \in RowsOf("conversations")
      BY <3>4 DEF ErasureIInv, Conversing, RowsOf
    <3>6. CASE export.pc = 1
      <4>1. table = "conversations" /\ DOMAIN export.data = {} BY <3>1, <3>4, <3>6
      <4>2. rows = RowsOf("conversations") BY <3>1, <4>1 DEF Takes, Finds
      <4>3. HasTaken("conversations", export') BY <2>4, <3>2, <3>3, <3>5, <4>1, <4>2 DEF HasTaken, ReadTables
      <4>4. DOMAIN export'.data = {"conversations"} /\ export'.pc = 2 BY <3>2, <3>3, <3>6, <4>1
      <4> QED BY <2>1, <3>3, <3>4, <4>3, <4>4, ErasureReads DEF ErasureIInv, FitsExport
    <3>7. CASE export.pc = 2
      <4>1. table = "messages" /\ DOMAIN export.data = {"conversations"} BY <3>1, <3>4, <3>7
      <4>2. rows = {t \in RowsOf("messages") : first[t] \in export.data["conversations"]}
        BY <3>1, <4>1 DEF Takes, Finds
      <4>3. HasTaken("conversations", export) BY <3>4, <4>1
      <4>4. data["conversations"] = export.data["conversations"] BY <3>2, <4>1
      <4>5. HasTaken("conversations", export') BY <2>4, <3>3, <4>3, <4>4 DEF HasTaken
      <4>6. \A t \in RowsOf("messages") : turn[t] = "committed" /\ t \in Turns BY DEF RowsOf, ErasureIInv, Conversing
      <4>7. export.before \subseteq rows BY <3>5, <4>2, <4>3 DEF HasTaken
      <4>8. HasTaken("messages", export')
        BY <2>4, <3>2, <3>3, <4>1, <4>2, <4>4, <4>6, <4>7 DEF HasTaken, ReadTables
      <4>9. DOMAIN export'.data = {"conversations", "messages"} /\ export'.pc = 3 BY <3>2, <3>3, <3>7, <4>1
      <4> QED BY <2>1, <3>3, <3>4, <4>5, <4>8, <4>9, ErasureReads DEF ErasureIInv, FitsExport
    <3>8. CASE export.pc = 3
      <4>1. table = "audit" /\ DOMAIN export.data = {"conversations", "messages"} BY <3>1, <3>4, <3>8
      <4>2. rows = RowsOf("audit") \/ Cardinality(rows) = AuditLimit
        BY <3>1, <4>1 DEF Takes
      <4>3. HasTaken("conversations", export) /\ HasTaken("messages", export) BY <3>4, <4>1
      <4>4. data["conversations"] = export.data["conversations"] /\ data["messages"] = export.data["messages"]
        BY <3>2, <4>1
      <4>5. HasTaken("conversations", export') /\ HasTaken("messages", export')
        BY <2>4, <3>3, <4>3, <4>4 DEF HasTaken
      <4>6. HasTaken("audit", export')
        BY <2>4, <3>2, <3>3, <3>5, <4>1, <4>2 DEF HasTaken, ReadTables
      <4>7. DOMAIN export'.data = ReadTables /\ export'.pc = 4 BY <3>2, <3>3, <3>8, <4>1 DEF ReadTables
      <4> QED BY <2>1, <3>3, <3>4, <4>5, <4>6, <4>7, ErasureReads DEF ErasureIInv, FitsExport, ReadTables
    <3> QED BY <2>2, <3>6, <3>7, <3>8
  <2> QED BY <2>3, <2>4
<1>4. ASSUME NEW t \in Turns, OpenTurn(t)
      PROVE  ErasureIInv'
  <2>1. PICK f \in RowsOf("conversations") \cup {t} :
        /\ turn[t] = "none" /\ turn' = [turn EXCEPT ![t] = "open"]
        /\ first' = [first EXCEPT ![t] = f]
        /\ UNCHANGED <<account, stored, eraser, export, late>>
    BY <1>4 DEF OpenTurn
  <2>2. \A u : turn[u] = "committed" => turn'[u] = "committed" /\ u # t
    BY <2>1
  <2>3. turn' \in [Turns -> {"none", "open", "committed"}] /\ first' = [u \in Turns |-> first'[u]]
        /\ first'[t] = f /\ turn'[t] = "open"
        /\ \A u \in Turns : u # t => first'[u] = first[u] /\ turn'[u] = turn[u]
    BY <2>1 DEF ErasureIInv
  <2>4. FitsExport(export)'
    BY <2>1, <2>2, <2>3, ExportStays DEF ErasureIInv
  <2>5. ASSUME NEW u \in Turns PROVE Conversing(u)'
    <3>1. Conversing(u) BY DEF ErasureIInv
    <3>2. CASE u = t
      <4>1. f \in Turns /\ (f = t \/ stored[f]["conversations"] # "none") BY <2>1 DEF RowsOf
      <4> QED BY <2>1, <2>3, <3>1, <3>2, <4>1 DEF Conversing
    <3>3. CASE u # t BY <2>1, <2>3, <3>1, <3>3 DEF Conversing
    <3> QED BY <3>2, <3>3
  <2>6. stored[t]["messages"] = "none"
    BY <2>1 DEF ErasureIInv, Conversing
  <2>7. \A e \in Erasers : Saw(eraser[e])'
    <3> SUFFICES ASSUME NEW e \in Erasers PROVE Saw(eraser[e])' OBVIOUS
    <3>1. Saw(eraser[e]) BY DEF ErasureIInv
    <3> QED BY <2>1, <2>3, <2>6, <3>1 DEF Saw
  <2> QED BY <2>1, <2>3, <2>4, <2>5, <2>7 DEF ErasureIInv, ErasureReachesAll, FitsEraser
<1>5. ASSUME NEW e \in Erasers, NEW x, eraser' = [eraser EXCEPT ![e] = x], x = Idle \/ (FitsEraser(x) /\ x.seen = eraser[e].seen /\ eraser[e] # Idle),
             UNCHANGED <<account, turn, first, stored, late>>, export' = export
      PROVE  ErasureIInv'
  <2>1. eraser' = [f \in Erasers |-> eraser'[f]] BY <1>5 DEF ErasureIInv
  <2>2. FitsEraser(x) BY <1>5 DEF FitsEraser
  <2>3. ASSUME NEW f \in Erasers PROVE eraser'[f] = eraser[f] \/ (FitsEraser(eraser'[f]) /\ Saw(eraser'[f]))
    <3>1. CASE f # e BY <1>5, <3>1 DEF ErasureIInv
    <3>2. CASE f = e
      <4>1. eraser'[f] = x BY <1>5, <3>2 DEF ErasureIInv
      <4> QED BY <1>5, <2>2, <3>2, <4>1 DEF ErasureIInv, Saw
    <3> QED BY <3>1, <3>2
  <2>4. FitsExport(export') BY <1>5 DEF ErasureIInv
  <2> QED BY <1>5, <2>1, <2>3, <2>4, ErasureReads
<1>6. ASSUME NEW e \in Erasers, BeginErasure(e)
      PROVE  ErasureIInv'
  <2> DEFINE x == [pc |-> 1, seen |-> <<>>]
  <2>1. eraser' = [eraser EXCEPT ![e] = x] /\ UNCHANGED <<account, turn, first, stored, late>> /\ export' = export
    BY <1>6 DEF BeginErasure
  <2>2. DOMAIN << >> = {} OBVIOUS
  <2>3. FitsEraser(x) /\ Saw(x) BY <2>2 DEF FitsEraser, Saw
  <2> HIDE DEF x
  <2>4. eraser' = [f \in Erasers |-> eraser'[f]] /\ eraser'[e] = x
        /\ \A f \in Erasers \ {e} : eraser'[f] = eraser[f]
    BY <2>1 DEF ErasureIInv
  <2>5. FitsExport(export') BY <2>1 DEF ErasureIInv
  <2> QED BY <2>1, <2>3, <2>4, <2>5, ErasureReads
<1>7. ASSUME NEW e \in Erasers, ReadTable(e)
      PROVE  ErasureIInv'
  <2> DEFINE y == eraser[e]
  <2>1. PICK table, rows, seen, x :
        /\ y # Idle /\ y.pc \in {1, 2, 3} /\ table = Order[y.pc] /\ rows = Finds(table, y.seen)
        /\ seen = AndSeen(y.seen, table, rows) /\ x = [pc |-> y.pc + 1, seen |-> seen]
        /\ eraser' = [eraser EXCEPT ![e] = x]
        /\ UNCHANGED <<account, turn, first, stored, late>> /\ export' = export
    BY <1>7 DEF ReadTable
  <2>2. FitsEraser(y) /\ Saw(y) BY DEF ErasureIInv
  <2>3. /\ DOMAIN seen = {table} \cup DOMAIN y.seen /\ seen[table] = rows
        /\ \A b \in DOMAIN y.seen \ {table} : seen[b] = y.seen[b]
    BY <2>1 DEF AndSeen
  <2> HIDE DEF y
  <2>4. DOMAIN x = {"pc", "seen"} /\ x.pc = y.pc + 1 /\ x.seen = seen
    BY <2>1
  <2>5. FitsEraser(x)
    <3>1. CASE y.pc = 1 BY <2>1, <2>2, <2>3, <2>4, <3>1 DEF FitsEraser
    <3>2. CASE y.pc = 2 BY <2>1, <2>2, <2>3, <2>4, <3>2 DEF FitsEraser
    <3>3. CASE y.pc = 3 BY <2>1, <2>2, <2>3, <2>4, <3>3 DEF FitsEraser, ReadTables
    <3> QED BY <2>1, <3>1, <3>2, <3>3
  <2>6. table \in ReadTables /\ (table = "messages" => "conversations" \in DOMAIN y.seen)
    <3>1. CASE y.pc = 1 BY <2>1, <3>1 DEF ReadTables
    <3>2. CASE y.pc = 2 BY <2>1, <2>2, <3>2 DEF FitsEraser, ReadTables
    <3>3. CASE y.pc = 3 BY <2>1, <3>3 DEF ReadTables
    <3> QED BY <2>1, <3>1, <3>2, <3>3
  <2>7. ASSUME NEW t \in Turns
        PROVE  /\ t \in rows => stored[t][table] # "none"
               /\ t \notin rows /\ stored[t][table] = "personal" => <<t, table>> \in late
    <3>1. t \in rows => stored[t][table] # "none" BY <2>1 DEF Finds, RowsOf
    <3>2. CASE table = "messages"
      <4>1. t \notin rows /\ stored[t][table] = "personal" => first[t] \notin y.seen["conversations"]
        BY <2>1, <3>2 DEF Finds, RowsOf
      <4> QED BY <2>1, <2>2, <2>6, <3>1, <3>2, <4>1 DEF Saw
    <3>3. CASE table # "messages" BY <2>1, <3>1, <3>3 DEF Finds, RowsOf
    <3> QED BY <3>2, <3>3
  <2>8. ASSUME "conversations" \in DOMAIN seen, NEW t \in Turns,
               first[t] \notin seen["conversations"], stored[t]["messages"] = "personal"
        PROVE  <<t, "messages">> \in late
    <3>1. CASE table = "conversations"
      <4>1. Conversing(t) /\ first[t] \in Turns BY DEF ErasureIInv, Conversing
      <4>2. stored[first[t]]["conversations"] # "none" BY <2>8, <4>1 DEF Conversing
      <4> QED BY <2>1, <2>3, <2>8, <3>1, <4>1, <4>2 DEF Finds, RowsOf
    <3>2. CASE table # "conversations" BY <2>1, <2>2, <2>3, <2>8, <3>2 DEF Saw
    <3> QED BY <3>1, <3>2
  <2>9. Saw(x) BY <2>1, <2>2, <2>3, <2>4, <2>7, <2>8 DEF Saw
  <2>10. eraser' = [f \in Erasers |-> eraser'[f]] /\ eraser'[e] = x
         /\ \A f \in Erasers \ {e} : eraser'[f] = eraser[f]
    BY <2>1 DEF ErasureIInv
  <2>11. FitsExport(export') BY <2>1 DEF ErasureIInv
  <2> QED BY <2>1, <2>5, <2>9, <2>10, <2>11, ErasureReads
<1>8. ASSUME NEW e \in Erasers, FlushErasure(e)
      PROVE  ErasureIInv'
  <2> DEFINE x == [eraser[e] EXCEPT !.pc = @ + 1]
  <2>1. /\ eraser[e] # Idle /\ eraser[e].pc = 4 /\ eraser' = [eraser EXCEPT ![e] = x]
        /\ UNCHANGED <<account, turn, first, stored, late>> /\ export' = export
    BY <1>8 DEF FlushErasure
  <2>2. FitsEraser(x) /\ x.seen = eraser[e].seen
    BY <2>1 DEF ErasureIInv, FitsEraser
  <2> HIDE DEF x
  <2> QED BY <1>5, <2>1, <2>2
<1>9. ASSUME NEW e \in Erasers, AbortErasure(e)
      PROVE  ErasureIInv'
  BY <1>5, <1>9 DEF AbortErasure
<1>10. ASSUME NEW e \in Erasers, CommitErasure(e)
       PROVE  ErasureIInv'
  <2> DEFINE seen == eraser[e].seen
  <2>1. /\ eraser[e] # Idle /\ eraser[e].pc = 5 /\ eraser' = [eraser EXCEPT ![e] = Idle]
        /\ stored' = [t \in Turns |-> [b \in Tables |-> Redacted(t, b, seen)]]
        /\ account' = [email |-> "redacted", active |-> FALSE]
        /\ turn' = turn /\ first' = first /\ export' = export /\ late' = late
    BY <1>10 DEF CommitErasure
  <2>2. DOMAIN seen = ReadTables /\ FitsEraser(eraser[e]) /\ Saw(eraser[e])
    BY <2>1, SeenTables DEF ErasureIInv
  <2>3. \A b \in ReadTables : \A t \in Turns :
          /\ t \in seen[b] => stored[t][b] # "none"
          /\ t \notin seen[b] /\ stored[t][b] = "personal" => <<t, b>> \in late
    BY <2>1, <2>2 DEF Saw
  <2> HIDE DEF seen
  <2>4. \A t \in Turns, b \in Tables :
          stored'[t][b] = IF b \in ReadTables /\ t \in seen[b] THEN "redacted" ELSE stored[t][b]
    BY <2>1, <2>2 DEF Redacted
  <2>5. \A t \in Turns, b \in Tables : stored'[t][b] = "personal" => stored[t][b] = "personal"
    BY <2>4
  <2>6. stored' \in [Turns -> [Tables -> {"none", "personal", "redacted"}]]
    <3>1. \A t \in Turns, b \in Tables : Redacted(t, b, seen) \in {"none", "personal", "redacted"}
      BY DEF Redacted, ErasureIInv
    <3> QED BY <2>1, <3>1
  <2>7. \A t \in Turns, b \in ReadTables : stored'[t][b] = "none" <=> stored[t][b] = "none"
    BY <2>3, <2>4
  <2>8. ASSUME NEW t \in Turns PROVE Conversing(t)'
    <3>1. Conversing(t) /\ first[t] \in Turns BY DEF ErasureIInv, Conversing
    <3>2. "conversations" \in ReadTables /\ "messages" \in ReadTables /\ "audit" \in ReadTables BY DEF ReadTables
    <3>3. stored'[first[t]]["conversations"] = "none" <=> stored[first[t]]["conversations"] = "none"
      BY <2>7, <3>1, <3>2
    <3>4. \A b \in ReadTables : stored'[t][b] = "none" <=> stored[t][b] = "none"
      BY <2>7
    <3>5. turn'[t] = turn[t] /\ first'[t] = first[t]
      BY <2>1
    <3> QED BY <3>1, <3>2, <3>3, <3>4, <3>5 DEF Conversing
  <2>9. ErasureReachesAll'
    <3> SUFFICES ASSUME NEW t \in Turns, NEW b \in ReadTables, stored'[t][b] = "personal"
                 PROVE  <<t, b>> \in late'
      BY DEF ErasureReachesAll, ReadTables
    <3>1. t \notin seen[b] /\ stored[t][b] = "personal" BY <2>4
    <3> QED BY <2>1, <2>3, <3>1
  <2>10. \A f \in Erasers : eraser'[f] = Idle \/ eraser'[f] = eraser[f]
    BY <2>1 DEF ErasureIInv
  <2>11. ASSUME NEW f \in Erasers PROVE FitsEraser(eraser'[f]) /\ Saw(eraser[f])'
    <3>1. CASE eraser'[f] = Idle BY <3>1 DEF FitsEraser, Saw
    <3>2. CASE eraser'[f] = eraser[f] /\ eraser[f] # Idle
      <4>1. FitsEraser(eraser[f]) /\ Saw(eraser[f]) BY DEF ErasureIInv
      <4>2. DOMAIN eraser[f].seen \subseteq ReadTables BY <3>2, <4>1, SeenTables
      <4>3. "messages" \in Tables BY DEF Tables
      <4>4. \A b \in Tables : \A t \in Turns : stored'[t][b] = "personal" => stored[t][b] = "personal"
        BY <2>5
      <4>5. ReadTables \subseteq Tables OBVIOUS
      <4>6. late' = late /\ first' = first BY <2>1
      <4>7. FitsEraser(eraser'[f]) BY <3>2, <4>1
      <4>8. Saw(eraser[f])'
        <5> SUFFICES ASSUME eraser'[f] # Idle PROVE Saw(eraser[f])' BY DEF Saw
        <5>1. \A b \in DOMAIN eraser'[f].seen : \A t \in Turns :
                /\ t \in eraser'[f].seen[b] => stored'[t][b] # "none"
                /\ t \notin eraser'[f].seen[b] /\ stored'[t][b] = "personal" => <<t, b>> \in late'
          <6> SUFFICES ASSUME NEW b \in DOMAIN eraser'[f].seen, NEW t \in Turns
                       PROVE  /\ t \in eraser'[f].seen[b] => stored'[t][b] # "none"
                              /\ t \notin eraser'[f].seen[b] /\ stored'[t][b] = "personal" => <<t, b>> \in late'
            OBVIOUS
          <6>1. b \in DOMAIN eraser[f].seen /\ b \in ReadTables /\ eraser'[f].seen[b] = eraser[f].seen[b]
            BY <3>2, <4>2
          <6>2. stored'[t][b] = "none" <=> stored[t][b] = "none" BY <2>7, <6>1
          <6>3. stored'[t][b] = "personal" => stored[t][b] = "personal" BY <4>4, <4>5, <6>1
          <6>4. /\ t \in eraser[f].seen[b] => stored[t][b] # "none"
                /\ t \notin eraser[f].seen[b] /\ stored[t][b] = "personal" => <<t, b>> \in late
            BY <3>2, <4>1, <6>1 DEF Saw
          <6> QED BY <4>6, <6>1, <6>2, <6>3, <6>4
        <5>2. "conversations" \in DOMAIN eraser'[f].seen =>
                \A t \in Turns : first'[t] \notin eraser'[f].seen["conversations"] /\ stored'[t]["messages"] = "personal"
                                 => <<t, "messages">> \in late'
          BY <3>2, <4>1, <4>3, <4>4, <4>6 DEF Saw
        <5> QED BY <5>1, <5>2 DEF Saw
      <4> QED BY <4>7, <4>8
    <3> QED BY <2>10, <3>1, <3>2
  <2>12. FitsExport(export)'
    BY <2>1, ExportStays DEF ErasureIInv
  <2>13. eraser' = [f \in Erasers |-> eraser'[f]] /\ account' \in AccountStates
    BY <2>1 DEF ErasureIInv, AccountStates
  <2>14. turn' \in [Turns -> {"none", "open", "committed"}] /\ first' = [t \in Turns |-> first'[t]]
    BY <2>1 DEF ErasureIInv
  <2> QED BY <2>6, <2>8, <2>9, <2>11, <2>12, <2>13, <2>14 DEF ErasureIInv, FitsEraser
<1>11. CASE UNCHANGED erasureVars
  <2>1. UNCHANGED <<account, turn, first, stored, late>> /\ eraser' = eraser /\ export' = export
    BY <1>11 DEF erasureVars
  <2> QED BY <2>1, ErasureReads DEF ErasureIInv
<1> QED BY <1>1, <1>2, <1>3, <1>4, <1>6, <1>7, <1>8, <1>9, <1>10, <1>11, CommitTurnIInv DEF ErasureNext

(* The invariant implies what a GDPR request promises. *)
LEMMA ErasureIInvSound ==
  ASSUME ErasureIInv
  PROVE  ErasureIsSound
BY DEF ErasureIInv, ErasureIsSound, ExportIsComplete, FitsExport, HasTaken

(* The inductive invariant holds in every reachable state. *)
LEMMA ErasureInvariance == ErasureSpec => []ErasureIInv
<1>1. ErasureInit => ErasureIInv
  BY ErasureInitIInv
<1>2. ErasureIInv /\ [ErasureNext]_erasureVars => ErasureIInv'
  BY ErasureNextIInv
<1>3. QED BY <1>1, <1>2, PTL DEF ErasureSpec

-----------------------------------------------------------------------------
(* Memories of agents.                                                     *)

MemoryRows == [importance : 0..MaxImportance, is_deleted : BOOLEAN, accessed : BOOLEAN, idle : 0..MaxIdle]

(* What no compaction that overlaps no other has deleted.                  *)
KeptMemories == Active \cup forgotten \cup surplus

(* What a compaction may delete. *)
Faint == {m \in Stored : memory[m].importance <= Unimportant \/ m \in revived}

FitsMemorySession(x, there, faint, k) ==
  \/ x.does = "nothing" /\ x = NoSession
  \/ x.does \in {"recall", "forget"} /\ x.rows \subseteq there
  \/ x.does = "decay" /\ x.rows \subseteq there /\ \A m \in x.rows : x.to[m] \in 0 .. MaxImportance
  \/ x.does = "count" /\ x.remove \in Nat /\ k >= MaxMemories + x.remove
  \/ x.does = "compact" /\ x.rows \subseteq there \cap faint /\ k >= MaxMemories + Cardinality(x.rows)

MemoryIInv ==
  /\ memory = [m \in Memories |-> memory[m]]
  /\ \A m \in Stored : memory[m] \in MemoryRows
  /\ IsFiniteSet(Stored)
  /\ forgotten \subseteq Stored \ Active /\ surplus \subseteq Stored
  /\ (Stored \ Active) \ forgotten \subseteq Faint
  /\ (Stored \ Active) \ forgotten # {} => Cardinality(KeptMemories) >= MaxMemories
  /\ session = [s \in MemorySessions |-> session[s]]
  /\ \A s \in MemorySessions : FitsMemorySession(session[s], Stored, Faint, Cardinality(KeptMemories))

(* No memory is stored at first. *)
LEMMA MemoryInitIInv ==
  ASSUME MemoriesInit
  PROVE  MemoryIInv
<1>1. Stored = {} /\ IsFiniteSet({})
  BY FS_EmptySet DEF MemoriesInit, Stored
<1>2. Active = {}
  BY <1>1 DEF Active
<1>3. \A s \in MemorySessions : session[s] = NoSession
  BY DEF MemoriesInit
<1> QED BY <1>1, <1>2, <1>3 DEF MemoriesInit, MemoryIInv, FitsMemorySession, NoSession

(* Memories are finite in number. *)
LEMMA KeptIsFinite ==
  ASSUME MemoryIInv
  PROVE  IsFiniteSet(KeptMemories) /\ Cardinality(KeptMemories) \in Nat /\ KeptMemories \subseteq Stored
<1>1. KeptMemories \subseteq Stored
  BY DEF KeptMemories, Active, MemoryIInv
<1> QED BY <1>1, FS_Subset, FS_CardinalityType DEF MemoryIInv

(* What fits a session fits it when more is stored, faint or surplus. *)
LEMMA MemorySessionLater ==
  ASSUME MemoryAssumption,
         NEW there, NEW faint, NEW k \in Nat, NEW there2, NEW faint2, NEW k2 \in Nat, NEW x,
         FitsMemorySession(x, there, faint, k), there \subseteq there2, faint \subseteq faint2,
         k <= k2 \/ x.does \notin {"count", "compact"},
         x.does = "compact" => IsFiniteSet(x.rows)
  PROVE  FitsMemorySession(x, there2, faint2, k2)
<1>1. x.does = "compact" => Cardinality(x.rows) \in Nat
  BY FS_CardinalityType
<1> QED BY <1>1 DEF FitsMemorySession, MemoryAssumption

(* A step that deletes nothing but what is forgotten, or in surplus.       *)
LEMMA MemoriesLater ==
  ASSUME MemoryAssumption, MemoryIInv,
         memory' = [m \in Memories |-> memory'[m]],
         \A m \in Stored' : memory'[m] \in MemoryRows,
         Stored \subseteq Stored', IsFiniteSet(Stored'), Faint \subseteq Faint',
         forgotten' \subseteq Stored' \ Active', surplus' \subseteq Stored',
         (Stored' \ Active') \ forgotten' \subseteq Faint',
         KeptMemories \subseteq KeptMemories',
         (Stored' \ Active') \ forgotten' # {} =>
           (Stored \ Active) \ forgotten # {} \/ Cardinality(KeptMemories) >= MaxMemories,
         session' = [s \in MemorySessions |-> session'[s]],
         \A s \in MemorySessions :
           session'[s] = session[s] \/ FitsMemorySession(session'[s], Stored, Faint, Cardinality(KeptMemories))
  PROVE  MemoryIInv'
<1>1. KeptMemories' \subseteq Stored'
  BY DEF KeptMemories, Active
<1>2. IsFiniteSet(KeptMemories') /\ Cardinality(KeptMemories') \in Nat
  BY <1>1, FS_Subset, FS_CardinalityType
<1>3. Cardinality(KeptMemories) <= Cardinality(KeptMemories') /\ Cardinality(KeptMemories) \in Nat
  BY <1>2, FS_Subset, KeptIsFinite
<1>4. (Stored' \ Active') \ forgotten' # {} => Cardinality(KeptMemories') >= MaxMemories
  BY <1>2, <1>3, MemoryAssumption DEF MemoryIInv, MemoryAssumption
<1>5. ASSUME NEW s \in MemorySessions
      PROVE  FitsMemorySession(session'[s], Stored', Faint', Cardinality(KeptMemories'))
  <2> DEFINE x == session'[s]
  <2>1. FitsMemorySession(x, Stored, Faint, Cardinality(KeptMemories)) BY DEF MemoryIInv
  <2> HIDE DEF x
  <2>2. x.does = "compact" => IsFiniteSet(x.rows)
    <3>1. x.does = "compact" => x.rows \subseteq Stored BY <2>1 DEF FitsMemorySession, NoSession
    <3>2. IsFiniteSet(Stored) BY DEF MemoryIInv
    <3> QED BY <3>1, <3>2, FS_Subset
  <2>3. FitsMemorySession(x, Stored', Faint', Cardinality(KeptMemories'))
    BY <1>2, <1>3, <2>1, <2>2, MemorySessionLater
  <2> QED BY <2>3 DEF x
<1> QED BY <1>4, <1>5 DEF MemoryIInv

(* A step that only begins or ends a session. *)
LEMMA MemorySessionStep ==
  ASSUME MemoryAssumption, MemoryIInv, UNCHANGED <<memory, forgotten, surplus, revived>>,
         NEW s \in MemorySessions, NEW x, session' = [session EXCEPT ![s] = x],
         FitsMemorySession(x, Stored, Faint, Cardinality(KeptMemories))
  PROVE  MemoryIInv'
<1>1. Stored' = Stored /\ Active' = Active /\ Faint' = Faint /\ KeptMemories' = KeptMemories
  BY DEF Stored, Active, Faint, KeptMemories
<1>2. /\ session' = [t \in MemorySessions |-> session'[t]]
      /\ \A t \in MemorySessions : session'[t] = IF t = s THEN x ELSE session[t]
  BY DEF MemoryIInv
<1>3. \A t \in MemorySessions : session'[t] = session[t]
        \/ FitsMemorySession(session'[t], Stored, Faint, Cardinality(KeptMemories))
  BY <1>2
<1> QED BY <1>1, <1>2, <1>3 DEF MemoryIInv

(* A compaction counts the active memories, and takes the least important. *)
LEMMA CompactSteps ==
  ASSUME MemoryAssumption, MemoryIInv, NEW s \in MemorySessions
  PROVE  /\ BeginCompact(s) => MemoryIInv'
         /\ SelectCandidates(s) => MemoryIInv'
<1> DEFINE k == Cardinality(KeptMemories)
<1>0. IsFiniteSet(Active) /\ Cardinality(Active) \in Nat /\ Cardinality(Active) <= k /\ k \in Nat
  <2>1. Active \subseteq KeptMemories BY DEF KeptMemories
  <2> QED BY <2>1, KeptIsFinite, FS_Subset, FS_CardinalityType
<1>1. ASSUME BeginCompact(s) PROVE MemoryIInv'
  <2> DEFINE x == [does |-> "count", remove |-> Cardinality(Active) - MaxMemories]
  <2>1. Cardinality(Active) > MaxMemories /\ session' = [session EXCEPT ![s] = x]
        /\ UNCHANGED <<memory, forgotten, surplus, revived>>
    BY <1>1 DEF BeginCompact
  <2>2. FitsMemorySession(x, Stored, Faint, k)
    BY <1>0, <2>1 DEF FitsMemorySession, MemoryAssumption
  <2> HIDE DEF x
  <2> QED BY <2>1, <2>2, MemorySessionStep
<1>2. ASSUME SelectCandidates(s) PROVE MemoryIInv'
  <2> DEFINE n == Min({session[s].remove, Cardinality(Candidates)})
  <2>1. PICK rows \in kSubset(n, Candidates) :
          session' = [session EXCEPT ![s] = [does |-> "compact", rows |-> rows]]
    BY <1>2 DEF SelectCandidates
  <2> DEFINE x == [does |-> "compact", rows |-> rows]
  <2>2. UNCHANGED <<memory, forgotten, surplus, revived>> /\ session[s].does = "count"
    BY <1>2 DEF SelectCandidates
  <2>3. session[s].remove \in Nat /\ k >= MaxMemories + session[s].remove
    BY <2>2 DEF MemoryIInv, FitsMemorySession
  <2>4. IsFiniteSet(Candidates) /\ Cardinality(Candidates) \in Nat
    BY <1>0, FS_Subset, FS_CardinalityType DEF Candidates
  <2>5. n <= session[s].remove /\ n \in Nat
    BY <2>3, <2>4 DEF Min
  <2>6. rows \subseteq Candidates /\ Cardinality(rows) = n
    BY <2>1 DEF kSubset
  <2>7. rows \subseteq Stored \cap Faint
    BY <2>6 DEF Candidates, Faint, Active
  <2> HIDE DEF n
  <2>8. FitsMemorySession(x, Stored, Faint, k)
    BY <1>0, <2>3, <2>5, <2>6, <2>7 DEF FitsMemorySession, MemoryAssumption
  <2> HIDE DEF x
  <2> QED BY <2>1, <2>2, <2>8, MemorySessionStep DEF x
<1> QED BY <1>1, <1>2

(* A memory that decays is as important as a memory may be. *)
LEMMA DecayedIs ==
  ASSUME MemoryAssumption, NEW m, memory[m] \in MemoryRows
  PROVE  Decayed(m) \in 0 .. MaxImportance
<1> DEFINE D == 0 .. MaxImportance
           b == memory[m].importance
           step == [i \in D |-> i \div 2]
           Def(f) == f = [n \in 0 .. MaxIdle |-> IF n = 0 THEN b ELSE f[n - 1] \div 2]
           faded == CHOOSE f : Def(f)
<1>0. MaxIdle \in Nat /\ MaxImportance \in Nat /\ b \in D /\ memory[m].idle \in 0 .. MaxIdle
  BY DEF MemoryAssumption, MemoryRows
<1>1. PICK g : IsRecursion(g, D, b, step, MaxIdle)
  <2>1. step \in [D -> D] BY <1>0
  <2> HIDE DEF step, D, b, Def, faded
  <2> QED BY <1>0, <2>1, RecursionExists
<1>2. g \in [0 .. MaxIdle -> D] /\ g[0] = b /\ \A n \in 1 .. MaxIdle : g[n] = step[g[n - 1]]
  <2> HIDE DEF step, D, b, Def, faded
  <2> QED BY <1>1 DEF IsRecursion
<1>3. \A n \in 1 .. MaxIdle : g[n] = g[n - 1] \div 2
  <2> TAKE n \in 1 .. MaxIdle
  <2>1. n - 1 \in 0 .. MaxIdle BY <1>0
  <2>2. g[n - 1] \in D BY <1>2, <2>1
  <2> HIDE DEF Def, faded, b
  <2> QED BY <1>2, <2>2
<1>4. Def(g)
  <2> DEFINE h == [n \in 0 .. MaxIdle |-> IF n = 0 THEN b ELSE g[n - 1] \div 2]
  <2> HIDE DEF D, step, faded, b
  <2>1. \A n \in 0 .. MaxIdle : g[n] = h[n] BY <1>0, <1>2, <1>3
  <2>2. g = [n \in 0 .. MaxIdle |-> g[n]] BY <1>2
  <2> HIDE DEF h
  <2>3. g = [n \in 0 .. MaxIdle |-> h[n]] BY <2>1, <2>2
  <2> QED BY <2>3 DEF h
<1>5. Def(faded)
  <2> HIDE DEF Def
  <2> QED BY <1>4
<1>6. Decayed(m) = faded[memory[m].idle]
  BY DEF Decayed
<1> HIDE DEF faded, b
<1>7. faded[0] = b /\ \A n \in 1 .. MaxIdle : faded[n] = faded[n - 1] \div 2
  BY <1>0, <1>5
<1> DEFINE S == {n \in Nat : n <= MaxIdle => faded[n] \in D}
<1>8. 0 \in S
  BY <1>0, <1>7
<1>9. \A n \in Nat : n \in S => n + 1 \in S
  <2> SUFFICES ASSUME NEW n \in Nat, n \in S, n + 1 <= MaxIdle PROVE faded[n + 1] \in D
    OBVIOUS
  <2>1. n + 1 \in 1 .. MaxIdle /\ (n + 1) - 1 = n BY <1>0
  <2>2. faded[n + 1] = faded[n] \div 2 BY <1>7, <2>1
  <2>3. faded[n] \in D BY <2>1, <1>0
  <2> QED BY <2>2, <2>3, <1>0
<1>10. Nat \subseteq S
  <2> HIDE DEF S
  <2> QED BY <1>8, <1>9, SetInduction
<1> QED BY <1>0, <1>6, <1>10

(* A stored memory is a row, and not the missing one. *)
LEMMA RealMemory ==
  ASSUME MemoryAssumption, MemoryIInv
  PROVE  \A m \in Memories : m \in Stored <=> memory[m] \in MemoryRows
BY DEF MemoryAssumption, MemoryIInv, Stored, MemoryRows

(* A memory that is stored is active. *)
LEMMA StoreMemoryIInv ==
  ASSUME MemoryAssumption, MemoryIInv, NEW m \in Memories, NEW i \in 0..MaxImportance, StoreMemory(m, i)
  PROVE  MemoryIInv'
<1> DEFINE written == [importance |-> i, is_deleted |-> FALSE, accessed |-> FALSE, idle |-> 0]
<1>1. /\ memory[m] = NoMemory /\ memory' = [memory EXCEPT ![m] = written]
      /\ session' = session /\ forgotten' = forgotten /\ surplus' = surplus /\ revived' = revived
  BY DEF StoreMemory
<1>2. written \in MemoryRows /\ ~written.is_deleted
  BY DEF MemoryRows, MemoryAssumption
<1> HIDE DEF written
<1>3. /\ memory' = [n \in Memories |-> memory'[n]] /\ memory'[m] = written
      /\ \A n \in Memories \ {m} : memory'[n] = memory[n]
  BY <1>1 DEF MemoryIInv
<1>4. Stored' = Stored \cup {m} /\ m \notin Stored
  BY <1>1, <1>2, <1>3 DEF Stored, MemoryAssumption, MemoryRows
<1>5. Active' = Active \cup {m}
  BY <1>2, <1>3, <1>4 DEF Active, Stored
<1>6. Faint \subseteq Faint'
  BY <1>1, <1>3, <1>4 DEF Faint, Stored
<1>7. IsFiniteSet(Stored')
  BY <1>4, FS_AddElement DEF MemoryIInv
<1>8. \A n \in Stored' : memory'[n] \in MemoryRows
  BY <1>2, <1>3, <1>4 DEF MemoryIInv, Stored
<1>9. (Stored' \ Active') \ forgotten' = (Stored \ Active) \ forgotten /\ KeptMemories \subseteq KeptMemories'
  BY <1>1, <1>4, <1>5 DEF KeptMemories, Active
<1> QED BY <1>1, <1>3, <1>4, <1>5, <1>6, <1>7, <1>8, <1>9, MemoriesLater DEF MemoryIInv

(* The rows that a step changes stay rows. *)
LEMMA RowsChange ==
  ASSUME MemoryAssumption, MemoryIInv, memory' = [m \in Memories |-> memory'[m]],
         \A m \in Memories : memory'[m] = memory[m] \/ (m \in Stored /\ memory'[m] \in MemoryRows)
  PROVE  Stored' = Stored /\ \A m \in Stored' : memory'[m] \in MemoryRows
BY DEF MemoryAssumption, MemoryIInv, Stored, MemoryRows

(* Time makes memories older. *)
LEMMA TimePassesIInv ==
  ASSUME MemoryAssumption, MemoryIInv, TimePasses
  PROVE  MemoryIInv'
<1> DEFINE Older(m) == [memory[m] EXCEPT !.idle = Min({@ + 1, MaxIdle})]
<1>1. memory' = [m \in Memories |-> IF m \in Active THEN Older(m) ELSE memory[m]]
  BY DEF TimePasses
<1>2. ASSUME NEW m \in Active
      PROVE  /\ Older(m) \in MemoryRows /\ Older(m).is_deleted = memory[m].is_deleted
             /\ Older(m).importance = memory[m].importance
  <2>1. memory[m] \in MemoryRows BY DEF Active, MemoryIInv
  <2> DEFINE old == memory[m].idle
  <2>2. old \in 0 .. MaxIdle /\ MaxIdle \in Nat BY <2>1 DEF MemoryRows, MemoryAssumption
  <2> DEFINE new == Min({old + 1, MaxIdle})
  <2> HIDE DEF old
  <2>3. new \in 0 .. MaxIdle BY <2>2 DEF Min
  <2>4. Older(m) = [memory[m] EXCEPT !.idle = new] BY DEF old
  <2> HIDE DEF new
  <2> QED BY <2>1, <2>3, <2>4 DEF MemoryRows
<1> HIDE DEF Older
<1>3. \A m \in Memories : memory'[m] = IF m \in Active THEN Older(m) ELSE memory[m]
  BY <1>1
<1>4. Active \subseteq Stored /\ Stored \subseteq Memories
  BY DEF Active, Stored
<1>5. Stored' = Stored /\ \A m \in Stored' : memory'[m] \in MemoryRows
  BY <1>1, <1>2, <1>3, <1>4, RowsChange
<1>6. forgotten' = forgotten /\ surplus' = surplus /\ revived' = revived /\ session' = session
  BY DEF TimePasses
<1>7. \A m \in Stored : memory'[m].is_deleted = memory[m].is_deleted /\ memory'[m].importance = memory[m].importance
  BY <1>2, <1>3, <1>4
<1>8. Active' = Active
  BY <1>5, <1>7 DEF Active
<1>9. Faint' = Faint
  BY <1>5, <1>6, <1>7 DEF Faint
<1>10. KeptMemories' = KeptMemories
  BY <1>6, <1>8 DEF KeptMemories
<1> QED BY <1>1, <1>5, <1>6, <1>8, <1>9, <1>10 DEF MemoryIInv

(* A session that commits writes its rows and nothing else. *)
LEMMA CommitFacts ==
  ASSUME MemoryAssumption, MemoryIInv, NEW s \in MemorySessions, CommitMemories(s)
  PROVE  /\ memory' = [m \in Memories |-> memory'[m]]
         /\ \A m \in Memories : memory'[m] = Written(s, m)
         /\ session[s].rows \subseteq Stored
         /\ session' = [t \in MemorySessions |-> session'[t]]
         /\ \A t \in MemorySessions : session'[t] = IF t = s THEN NoSession ELSE session[t]
         /\ FitsMemorySession(NoSession, Stored, Faint, Cardinality(KeptMemories))
<1>1. session[s].rows \subseteq Stored
  BY DEF MemoryIInv, CommitMemories, FitsMemorySession
<1>2. memory' = [m \in Memories |-> Written(s, m)] /\ session' = [session EXCEPT ![s] = NoSession]
  BY DEF CommitMemories
<1>3. FitsMemorySession(NoSession, Stored, Faint, Cardinality(KeptMemories))
  BY DEF FitsMemorySession, NoSession
<1>4. session' = [t \in MemorySessions |-> session'[t]]
  BY <1>2 DEF MemoryIInv
<1>5. \A t \in MemorySessions : session'[t] = IF t = s THEN NoSession ELSE session[t]
  BY <1>2 DEF MemoryIInv
<1> QED BY <1>1, <1>2, <1>3, <1>4, <1>5

(* Recalling and decaying change how important rows are, as they were read. *)
LEMMA CommitRecallOrDecay ==
  ASSUME MemoryAssumption, MemoryIInv, NEW s \in MemorySessions, CommitMemories(s),
         session[s].does \in {"recall", "decay"}
  PROVE  MemoryIInv'
<1> DEFINE rows == session[s].rows
           to == session[s].to
<1>1. forgotten' = forgotten /\ surplus' = surplus
  BY DEF CommitMemories
<1>2. \A m \in Memories : memory'[m] = Written(s, m)
  BY CommitFacts
<1>3. session[s].does = "decay" =>
        \A m \in rows : to[m] \in 0 .. MaxImportance /\ (to[m] > memory[m].importance => m \in revived')
  BY DEF MemoryIInv, FitsMemorySession, CommitMemories
<1>4. revived \subseteq revived'
  BY DEF CommitMemories
<1>5. ASSUME NEW m \in Stored
      PROVE  /\ memory'[m] \in MemoryRows /\ memory'[m].is_deleted = memory[m].is_deleted
             /\ memory'[m].importance = memory[m].importance
                \/ memory'[m].importance <= memory[m].importance \/ m \in revived'
  <2>1. memory[m] \in MemoryRows /\ m \in Memories BY DEF MemoryIInv, Stored
  <2>2. CASE m \notin rows BY <1>2, <2>1, <2>2 DEF Written
  <2>3. CASE m \in rows /\ session[s].does = "recall"
    <3>1. memory'[m] = [memory[m] EXCEPT !.accessed = TRUE, !.idle = 0] BY <1>2, <2>1, <2>3 DEF Written
    <3>2. 0 \in 0 .. MaxIdle BY MemoryAssumption DEF MemoryAssumption
    <3>3. memory'[m] \in MemoryRows BY <2>1, <3>1, <3>2 DEF MemoryRows
    <3>4. /\ memory'[m].is_deleted = memory[m].is_deleted
          /\ memory'[m].importance = memory[m].importance
      BY <2>1, <3>1 DEF MemoryRows
    <3> QED BY <3>3, <3>4
  <2>4. CASE m \in rows /\ session[s].does = "decay"
    <3> DEFINE v == to[m]
    <3>1. memory'[m] = [memory[m] EXCEPT !.importance = v] BY <1>2, <2>1, <2>4 DEF Written
    <3>2. v \in 0 .. MaxImportance /\ (v > memory[m].importance => m \in revived')
      BY <1>3, <2>4
    <3> HIDE DEF v
    <3>3. memory'[m] \in MemoryRows /\ memory'[m].is_deleted = memory[m].is_deleted /\ memory'[m].importance = v
      BY <2>1, <3>1, <3>2 DEF MemoryRows
    <3>4. memory[m].importance \in 0 .. MaxImportance BY <2>1 DEF MemoryRows
    <3> QED BY <3>2, <3>3, <3>4, MemoryAssumption DEF MemoryAssumption
  <2> QED BY <2>2, <2>3, <2>4
<1>6. Stored' = Stored
  <2>1. \A m \in Memories : memory'[m] = memory[m] \/ (m \in Stored /\ memory'[m] \in MemoryRows)
    BY <1>2, <1>5, CommitFacts DEF Written
  <2> QED BY <2>1, CommitFacts, RowsChange
<1>7. Active' = Active
  BY <1>5, <1>6 DEF Active
<1>8. Faint \subseteq Faint'
  <2> SUFFICES ASSUME NEW m \in Faint PROVE m \in Faint' OBVIOUS
  <2>1. m \in Stored /\ (memory[m].importance <= Unimportant \/ m \in revived) BY DEF Faint
  <2>2. memory[m] \in MemoryRows /\ memory'[m] \in MemoryRows BY <1>5, <2>1 DEF MemoryIInv
  <2>3. memory[m].importance \in Nat /\ memory'[m].importance \in Nat /\ Unimportant \in Nat
    BY <2>2, MemoryAssumption DEF MemoryRows, MemoryAssumption
  <2>4. memory'[m].importance <= Unimportant \/ m \in revived' BY <1>4, <1>5, <2>1, <2>3
  <2> QED BY <1>6, <2>1, <2>4 DEF Faint
<1>9. KeptMemories' = KeptMemories
  BY <1>1, <1>7 DEF KeptMemories
<1>10. \A t \in MemorySessions :
         session'[t] = session[t] \/ FitsMemorySession(session'[t], Stored, Faint, Cardinality(KeptMemories))
  BY CommitFacts
<1>11. /\ \A m \in Stored' : memory'[m] \in MemoryRows
       /\ IsFiniteSet(Stored') /\ forgotten' \subseteq Stored' \ Active' /\ surplus' \subseteq Stored'
       /\ (Stored' \ Active') \ forgotten' \subseteq Faint'
  BY <1>1, <1>5, <1>6, <1>7, <1>8 DEF MemoryIInv
<1> QED BY <1>1, <1>6, <1>7, <1>8, <1>9, <1>10, <1>11, CommitFacts, MemoriesLater

(* What is deleted keeps its importance. *)
LEMMA DeletedRows ==
  ASSUME MemoryAssumption, MemoryIInv, NEW s \in MemorySessions, CommitMemories(s),
         session[s].does \in {"forget", "compact"}
  PROVE  /\ Stored' = Stored /\ \A m \in Stored' : memory'[m] \in MemoryRows
         /\ Active' = Active \ session[s].rows /\ Faint' = Faint
<1> DEFINE rows == session[s].rows
<1>1. \A m \in Memories : memory'[m] = IF m \in rows THEN [memory[m] EXCEPT !.is_deleted = TRUE] ELSE memory[m]
  BY CommitFacts DEF Written
<1>2. ASSUME NEW m \in Stored
      PROVE  /\ memory'[m] \in MemoryRows /\ memory'[m].importance = memory[m].importance
             /\ memory'[m].is_deleted = (memory[m].is_deleted \/ m \in rows)
  <2>1. memory[m] \in MemoryRows /\ m \in Memories BY DEF MemoryIInv, Stored
  <2>2. CASE m \in rows BY <1>1, <2>1, <2>2 DEF MemoryRows
  <2>3. CASE m \notin rows BY <1>1, <2>1, <2>3 DEF MemoryRows
  <2> QED BY <2>2, <2>3
<1>3. Stored' = Stored
  <2>1. \A m \in Memories : memory'[m] = memory[m] \/ (m \in Stored /\ memory'[m] \in MemoryRows)
    BY <1>1, <1>2, CommitFacts
  <2> QED BY <2>1, CommitFacts, RowsChange
<1>4. Active' = Active \ rows
  BY <1>2, <1>3 DEF Active
<1>5. revived' = revived
  BY DEF CommitMemories
<1>6. Faint' = Faint
  BY <1>2, <1>3, <1>5 DEF Faint
<1> QED BY <1>2, <1>3, <1>4, <1>6

(* Forgetting says which rows it deletes; so does a compaction beside      *)
(* others.                                                                 *)
LEMMA CommitForgetOrSurplus ==
  ASSUME MemoryAssumption, MemoryIInv, NEW s \in MemorySessions, CommitMemories(s),
         \/ session[s].does = "forget"
         \/ session[s].does = "compact" /\ \E o \in MemorySessions \ {s} : Compacting(o)
  PROVE  MemoryIInv'
<1> DEFINE rows == session[s].rows
<1>1. \/ session[s].does = "forget" /\ forgotten' = forgotten \cup rows /\ surplus' = surplus
      \/ session[s].does = "compact" /\ forgotten' = forgotten /\ surplus' = surplus \cup rows
  BY DEF CommitMemories
<1>2. /\ Stored' = Stored /\ Active' = Active \ rows /\ Faint' = Faint
      /\ \A m \in Stored' : memory'[m] \in MemoryRows
  BY DeletedRows
<1>3. KeptMemories \subseteq KeptMemories'
  BY <1>1, <1>2 DEF KeptMemories
<1>4. rows \subseteq Stored /\ (session[s].does = "compact" => rows \subseteq Faint)
  BY CommitFacts DEF MemoryIInv, FitsMemorySession
<1>5. /\ IsFiniteSet(Stored') /\ forgotten' \subseteq Stored' \ Active' /\ surplus' \subseteq Stored'
      /\ (Stored' \ Active') \ forgotten' \subseteq Faint'
  BY <1>1, <1>2, <1>4 DEF MemoryIInv
<1>6. \A t \in MemorySessions :
         session'[t] = session[t] \/ FitsMemorySession(session'[t], Stored, Faint, Cardinality(KeptMemories))
  BY CommitFacts
<1>7. (Stored' \ Active') \ forgotten' # {} =>
           (Stored \ Active) \ forgotten # {} \/ Cardinality(KeptMemories) >= MaxMemories
  <2>1. CASE session[s].does = "forget" BY <1>1, <1>2, <2>1
  <2>2. CASE session[s].does = "compact"
    <3>1. FitsMemorySession(session[s], Stored, Faint, Cardinality(KeptMemories)) BY DEF MemoryIInv
    <3>2. Cardinality(KeptMemories) >= MaxMemories + Cardinality(rows) BY <2>2, <3>1 DEF FitsMemorySession
    <3>3. Cardinality(rows) \in Nat BY <1>4, FS_Subset, FS_CardinalityType DEF MemoryIInv
    <3>4. Cardinality(KeptMemories) \in Nat BY KeptIsFinite
    <3> QED BY <3>2, <3>3, <3>4, MemoryAssumption DEF MemoryAssumption
  <2> QED BY <1>1, <2>1, <2>2
<1>8. Stored \subseteq Stored' /\ Faint \subseteq Faint'
  BY <1>2
<1>9. /\ memory' = [m \in Memories |-> memory'[m]]
      /\ session' = [t \in MemorySessions |-> session'[t]]
  BY CommitFacts
<1> HIDE DEF rows
<1> QED BY <1>2, <1>3, <1>5, <1>6, <1>7, <1>8, <1>9, MemoriesLater

(* A compaction alone: what it deletes is above the limit. *)
LEMMA CommitCompact ==
  ASSUME MemoryAssumption, MemoryIInv, NEW s \in MemorySessions, CommitMemories(s),
         session[s].does = "compact", ~ \E o \in MemorySessions \ {s} : Compacting(o)
  PROVE  MemoryIInv'
<1> DEFINE rows == session[s].rows
<1>1. forgotten' = forgotten /\ surplus' = surplus
  BY DEF CommitMemories
<1>2. /\ Stored' = Stored /\ Active' = Active \ rows /\ Faint' = Faint
      /\ \A m \in Stored' : memory'[m] \in MemoryRows
  BY DeletedRows
<1>3. FitsMemorySession(session[s], Stored, Faint, Cardinality(KeptMemories))
  BY DEF MemoryIInv
<1>4. rows \subseteq Stored \cap Faint /\ Cardinality(KeptMemories) >= MaxMemories + Cardinality(rows)
  BY <1>3 DEF FitsMemorySession
<1>5. IsFiniteSet(KeptMemories') /\ IsFiniteSet(rows) /\ IsFiniteSet(KeptMemories) /\ IsFiniteSet(Stored')
  <2>1. KeptMemories' \subseteq Stored BY <1>1, <1>2 DEF KeptMemories, MemoryIInv, Active
  <2> QED BY <1>2, <1>4, <2>1, KeptIsFinite, FS_Subset DEF MemoryIInv
<1>6. KeptMemories \subseteq KeptMemories' \cup rows
  BY <1>1, <1>2 DEF KeptMemories
<1>7. Cardinality(KeptMemories) <= Cardinality(KeptMemories') + Cardinality(rows)
  <2> HIDE DEF rows
  <2>1. IsFiniteSet(KeptMemories' \cup rows) BY <1>5, FS_Union
  <2>2. Cardinality(KeptMemories) <= Cardinality(KeptMemories' \cup rows) BY <1>6, <2>1, FS_Subset
  <2>3. Cardinality(KeptMemories' \cup rows) = Cardinality(KeptMemories') + Cardinality(rows) - Cardinality(KeptMemories' \cap rows)
    BY <1>5, FS_Union
  <2>4. Cardinality(KeptMemories' \cap rows) \in Nat
    <3>1. KeptMemories' \cap rows \subseteq rows OBVIOUS
    <3> QED BY <1>5, <3>1, FS_Subset, FS_CardinalityType
  <2>5. Cardinality(KeptMemories') \in Nat /\ Cardinality(rows) \in Nat /\ Cardinality(KeptMemories) \in Nat
    BY <1>5, FS_CardinalityType
  <2> QED BY <2>2, <2>3, <2>4, <2>5
<1>8. Cardinality(KeptMemories') >= MaxMemories
  <2>1. Cardinality(KeptMemories') \in Nat /\ Cardinality(rows) \in Nat /\ Cardinality(KeptMemories) \in Nat
    BY <1>5, FS_CardinalityType
  <2> QED BY <1>4, <1>7, <2>1, MemoryAssumption DEF MemoryAssumption
<1>9. ASSUME NEW t \in MemorySessions
      PROVE  FitsMemorySession(session'[t], Stored', Faint', Cardinality(KeptMemories'))
  <2>1. CASE t = s
    <3>1. session'[t] = NoSession BY <2>1, CommitFacts
    <3> QED BY <3>1 DEF FitsMemorySession, NoSession
  <2>2. CASE t # s
    <3>1. session'[t] = session[t] /\ session[t].does \notin {"count", "compact"}
      BY <2>2, CommitFacts DEF Compacting
    <3>2. FitsMemorySession(session[t], Stored, Faint, Cardinality(KeptMemories)) BY DEF MemoryIInv
    <3> QED BY <1>2, <3>1, <3>2 DEF FitsMemorySession
  <2> QED BY <2>1, <2>2
<1>10. /\ forgotten' \subseteq Stored' \ Active' /\ surplus' \subseteq Stored'
       /\ (Stored' \ Active') \ forgotten' \subseteq Faint'
  BY <1>1, <1>2, <1>4 DEF MemoryIInv
<1>11. memory' = [m \in Memories |-> memory'[m]] /\ session' = [t \in MemorySessions |-> session'[t]]
  BY CommitFacts
<1> QED BY <1>2, <1>5, <1>8, <1>9, <1>10, <1>11 DEF MemoryIInv

(* Every step of the memories preserves the invariant. *)
LEMMA MemoriesNextIInv ==
  ASSUME MemoryAssumption, MemoryIInv, [MemoriesNext]_memoryVars
  PROVE  MemoryIInv'
<1> DEFINE k == Cardinality(KeptMemories)
<1>1. ASSUME NEW s \in MemorySessions, NEW does \in {"recall", "forget"}, NEW found, found \subseteq Active,
             Begin(s, does, found)
      PROVE  MemoryIInv'
  <2> DEFINE x == [does |-> does, rows |-> found]
  <2>1. UNCHANGED <<memory, forgotten, surplus, revived>> /\ session' = [session EXCEPT ![s] = x]
    BY <1>1 DEF Begin
  <2>2. FitsMemorySession(x, Stored, Faint, k) BY <1>1 DEF FitsMemorySession, Active
  <2> HIDE DEF x
  <2> QED BY <2>1, <2>2, MemorySessionStep
<1>2. ASSUME NEW s \in MemorySessions, BeginDecay(s) PROVE MemoryIInv'
  <2> DEFINE rows == {m \in Active : memory[m].idle >= DecayThreshold /\ Decayed(m) < memory[m].importance}
             x == [does |-> "decay", rows |-> rows, to |-> [m \in rows |-> Decayed(m)]]
  <2>1. UNCHANGED <<memory, forgotten, surplus, revived>> /\ session' = [session EXCEPT ![s] = x]
    BY <1>2 DEF BeginDecay
  <2>2. \A m \in Active : Decayed(m) \in 0 .. MaxImportance /\ m \in Stored
    BY DecayedIs DEF Active, MemoryIInv
  <2>3. FitsMemorySession(x, Stored, Faint, k)
    <3>1. rows \subseteq Active OBVIOUS
    <3> HIDE DEF rows
    <3> QED BY <2>2, <3>1 DEF FitsMemorySession
  <2> HIDE DEF x
  <2> QED BY <2>1, <2>3, MemorySessionStep
<1>3. ASSUME NEW s \in MemorySessions, AbortMemories(s) PROVE MemoryIInv'
  <2>1. UNCHANGED <<memory, forgotten, surplus, revived>> /\ session' = [session EXCEPT ![s] = NoSession]
    BY <1>3 DEF AbortMemories
  <2>2. FitsMemorySession(NoSession, Stored, Faint, k) BY DEF FitsMemorySession, NoSession
  <2> QED BY <2>1, <2>2, MemorySessionStep
<1>4. ASSUME NEW s \in MemorySessions, CommitMemories(s) PROVE MemoryIInv'
  <2>1. session[s].does \in {"recall", "forget", "decay", "compact"} BY <1>4 DEF CommitMemories
  <2> QED BY <1>4, <2>1, CommitRecallOrDecay, CommitForgetOrSurplus, CommitCompact
<1>5. CASE UNCHANGED memoryVars
  BY <1>5 DEF memoryVars, MemoryIInv, Stored, Active, Faint, KeptMemories
<1>6. ASSUME NEW s \in MemorySessions, NEW found \in SUBSET Active, BeginRecall(s, found) PROVE MemoryIInv'
  BY <1>1, <1>6 DEF BeginRecall
<1>7. ASSUME NEW s \in MemorySessions, NEW m \in Active, BeginForget(s, m) PROVE MemoryIInv'
  <2>1. {m} \subseteq Active OBVIOUS
  <2> QED BY <1>1, <1>7, <2>1 DEF BeginForget
<1> QED BY <1>2, <1>3, <1>4, <1>5, <1>6, <1>7, CompactSteps, StoreMemoryIInv, TimePassesIInv DEF MemoriesNext

(* The invariant implies what memories promise. *)
LEMMA MemoryIInvSound ==
  ASSUME MemoryAssumption, MemoryIInv
  PROVE  MemoriesAreKept
<1>1. \A m \in (Stored \ Active) \ (forgotten \cup revived) : memory[m].importance <= Unimportant
  BY DEF MemoryIInv, Faint
<1> QED BY <1>1 DEF MemoryIInv, MemoriesAreKept, KeptMemories

(* The inductive invariant holds in every reachable state. *)
LEMMA MemoriesInvariance == MemoriesSpec => []MemoryIInv
<1>1. MemoriesInit => MemoryIInv
  BY MemoryInitIInv, MemoryAssumption
<1>2. MemoryIInv /\ [MemoriesNext]_memoryVars => MemoryIInv'
  BY MemoriesNextIInv, MemoryAssumption
<1>3. QED BY <1>1, <1>2, PTL DEF MemoriesSpec

-----------------------------------------------------------------------------
(* Compliance checks and reports.                                          *)

-----------------------------------------------------------------------------
(* The sections of the reports. *)
ReadsAsNamed(s) ==
  /\ Len(s.reads) \in Nat
  /\ s.name \in {"data_classification", "C1.1"} =>
       Len(s.reads) = 3 /\ s.reads[1] = "documents" /\ s.reads[2] = "classified" /\ s.reads[3] = "details"
  /\ s.name = "A1.1" => Len(s.reads) = 2 /\ s.reads[1] = "requests" /\ s.reads[2] = "errors"
  /\ s.name = "pii_handling" => Len(s.reads) = 3 /\ s.reads[2] = "uploads this month" /\ s.reads[3] = "pii"
  /\ s.name = "data_retention" => Len(s.reads) = 4 /\ s.reads[3] = "entries over 3 years"

(* A report is a list of statements, each of which reads what its name     *)
(* says.                                                                   *)
LEMMA ReportsAre ==
  ASSUME NEW kind \in DOMAIN Reports
  PROVE  /\ Len(Reports[kind]) \in Nat
         /\ \A i \in 1 .. Len(Reports[kind]) : ReadsAsNamed(Reports[kind][i])
<1>1. DOMAIN Reports = {"check", "soc2", "gdpr", "iso27001", "export", "dashboard", "tests"}
  BY DEF Reports
<1>2. CASE kind = "check"
  <2>1. Reports[kind] = MonitorChecks BY <1>2 DEF Reports
  <2>2. Len(MonitorChecks) = 6 BY DEF MonitorChecks
  <2>3. ReadsAsNamed(MonitorChecks[1]) BY DEF MonitorChecks, ReadsAsNamed
  <2>4. ReadsAsNamed(MonitorChecks[2]) BY DEF MonitorChecks, ReadsAsNamed
  <2>5. ReadsAsNamed(MonitorChecks[3]) BY DEF MonitorChecks, ReadsAsNamed
  <2>6. ReadsAsNamed(MonitorChecks[4]) BY DEF MonitorChecks, ReadsAsNamed
  <2>7. ReadsAsNamed(MonitorChecks[5]) BY DEF MonitorChecks, ReadsAsNamed
  <2>8. ReadsAsNamed(MonitorChecks[6]) BY DEF MonitorChecks, ReadsAsNamed
  <2> QED BY <2>1, <2>2, <2>3, <2>4, <2>5, <2>6, <2>7, <2>8
<1>3. CASE kind = "soc2"
  <2>1. Reports[kind] = Soc2Evidence BY <1>3 DEF Reports
  <2>2. Len(Soc2Evidence) = 2 BY DEF Soc2Evidence
  <2>3. ReadsAsNamed(Soc2Evidence[1]) BY DEF Soc2Evidence, ReadsAsNamed
  <2>4. ReadsAsNamed(Soc2Evidence[2]) BY DEF Soc2Evidence, ReadsAsNamed
  <2> QED BY <2>1, <2>2, <2>3, <2>4
<1>4. CASE kind = "gdpr"
  <2>1. Reports[kind] = GdprEvidence BY <1>4 DEF Reports
  <2>2. Len(GdprEvidence) = 1 /\ ReadsAsNamed(GdprEvidence[1]) BY DEF GdprEvidence, ReadsAsNamed
  <2> QED BY <2>1, <2>2
<1>5. CASE kind = "iso27001"
  <2>1. Reports[kind] = Iso27001Evidence BY <1>5 DEF Reports
  <2>2. Len(Iso27001Evidence) = 1 /\ ReadsAsNamed(Iso27001Evidence[1]) BY DEF Iso27001Evidence, ReadsAsNamed
  <2> QED BY <2>1, <2>2
<1>6. CASE kind = "export"
  <2>1. Reports[kind] = Soc2Export BY <1>6 DEF Reports
  <2>2. Len(Soc2Export) = 2 BY DEF Soc2Export
  <2>3. ReadsAsNamed(Soc2Export[1]) BY DEF Soc2Export, ReadsAsNamed
  <2>4. ReadsAsNamed(Soc2Export[2]) BY DEF Soc2Export, ReadsAsNamed
  <2> QED BY <2>1, <2>2, <2>3, <2>4
<1>7. CASE kind = "dashboard"
  <2>1. Reports[kind] = DashboardPanels BY <1>7 DEF Reports
  <2>2. Len(DashboardPanels) = 3 BY DEF DashboardPanels
  <2>3. ReadsAsNamed(DashboardPanels[1]) BY DEF DashboardPanels, ReadsAsNamed
  <2>4. ReadsAsNamed(DashboardPanels[2]) BY DEF DashboardPanels, ReadsAsNamed
  <2>5. ReadsAsNamed(DashboardPanels[3]) BY DEF DashboardPanels, ReadsAsNamed
  <2> QED BY <2>1, <2>2, <2>3, <2>4, <2>5
<1>8. CASE kind = "tests"
  <2>1. Reports[kind] = TestSuite BY <1>8 DEF Reports
  <2>2. Len(TestSuite) = 7 BY DEF TestSuite
  <2>3. ReadsAsNamed(TestSuite[1]) BY DEF TestSuite, ReadsAsNamed
  <2>4. ReadsAsNamed(TestSuite[2]) BY DEF TestSuite, ReadsAsNamed
  <2>5. ReadsAsNamed(TestSuite[3]) BY DEF TestSuite, ReadsAsNamed
  <2>6. ReadsAsNamed(TestSuite[4]) BY DEF TestSuite, ReadsAsNamed
  <2>7. ReadsAsNamed(TestSuite[5]) BY DEF TestSuite, ReadsAsNamed
  <2>8. ReadsAsNamed(TestSuite[6]) BY DEF TestSuite, ReadsAsNamed
  <2>9. ReadsAsNamed(TestSuite[7]) BY DEF TestSuite, ReadsAsNamed
  <2> QED BY <2>1, <2>2, <2>3, <2>4, <2>5, <2>6, <2>7, <2>8, <2>9
<1> QED BY <1>1, <1>2, <1>3, <1>4, <1>5, <1>6, <1>7, <1>8

CheckVerdicts == {"PASS", "WARNING", "FAIL", "SKIP"}

CheckNames ==
  {"data_classification", "access_controls", "encryption", "audit_logging", "data_retention", "pii_handling"}

(* A check passes, fails or warns. *)
LEMMA CheckVerdictsFit ==
  ASSUME NEW name \in CheckNames, NEW n
  PROVE  Verdicts(name, n) \subseteq CheckVerdicts
<1> USE DEF SelfSelecting
<1>1. CASE name = "data_classification"
  <2>1. Verdicts(name, n) = {ClassificationVerdict(n[1], IF Len(n) = 1 THEN 0 ELSE n[2])} BY <1>1 DEF Verdicts
  <2>2. \A x, y : ClassificationVerdict(x, y) \in CheckVerdicts BY DEF ClassificationVerdict, CheckVerdicts
  <2> QED BY <2>1, <2>2
<1>2. CASE name = "access_controls"
  <2>1. Verdicts(name, n) = {AccessVerdict(n[1], n[2], n[3])} BY <1>2 DEF Verdicts
  <2>2. \A x, y, z : AccessVerdict(x, y, z) \in CheckVerdicts BY DEF AccessVerdict, CheckVerdicts
  <2> QED BY <2>1, <2>2
<1>3. CASE name = "encryption"
  <2>1. Verdicts(name, n) = {"PASS"} BY <1>3 DEF Verdicts, EncryptionVerdict
  <2> QED BY <2>1 DEF CheckVerdicts
<1>4. CASE name = "audit_logging"
  <2>1. Verdicts(name, n) = {AuditVerdict(n[1], n[2])} BY <1>4 DEF Verdicts
  <2>2. \A x, y : AuditVerdict(x, y) \in CheckVerdicts BY DEF AuditVerdict, CheckVerdicts
  <2> QED BY <2>1, <2>2
<1>5. CASE name = "data_retention"
  <2>1. Verdicts(name, n) = {IF Len(n) = 1 THEN "SKIP" ELSE RetentionVerdict(n[1], n[2], n[3])} BY <1>5 DEF Verdicts
  <2>2. \A x, y, z : RetentionVerdict(x, y, z) \in CheckVerdicts BY DEF RetentionVerdict, CheckVerdicts
  <2> QED BY <2>1, <2>2 DEF CheckVerdicts
<1>6. CASE name = "pii_handling"
  <2>1. Verdicts(name, n) = {PiiVerdict(n[1], n[2], n[3])} BY <1>6 DEF Verdicts
  <2>2. \A x, y, z : PiiVerdict(x, y, z) \in CheckVerdicts BY DEF PiiVerdict, CheckVerdicts
  <2> QED BY <2>1, <2>2
<1> QED BY <1>1, <1>2, <1>3, <1>4, <1>5, <1>6 DEF CheckNames

(* The monitor has six checks. *)
LEMMA ChecksAre ==
  /\ "check" \in DOMAIN Reports /\ Reports["check"] = MonitorChecks /\ Len(MonitorChecks) = 6
  /\ \A i \in 1 .. 6 : MonitorChecks[i].name \in CheckNames
<1>1. "check" \in DOMAIN Reports /\ Reports["check"] = MonitorChecks
  BY DEF Reports
<1>2. Len(MonitorChecks) = 6
  BY DEF MonitorChecks
<1>3. /\ MonitorChecks[1].name \in CheckNames /\ MonitorChecks[2].name \in CheckNames
      /\ MonitorChecks[3].name \in CheckNames /\ MonitorChecks[4].name \in CheckNames
      /\ MonitorChecks[5].name \in CheckNames /\ MonitorChecks[6].name \in CheckNames
  BY DEF MonitorChecks, CheckNames
<1> QED BY <1>1, <1>2, <1>3

-----------------------------------------------------------------------------
CheckFindings(fs, n) ==
  /\ IsSequence(fs) /\ Len(fs) = n
  /\ \A i \in 1 .. n : fs[i].name = MonitorChecks[i].name /\ fs[i].verdict \in CheckVerdicts

(* The score of a run is full when all its checks have passed or were       *)
(* skipped, and only then: the rounding cannot make up for a warning.      *)
LEMMA FullScore ==
  ASSUME NEW fs, CheckFindings(fs, 6)
  PROVE  Score(fs) = 1000 <=> \A i \in 1 .. 6 : fs[i].verdict \in {"PASS", "SKIP"}
<1> DEFINE Found(v) == {i \in DOMAIN fs : fs[i].verdict = v}
           P == Found("PASS")
           W == Found("WARNING")
           S == (DOMAIN fs) \ Found("SKIP")
           p == Cardinality(P)
           w == Cardinality(W)
           n == Cardinality(S)
<1>1. DOMAIN fs = 1 .. 6
  BY DEF CheckFindings, IsSequence
<1>2. IsFiniteSet(1 .. 6) /\ Cardinality(1 .. 6) = 6
  <2>1. \A k \in Nat : IsFiniteSet(1 .. k) /\ Cardinality(1 .. k) = k BY FS_Interval
  <2> QED BY <2>1
<1>3. IsFiniteSet(S) /\ n \in 0 .. 6
  <2>1. S \subseteq 1 .. 6 BY <1>1
  <2> HIDE DEF S
  <2>2. IsFiniteSet(S) /\ Cardinality(S) <= 6 BY <1>2, <2>1, FS_Subset
  <2> QED BY <2>2, FS_CardinalityType
<1>4. P \cup W \subseteq S /\ P \cap W = {}
  OBVIOUS
<1>5. Score(fs) = IF S = {} THEN 1000 ELSE (1000 * (2 * p + w) + n) \div (2 * n)
  BY DEF Score
<1>6. (\A i \in 1 .. 6 : fs[i].verdict \in {"PASS", "SKIP"}) <=> P = S
  BY <1>1 DEF CheckFindings, CheckVerdicts
<1>7. P = S => W = {}
  BY <1>4
<1> HIDE DEF P, W, S
<1>8. IsFiniteSet(P) /\ IsFiniteSet(W) /\ p \in Nat /\ w \in Nat /\ p + w <= n
  <2>1. P \subseteq S /\ W \subseteq S /\ IsFiniteSet(P \cup W) /\ Cardinality(P \cup W) <= n
    BY <1>3, <1>4, FS_Subset
  <2>2. IsFiniteSet(P) /\ IsFiniteSet(W) BY <1>3, <2>1, FS_Subset
  <2>3. Cardinality(P \cup W) = p + w - Cardinality(P \cap W) BY <2>2, FS_Union
  <2>4. Cardinality(P \cap W) = 0 BY <1>4, FS_EmptySet
  <2>5. p \in Nat /\ w \in Nat BY <2>2, FS_CardinalityType
  <2> QED BY <2>1, <2>2, <2>3, <2>4, <2>5
<1>9. P = S => p = n /\ w = 0
  BY <1>7, FS_EmptySet
<1>10. P # S => p < n
  <2> SUFFICES ASSUME P # S PROVE p < n OBVIOUS
  <2>1. P \subseteq S BY <1>4
  <2> QED BY <1>3, <1>8, <2>1, FS_Subset
<1>11. S = {} => P = S
  BY <1>4
<1>12. n = 0 => S = {}
  BY <1>3, FS_EmptySet
<1>13. ASSUME n \in 1 .. 6 PROVE (1000 * (2 * p + w) + n) \div (2 * n) = 1000 <=> P = S
  <2> HIDE DEF p, w, n
  <2>1. CASE P = S
    <3>1. p = n /\ w = 0 BY <1>9, <2>1
    <3> QED BY <1>13, <2>1, <3>1
  <2>2. CASE P # S
    <3>1. 2 * p + w <= 2 * n - 1 /\ 2 * p + w \in Nat BY <1>8, <1>10, <1>13, <2>2
    <3> DEFINE q == 2 * p + w
    <3>2. q \in Nat /\ q <= 2 * n - 1 BY <3>1
    <3> HIDE DEF q
    <3>3. CASE n = 1 BY <3>2, <3>3, <2>2 DEF q
    <3>4. CASE n = 2 BY <3>2, <3>4, <2>2 DEF q
    <3>5. CASE n = 3 BY <3>2, <3>5, <2>2 DEF q
    <3>6. CASE n = 4 BY <3>2, <3>6, <2>2 DEF q
    <3>7. CASE n = 5 BY <3>2, <3>7, <2>2 DEF q
    <3>8. CASE n = 6 BY <3>2, <3>8, <2>2 DEF q
    <3> QED BY <1>13, <3>3, <3>4, <3>5, <3>6, <3>7, <3>8
  <2> QED BY <2>1, <2>2
<1>14. CASE S = {}
  BY <1>5, <1>6, <1>11, <1>14
<1>15. CASE S # {}
  <2>1. n \in 1 .. 6 BY <1>3, <1>12, <1>15
  <2> QED BY <1>5, <1>6, <1>13, <1>15, <2>1
<1> QED BY <1>14, <1>15

WholeRun(run) ==
  /\ [j \in DOMAIN run.findings |-> run.findings[j].name] = [j \in 1 .. 6 |-> MonitorChecks[j].name]
  /\ run.overall_status = "PASS" <=> run.score = 1000
  /\ run.overall_status = "FAIL" <=> \E f \in Range(run.findings) : f.verdict = "FAIL"

(* A run is made of the findings of all checks. *)
LEMMA RunOfIsWhole ==
  ASSUME NEW fs, CheckFindings(fs, 6)
  PROVE  WholeRun(RunOf(fs))
<1> DEFINE score == Score(fs)
           statuses == {f.verdict : f \in Range(fs)}
           status == OverallStatus(statuses)
<1>1. DOMAIN fs = 1 .. 6
  BY DEF CheckFindings, IsSequence
<1>2. score = 1000 <=> \A i \in 1 .. 6 : fs[i].verdict \in {"PASS", "SKIP"}
  BY FullScore
<1>3. \A v : v \in statuses <=> \E i \in 1 .. 6 : fs[i].verdict = v
  BY <1>1 DEF Range
<1>4. \A i \in 1 .. 6 : fs[i].verdict \in CheckVerdicts /\ fs[i].name = MonitorChecks[i].name
  BY DEF CheckFindings
<1>5. RunOf(fs) = [findings |-> fs, overall_status |-> status, score |-> score]
  BY DEF RunOf
<1>6. status = "FAIL" <=> "FAIL" \in statuses
  BY DEF OverallStatus
<1>7. status = "PASS" <=> "FAIL" \notin statuses /\ "WARNING" \notin statuses
  BY DEF OverallStatus
<1>8. "FAIL" \in statuses <=> \E f \in Range(fs) : f.verdict = "FAIL"
  OBVIOUS
<1>9. (\A i \in 1 .. 6 : fs[i].verdict \in {"PASS", "SKIP"}) <=> "FAIL" \notin statuses /\ "WARNING" \notin statuses
  BY <1>3, <1>4 DEF CheckVerdicts
<1> HIDE DEF score, status, statuses
<1>10. [j \in DOMAIN fs |-> fs[j].name] = [j \in 1 .. 6 |-> MonitorChecks[j].name]
  BY <1>1, <1>4
<1> QED BY <1>2, <1>5, <1>6, <1>7, <1>8, <1>9, <1>10 DEF WholeRun

-----------------------------------------------------------------------------
UploadsLogged == Tally({"upload"}, {0, 1})
OverdueLogged == Tally(Events, {3})
EntriesLogged == [uploads |-> UploadsLogged, overdue |-> OverdueLogged]

(* What the present section has counted, of uploads and of overdue entries *)
(* no more than there are.                                                 *)
FitsCounted(s, c, logged) ==
  /\ IsSequence(c)
  /\ s.name = "pii_handling" /\ Len(c) >= 2 => c[2] \in Nat /\ c[2] <= logged.uploads
  /\ s.name = "data_retention" /\ Len(c) >= 3 => c[3] \in Nat /\ c[3] <= logged.overdue

FitsReport(x, fs, c, logged) ==
  x # NoReport =>
    /\ DOMAIN x = {"kind", "aborted"} /\ x.kind \in DOMAIN Reports /\ x.aborted \in BOOLEAN
    /\ IsSequence(fs) /\ Len(fs) <= Len(Reports[x.kind])
    /\ x.kind = "check" => CheckFindings(fs, Len(fs))
    /\ x.kind = "tests" /\ x.aborted = TRUE => \E i \in 1 .. Len(fs) : fs[i].verdict = "failed"
    /\ Len(fs) < Len(Reports[x.kind]) => FitsCounted(Reports[x.kind][Len(fs) + 1], c, logged)

AssessIInv ==
  /\ IsFiniteSet(DOMAIN audit_log)
  /\ FitsReport(reporting, findings, counted, EntriesLogged)
  /\ IsSequence(compliance_runs)
  /\ \A i \in 1 .. Len(compliance_runs) : WholeRun(compliance_runs[i])
  /\ AbortedTestsFail

(* No report is made at first. *)
LEMMA AssessInitIInv ==
  ASSUME AssessInit
  PROVE  AssessIInv
<1>1. IsFiniteSet(DOMAIN audit_log)
  <2>1. DOMAIN << >> = {} OBVIOUS
  <2> QED BY <2>1, FS_EmptySet DEF AssessInit
<1>2. FitsReport(reporting, findings, counted, EntriesLogged) /\ AbortedTestsFail
  BY DEF AssessInit, FitsReport, AbortedTestsFail, NoReport
<1>3. IsSequence(compliance_runs) /\ Len(compliance_runs) = 0
  BY EmptySequence DEF AssessInit
<1> QED BY <1>1, <1>2, <1>3 DEF AssessIInv

(* The entries of the audit log can be counted. *)
LEMMA TallyIsNat ==
  ASSUME AssessIInv, NEW events, NEW ages
  PROVE  IsFiniteSet(Logs(events, ages)) /\ Tally(events, ages) \in Nat
<1>1. Logs(events, ages) \subseteq DOMAIN audit_log
  BY DEF Logs
<1> QED BY <1>1, FS_Subset, FS_CardinalityType DEF AssessIInv, Tally

(* The entries that are there stay while a report is made.                 *)
LEMMA OtherCommitIInv ==
  ASSUME AssessIInv, NEW newPapers, NEW newLog, OtherCommit(newPapers, newLog),
         IsFiniteSet(DOMAIN newLog),
         reporting = NoReport \/ (DOMAIN audit_log \subseteq DOMAIN newLog
                                  /\ \A e \in DOMAIN audit_log : newLog[e] = audit_log[e])
  PROVE  AssessIInv'
<1>1. /\ audit_log' = newLog /\ reporting' = reporting /\ counted' = counted /\ findings' = findings
      /\ compliance_runs' = compliance_runs /\ answer' = answer
  BY DEF OtherCommit
<1>2. FitsReport(reporting, findings, counted, EntriesLogged')
  <2>1. CASE reporting = NoReport BY <2>1 DEF FitsReport
  <2>2. CASE DOMAIN audit_log \subseteq DOMAIN newLog /\ \A e \in DOMAIN audit_log : newLog[e] = audit_log[e]
    <3>1. ASSUME NEW events, NEW ages
          PROVE  /\ Logs(events, ages) \subseteq Logs(events, ages)' /\ Logs(events, ages)' \subseteq DOMAIN newLog
      BY <1>1, <2>2 DEF Logs
    <3>2. ASSUME NEW events, NEW ages PROVE Tally(events, ages) <= Tally(events, ages)' /\ Tally(events, ages)' \in Nat
      <4>1. IsFiniteSet(Logs(events, ages)') BY <3>1, FS_Subset
      <4> QED BY <3>1, <4>1, FS_Subset, FS_CardinalityType DEF Tally
    <3>3. UploadsLogged <= UploadsLogged' /\ UploadsLogged \in Nat /\ UploadsLogged' \in Nat
      BY <3>2, TallyIsNat DEF UploadsLogged
    <3>4. OverdueLogged <= OverdueLogged' /\ OverdueLogged \in Nat /\ OverdueLogged' \in Nat
      BY <3>2, TallyIsNat DEF OverdueLogged
    <3>5. FitsReport(reporting, findings, counted, EntriesLogged) BY DEF AssessIInv
    <3>6. /\ EntriesLogged.uploads = UploadsLogged /\ EntriesLogged.overdue = OverdueLogged
          /\ EntriesLogged'.uploads = UploadsLogged' /\ EntriesLogged'.overdue = OverdueLogged'
      BY DEF EntriesLogged
    <3>7. ASSUME NEW s, FitsCounted(s, counted, EntriesLogged) PROVE FitsCounted(s, counted, EntriesLogged')
      <4>1. s.name = "pii_handling" /\ Len(counted) >= 2 => counted[2] \in Nat /\ counted[2] <= UploadsLogged'
        BY <3>3, <3>6, <3>7 DEF FitsCounted
      <4>2. s.name = "data_retention" /\ Len(counted) >= 3 => counted[3] \in Nat /\ counted[3] <= OverdueLogged'
        BY <3>4, <3>6, <3>7 DEF FitsCounted
      <4> QED BY <3>6, <3>7, <4>1, <4>2 DEF FitsCounted
    <3> QED BY <3>5, <3>7 DEF FitsReport
  <2> QED BY <2>1, <2>2
<1> QED BY <1>1, <1>2 DEF AssessIInv, AbortedTestsFail

(* The log forgets no entry when others come. *)
LEMMA LoggedFits ==
  ASSUME AssessIInv, NEW events, IsFiniteSet(events)
  PROVE  /\ IsFiniteSet(DOMAIN Logged(events)) /\ DOMAIN audit_log \subseteq DOMAIN Logged(events)
         /\ \A e \in DOMAIN audit_log : Logged(events)[e] = audit_log[e]
<1> DEFINE new == {<<event, Tally({event}, Ages) + 1>> : event \in events}
<1>1. Logged(events) = [e \in new \cup DOMAIN audit_log |-> IF e \in DOMAIN audit_log THEN audit_log[e] ELSE 0]
  BY DEF Logged
<1>2. IsFiniteSet(new)
  <2> DEFINE f == [event \in events |-> <<event, Tally({event}, Ages) + 1>>]
  <2>1. f \in Surjection(events, new) BY DEF Surjection
  <2> HIDE DEF f
  <2> QED BY <2>1, FS_Surjection
<1> HIDE DEF new
<1>3. IsFiniteSet(new \cup DOMAIN audit_log)
  BY <1>2, FS_Union DEF AssessIInv
<1> QED BY <1>1, <1>3

(* Documents, events and time leave the report that is made alone. *)
LEMMA WorldIInv ==
  ASSUME AssessIInv
  PROVE  /\ \A p \in Papers : ChangeDocument(p) => AssessIInv'
         /\ \A event \in Events : LogEvent(event) => AssessIInv'
         /\ LogRedactedUpload => AssessIInv'
         /\ \A by \in 1 .. 3 : EntriesAge(by) => AssessIInv'
<1>1. ASSUME NEW p \in Papers, ChangeDocument(p) PROVE AssessIInv'
  <2>1. PICK label : OtherCommit([papers EXCEPT ![p] = label], audit_log) BY <1>1 DEF ChangeDocument
  <2>2. IsFiniteSet(DOMAIN audit_log) BY DEF AssessIInv
  <2> QED BY <2>1, <2>2, OtherCommitIInv
<1>2. ASSUME NEW event \in Events, LogEvent(event) PROVE AssessIInv'
  <2>1. IsFiniteSet({event}) BY FS_Singleton
  <2> QED BY <1>2, <2>1, LoggedFits, OtherCommitIInv DEF LogEvent
<1>3. ASSUME LogRedactedUpload PROVE AssessIInv'
  <2>1. IsFiniteSet({"upload", "pii"})
    <3>1. IsFiniteSet({"upload"}) BY FS_Singleton
    <3>2. {"upload", "pii"} = {"upload"} \cup {"pii"} OBVIOUS
    <3> QED BY <3>1, <3>2, FS_AddElement
  <2> QED BY <1>3, <2>1, LoggedFits, OtherCommitIInv DEF LogRedactedUpload
<1>4. ASSUME NEW by \in 1 .. 3, EntriesAge(by) PROVE AssessIInv'
  <2> DEFINE older == [e \in DOMAIN audit_log |-> IF audit_log[e] + by > 3 THEN 3 ELSE audit_log[e] + by]
  <2>1. reporting = NoReport /\ OtherCommit(papers, older) BY <1>4 DEF EntriesAge
  <2>2. IsFiniteSet(DOMAIN older) BY DEF AssessIInv
  <2> HIDE DEF older
  <2> QED BY <2>1, <2>2, OtherCommitIInv
<1> QED BY <1>1, <1>2, <1>3, <1>4

(* A section that ends: its finding is appended. *)
LEMMA FindingFits ==
  ASSUME NEW x, NEW y, x # NoReport, NEW fs, NEW c, NEW uploads, NEW verdict, FitsReport(x, fs, c, uploads),
         Len(fs) < Len(Reports[x.kind]), DOMAIN y = DOMAIN x, y.kind = x.kind, y.aborted \in BOOLEAN,
         x.kind = "check" => verdict \in CheckVerdicts,
         x.kind = "tests" /\ y.aborted = TRUE => x.aborted = TRUE \/ verdict = "failed"
  PROVE  FitsReport(y, Append(fs, [name |-> Reports[x.kind][Len(fs) + 1].name, verdict |-> verdict]), << >>, uploads)
<1> DEFINE new == [name |-> Reports[x.kind][Len(fs) + 1].name, verdict |-> verdict]
           gs == Append(fs, new)
<1>1. new.name = Reports[x.kind][Len(fs) + 1].name /\ new.verdict = verdict
  OBVIOUS
<1>2. IsSequence(fs) /\ Len(fs) \in Nat /\ x.kind \in DOMAIN Reports
  BY DEF FitsReport, IsSequence
<1> HIDE DEF new
<1>3. /\ IsSequence(gs) /\ Len(gs) = Len(fs) + 1
      /\ gs[Len(fs) + 1] = new /\ \A i \in 1 .. Len(fs) : gs[i] = fs[i]
  BY <1>2, AppendToSequence
<1> HIDE DEF gs
<1>4. Len(gs) <= Len(Reports[y.kind])
  BY <1>2, <1>3, ReportsAre
<1>5. y.kind = "check" => CheckFindings(gs, Len(gs))
  <2> SUFFICES ASSUME y.kind = "check" PROVE CheckFindings(gs, Len(gs)) OBVIOUS
  <2>1. CheckFindings(fs, Len(fs)) BY DEF FitsReport
  <2>2. new.name = MonitorChecks[Len(fs) + 1].name /\ new.verdict \in CheckVerdicts
    BY <1>1, ChecksAre
  <2> QED BY <1>2, <1>3, <2>1, <2>2 DEF CheckFindings
<1>6. y.kind = "tests" /\ y.aborted = TRUE => \E i \in 1 .. Len(gs) : gs[i].verdict = "failed"
  <2> SUFFICES ASSUME y.kind = "tests", y.aborted = TRUE PROVE \E i \in 1 .. Len(gs) : gs[i].verdict = "failed"
    OBVIOUS
  <2>1. CASE x.aborted = TRUE
    <3>1. PICK i \in 1 .. Len(fs) : fs[i].verdict = "failed" BY <2>1 DEF FitsReport
    <3>2. i \in 1 .. Len(gs) /\ gs[i] = fs[i] BY <1>2, <1>3
    <3> QED BY <3>1, <3>2
  <2>2. CASE verdict = "failed"
    <3>1. Len(gs) \in 1 .. Len(gs) /\ gs[Len(gs)] = new BY <1>2, <1>3
    <3> QED BY <1>1, <2>2, <3>1
  <2> QED BY <2>1, <2>2
<1>7. FitsCounted(Reports[y.kind][Len(gs) + 1], << >>, uploads)
  BY EmptySequence DEF FitsCounted
<1> QED BY <1>2, <1>3, <1>4, <1>5, <1>6, <1>7 DEF FitsReport, gs, new

(* A report begins without findings. *)
LEMMA BeginReportIInv ==
  ASSUME AssessIInv, NEW kind \in DOMAIN Reports, BeginReport(kind)
  PROVE  AssessIInv'
<1> DEFINE x == [kind |-> kind, aborted |-> FALSE]
<1>1. /\ reporting' = x /\ counted' = << >> /\ findings' = << >> /\ answer' = NoReport
      /\ audit_log' = audit_log /\ compliance_runs' = compliance_runs
  BY DEF BeginReport, world
<1>2. FitsReport(x, << >>, << >>, EntriesLogged')
  <2>1. Len(Reports[kind]) \in Nat BY ReportsAre
  <2>2. CheckFindings(<< >>, Len(<< >>)) /\ Len(<< >>) <= Len(Reports[kind])
    BY <2>1, EmptySequence DEF CheckFindings
  <2>3. FitsCounted(Reports[kind][Len(<< >>) + 1], << >>, EntriesLogged') BY EmptySequence DEF FitsCounted
  <2>4. x.kind = kind /\ x.aborted = FALSE /\ DOMAIN x = {"kind", "aborted"} OBVIOUS
  <2> HIDE DEF x
  <2> QED BY <2>1, <2>2, <2>3, <2>4, EmptySequence DEF FitsReport
<1> HIDE DEF x
<1>3. AbortedTestsFail'
  BY <1>1 DEF AbortedTestsFail, NoReport
<1> QED BY <1>1, <1>2, <1>3 DEF AssessIInv

(* The statement that ends a section, or does not. *)
LEMMA CountIInv ==
  ASSUME AssessIInv, Count
  PROVE  AssessIInv'
<1>1. /\ audit_log' = audit_log /\ reporting' = reporting /\ compliance_runs' = compliance_runs /\ answer' = answer
      /\ reporting # NoReport /\ Pending /\ ~reporting.aborted /\ Section.reads # << >>
  BY DEF Count, world
<1>2. EntriesLogged' = EntriesLogged
  BY <1>1 DEF EntriesLogged, UploadsLogged, OverdueLogged, Tally, Logs
<1>3. FitsReport(reporting, findings, counted, EntriesLogged) /\ Section = Reports[reporting.kind][Len(findings) + 1]
      /\ Len(findings) < Len(Reports[reporting.kind])
  BY <1>1 DEF AssessIInv, Section, Pending
<1>4. FitsCounted(Section, counted, EntriesLogged) /\ reporting.kind \in DOMAIN Reports /\ IsSequence(findings)
  BY <1>1, <1>3 DEF FitsReport
<1>5. PICK a :
        /\ a \in Answers(Section.reads[Len(counted) + 1])
        /\ IF Decided(Section, Append(counted, a))
             THEN \E verdict \in Verdicts(Section.name, Append(counted, a)) : Conclude(Section.name, verdict)
             ELSE counted' = Append(counted, a) /\ findings' = findings
  BY DEF Count
<1>6. Len(findings) + 1 \in 1 .. Len(Reports[reporting.kind])
  BY <1>3, <1>4, ReportsAre DEF IsSequence
<1>7. ReadsAsNamed(Section)
  BY <1>3, <1>4, <1>6, ReportsAre
<1>8. CASE Decided(Section, Append(counted, a))
  <2>1. PICK verdict \in Verdicts(Section.name, Append(counted, a)) : Conclude(Section.name, verdict)
    BY <1>5, <1>8
  <2>2. findings' = Append(findings, [name |-> Section.name, verdict |-> verdict]) /\ counted' = << >>
    BY <2>1 DEF Conclude
  <2>3. reporting.kind = "check" => verdict \in CheckVerdicts
    BY <1>3, <1>6, <2>1, ChecksAre, CheckVerdictsFit
  <2>4. FitsReport(reporting, findings', counted', EntriesLogged)
    BY <1>1, <1>3, <2>2, <2>3, FindingFits DEF FitsReport
  <2> QED BY <1>1, <1>2, <2>4 DEF AssessIInv, AbortedTestsFail
<1>9. CASE ~Decided(Section, Append(counted, a))
  <2> DEFINE d == Append(counted, a)
  <2>1. counted' = d /\ findings' = findings BY <1>5, <1>9
  <2>2. IsSequence(counted) /\ IsSequence(d) /\ Len(d) = Len(counted) + 1
        /\ d[Len(counted) + 1] = a /\ \A i \in 1 .. Len(counted) : d[i] = counted[i]
    BY <1>4, AppendToSequence DEF FitsCounted
  <2> HIDE DEF d
  <2>3. EntriesLogged.uploads = UploadsLogged /\ EntriesLogged.overdue = OverdueLogged BY DEF EntriesLogged
  <2>4. ASSUME NEW k \in {2, 3}, NEW bound, bound \in Nat, Len(d) >= k,
               Len(counted) >= k => counted[k] \in Nat /\ counted[k] <= bound,
               Len(counted) + 1 = k => a = bound
        PROVE  d[k] \in Nat /\ d[k] <= bound
    <3>1. Len(counted) \in Nat /\ Len(counted) + 1 >= k /\ k \in Nat \ {0} BY <2>2, <2>4 DEF IsSequence
    <3>2. CASE Len(counted) >= k
      <4>1. k \in 1 .. Len(counted) BY <3>1, <3>2
      <4> QED BY <2>2, <2>4, <3>2, <4>1
    <3>3. CASE Len(counted) + 1 = k
      <4>1. d[k] = bound BY <2>2, <2>4, <3>3
      <4>2. bound <= bound BY <2>4
      <4> QED BY <2>4, <4>1, <4>2
    <3>4. \A m \in Nat, j \in Nat \ {0} : m + 1 >= j => m >= j \/ m + 1 = j OBVIOUS
    <3> QED BY <3>1, <3>2, <3>3, <3>4
  <2>5. Section.name = "pii_handling" /\ Len(d) >= 2 => d[2] \in Nat /\ d[2] <= UploadsLogged
    <3> SUFFICES ASSUME Section.name = "pii_handling", Len(d) >= 2 PROVE d[2] \in Nat /\ d[2] <= UploadsLogged
      OBVIOUS
    <3>1. Section.reads[2] = "uploads this month" BY <1>7 DEF ReadsAsNamed
    <3>2. UploadsLogged \in Nat BY TallyIsNat DEF UploadsLogged
    <3>3. ASSUME Len(counted) + 1 = 2 PROVE a = UploadsLogged
      <4>1. a \in Answers("uploads this month") BY <1>5, <3>1, <3>3
      <4> QED BY <4>1 DEF Answers, UploadsLogged
    <3>4. Len(counted) >= 2 => counted[2] \in Nat /\ counted[2] <= UploadsLogged BY <1>4, <2>3 DEF FitsCounted
    <3> QED BY <2>4, <3>2, <3>3, <3>4
  <2>8. Section.name = "data_retention" /\ Len(d) >= 3 => d[3] \in Nat /\ d[3] <= OverdueLogged
    <3> SUFFICES ASSUME Section.name = "data_retention", Len(d) >= 3 PROVE d[3] \in Nat /\ d[3] <= OverdueLogged
      OBVIOUS
    <3>1. Section.reads[3] = "entries over 3 years" BY <1>7 DEF ReadsAsNamed
    <3>2. OverdueLogged \in Nat BY TallyIsNat DEF OverdueLogged
    <3>3. ASSUME Len(counted) + 1 = 3 PROVE a = OverdueLogged
      <4>1. a \in Answers("entries over 3 years") BY <1>5, <3>1, <3>3
      <4> QED BY <4>1 DEF Answers, OverdueLogged
    <3>4. Len(counted) >= 3 => counted[3] \in Nat /\ counted[3] <= OverdueLogged BY <1>4, <2>3 DEF FitsCounted
    <3> QED BY <2>4, <3>2, <3>3, <3>4
  <2>6. FitsCounted(Section, d, EntriesLogged) BY <2>2, <2>3, <2>5, <2>8 DEF FitsCounted
  <2>7. FitsReport(reporting, findings, d, EntriesLogged) BY <1>3, <2>6 DEF FitsReport
  <2> QED BY <1>1, <1>2, <2>1, <2>7 DEF AssessIInv, AbortedTestsFail
<1> QED BY <1>8, <1>9

(* The tests that read nothing, and the sections whose statement fails.    *)
LEMMA TryPolicyIInv ==
  ASSUME AssessIInv, TryPolicy
  PROVE  AssessIInv'
<1>1. /\ audit_log' = audit_log /\ reporting' = reporting /\ compliance_runs' = compliance_runs /\ answer' = answer
      /\ reporting # NoReport /\ Pending
  BY DEF TryPolicy, world
<1>2. EntriesLogged' = EntriesLogged
  BY <1>1 DEF EntriesLogged, UploadsLogged, OverdueLogged, Tally, Logs
<1>3. FitsReport(reporting, findings, counted, EntriesLogged) /\ Section = Reports[reporting.kind][Len(findings) + 1]
      /\ Len(findings) < Len(Reports[reporting.kind])
  BY <1>1 DEF AssessIInv, Section, Pending
<1>4. reporting.kind \in DOMAIN Reports /\ IsSequence(findings)
  BY <1>1, <1>3 DEF FitsReport
<1>5. PICK verdict \in Verdicts(Section.name, << >>) : Conclude(Section.name, verdict)
  BY DEF TryPolicy
<1>6. Len(findings) + 1 \in 1 .. Len(Reports[reporting.kind])
  BY <1>3, <1>4, ReportsAre DEF IsSequence
<1>7. findings' = Append(findings, [name |-> Section.name, verdict |-> verdict]) /\ counted' = << >>
  BY <1>5 DEF Conclude
<1>8. reporting.kind = "check" => verdict \in CheckVerdicts
  BY <1>3, <1>5, <1>6, ChecksAre, CheckVerdictsFit
<1>9. FitsReport(reporting, findings', counted', EntriesLogged)
  <2>1. reporting.aborted \in BOOLEAN BY <1>1, <1>3 DEF FitsReport
  <2> QED BY <1>1, <1>3, <1>7, <1>8, <2>1, FindingFits
<1> QED BY <1>1, <1>2, <1>9 DEF AssessIInv, AbortedTestsFail

(* After a statement that fails no test of the transaction passes. *)
LEMMA StatementFailsIInv ==
  ASSUME AssessIInv, StatementFails
  PROVE  AssessIInv'
<1>1. /\ audit_log' = audit_log /\ compliance_runs' = compliance_runs /\ answer' = answer
      /\ reporting # NoReport /\ Pending
  BY DEF StatementFails, world
<1>2. EntriesLogged' = EntriesLogged
  BY <1>1 DEF EntriesLogged, UploadsLogged, OverdueLogged, Tally, Logs
<1>3. FitsReport(reporting, findings, counted, EntriesLogged) /\ Section = Reports[reporting.kind][Len(findings) + 1]
      /\ Len(findings) < Len(Reports[reporting.kind])
  BY <1>1 DEF AssessIInv, Section, Pending
<1>4. PICK aborts \in {TRUE, FALSE} :
        /\ reporting.aborted => aborts
        /\ IF reporting.kind \in {"check", "tests"}
             THEN /\ reporting' = [reporting EXCEPT !.aborted = aborts]
                  /\ Conclude(Section.name, IF reporting.kind = "check" THEN "FAIL" ELSE "failed")
             ELSE reporting' = NoReport /\ counted' = << >> /\ findings' = << >>
  BY DEF StatementFails
<1>5. CASE reporting.kind \in {"check", "tests"}
  <2> DEFINE verdict == IF reporting.kind = "check" THEN "FAIL" ELSE "failed"
             y == [reporting EXCEPT !.aborted = aborts]
  <2>1. DOMAIN reporting = {"kind", "aborted"} BY <1>1, <1>3 DEF FitsReport
  <2>2. DOMAIN y = DOMAIN reporting /\ y.kind = reporting.kind /\ y.aborted = aborts BY <2>1
  <2>3. reporting' = y /\ findings' = Append(findings, [name |-> Section.name, verdict |-> verdict]) /\ counted' = << >>
    BY <1>4, <1>5 DEF Conclude
  <2>4. (reporting.kind = "check" => verdict \in CheckVerdicts) /\ (reporting.kind = "tests" => verdict = "failed")
    BY DEF CheckVerdicts
  <2> HIDE DEF y, verdict
  <2>5. FitsReport(y, Append(findings, [name |-> Section.name, verdict |-> verdict]), << >>, EntriesLogged)
    BY <1>1, <1>3, <1>4, <2>2, <2>4, FindingFits
  <2> QED BY <1>1, <1>2, <2>3, <2>5 DEF AssessIInv, AbortedTestsFail
<1>6. CASE reporting.kind \notin {"check", "tests"}
  BY <1>1, <1>4, <1>6 DEF AssessIInv, AbortedTestsFail, FitsReport
<1> QED BY <1>5, <1>6

(* A run of the monitor is stored as a whole. *)
LEMMA StoreRunIInv ==
  ASSUME AssessIInv, StoreRun
  PROVE  AssessIInv'
<1>1. /\ audit_log' = audit_log /\ reporting' = NoReport /\ reporting.kind = "check" /\ ~Pending
  BY DEF StoreRun, world
<1>2. FitsReport(reporting', findings', counted', EntriesLogged')
  BY <1>1 DEF FitsReport
<1>3. CASE reporting.aborted
  BY <1>1, <1>2, <1>3 DEF StoreRun, AssessIInv, AbortedTestsFail
<1>4. CASE ~reporting.aborted
  <2> DEFINE run == RunOf(findings)
             y == [reporting EXCEPT !.aborted = FALSE]
  <2>1. compliance_runs' = Append(compliance_runs, run) /\ answer' = y BY <1>4 DEF StoreRun
  <2>2. reporting # NoReport BY <1>1 DEF NoReport
  <2>3. /\ DOMAIN reporting = {"kind", "aborted"} /\ IsSequence(findings)
        /\ Len(findings) <= 6 /\ CheckFindings(findings, Len(findings))
    BY <1>1, <2>2, ChecksAre DEF AssessIInv, FitsReport
  <2>4. Len(findings) = 6
    <3>1. ~(Len(findings) < 6) BY <1>1, ChecksAre DEF Pending
    <3> QED BY <2>3, <3>1 DEF IsSequence
  <2>5. WholeRun(run) BY <2>3, <2>4, RunOfIsWhole
  <2>6. y.kind = "check" BY <1>1, <2>3
  <2> HIDE DEF y, run
  <2>7. AbortedTestsFail' BY <2>1, <2>6 DEF AbortedTestsFail
  <2>8. IsSequence(compliance_runs) /\ \A i \in 1 .. Len(compliance_runs) : WholeRun(compliance_runs[i])
    BY DEF AssessIInv
  <2> DEFINE rs == Append(compliance_runs, run)
  <2>9. /\ IsSequence(rs) /\ Len(rs) = Len(compliance_runs) + 1 /\ Len(compliance_runs) \in Nat
        /\ rs[Len(compliance_runs) + 1] = run /\ \A i \in 1 .. Len(compliance_runs) : rs[i] = compliance_runs[i]
    BY <2>8, AppendToSequence DEF IsSequence
  <2>10. compliance_runs' = rs BY <2>1
  <2> HIDE DEF rs
  <2>11. \A i \in 1 .. Len(rs) : WholeRun(rs[i])
    <3> SUFFICES ASSUME NEW i \in 1 .. Len(rs) PROVE WholeRun(rs[i]) OBVIOUS
    <3>1. CASE i = Len(compliance_runs) + 1 BY <2>5, <2>9, <3>1
    <3>2. CASE i # Len(compliance_runs) + 1
      <4>1. i \in 1 .. Len(compliance_runs) BY <2>9, <3>2
      <4> QED BY <2>8, <2>9, <4>1
    <3> QED BY <3>1, <3>2
  <2>12. IsFiniteSet(DOMAIN audit_log)' BY <1>1 DEF AssessIInv
  <2>13. IsSequence(compliance_runs') /\ \A i \in 1 .. Len(compliance_runs') : WholeRun(compliance_runs'[i])
    BY <2>9, <2>10, <2>11
  <2> QED BY <1>2, <2>7, <2>12, <2>13 DEF AssessIInv
<1> QED BY <1>3, <1>4

(* An answer says what the findings say. *)
LEMMA AnswerIInv ==
  ASSUME AssessIInv, Answer
  PROVE  AssessIInv'
<1> DEFINE passed == reporting.kind = "tests" => \A f \in Range(findings) : f.verdict # "failed"
           a == [kind |-> reporting.kind, aborted |-> reporting.aborted, overall_pass |-> passed]
<1>1. /\ audit_log' = audit_log /\ reporting' = NoReport /\ answer' = a
      /\ reporting # NoReport /\ compliance_runs' = compliance_runs
  BY DEF Answer, world
<1>2. FitsReport(reporting', findings', counted', EntriesLogged')
  BY <1>1 DEF FitsReport
<1>3. reporting.kind = "tests" /\ reporting.aborted = TRUE => ~passed
  <2> SUFFICES ASSUME reporting.kind = "tests", reporting.aborted = TRUE PROVE ~passed OBVIOUS
  <2>1. IsSequence(findings) /\ \E i \in 1 .. Len(findings) : findings[i].verdict = "failed"
    BY <1>1 DEF AssessIInv, FitsReport
  <2>2. PICK i \in 1 .. Len(findings) : findings[i].verdict = "failed" BY <2>1
  <2>3. DOMAIN findings = 1 .. Len(findings) BY <2>1 DEF IsSequence
  <2>4. findings[i] \in Range(findings) BY <2>2, <2>3 DEF Range
  <2> QED BY <2>2, <2>4
<1>4. reporting.aborted \in BOOLEAN
  BY <1>1 DEF AssessIInv, FitsReport
<1>5. passed \in BOOLEAN
  OBVIOUS
<1> HIDE DEF passed
<1>6. a.kind = reporting.kind /\ a.aborted = reporting.aborted /\ a.overall_pass = passed
  OBVIOUS
<1> HIDE DEF a
<1>7. AbortedTestsFail'
  BY <1>1, <1>3, <1>4, <1>5, <1>6 DEF AbortedTestsFail
<1> QED BY <1>1, <1>2, <1>7 DEF AssessIInv

(* Every step of a report preserves the invariant. *)
LEMMA AssessNextIInv ==
  ASSUME AssessIInv, [AssessNext]_assessVars
  PROVE  AssessIInv'
<1>1. CASE Disconnect
  BY <1>1 DEF Disconnect, AssessIInv, FitsReport, AbortedTestsFail, world
<1>2. CASE UNCHANGED assessVars
  <2>1. EntriesLogged' = EntriesLogged BY <1>2 DEF assessVars, EntriesLogged, UploadsLogged, OverdueLogged, Tally, Logs
  <2> QED BY <1>2, <2>1 DEF assessVars, AssessIInv, AbortedTestsFail
<1> QED BY <1>1, <1>2, WorldIInv, BeginReportIInv, CountIInv, TryPolicyIInv, StatementFailsIInv, StoreRunIInv,
           AnswerIInv DEF AssessNext

(* The invariant implies what reports promise. *)
LEMMA AssessIInvSound ==
  ASSUME AssessIInv
  PROVE  ReportsAreSound
<1>1. DOMAIN compliance_runs = 1 .. Len(compliance_runs)
  BY DEF AssessIInv, IsSequence
<1>2. RunsAreWhole
  BY <1>1 DEF AssessIInv, RunsAreWhole, WholeRun
<1> QED BY <1>2 DEF AssessIInv, ReportsAreSound

(* A section is decided by all its statements, or by the first.            *)
LEMMA DecidedWhen ==
  ASSUME NEW s, ReadsAsNamed(s), NEW n, Decided(s, n), Len(n) \in Nat
  PROVE  /\ s.name = "A1.1" => Len(n) = 2
         /\ s.name = "pii_handling" => Len(n) = 3
         /\ s.name = "data_retention" => Len(n) \in {1, 4}
         /\ s.name = "C1.1" => Len(n) = 3
         /\ s.name = "data_classification" => Len(n) = 3 \/ (Len(n) = 1 /\ n[1] = 0)
<1> DEFINE name == s.name
<1>1. CASE Len(n) = Len(s.reads)
  BY <1>1 DEF ReadsAsNamed
<1>2. CASE /\ s.name \in {"data_classification", "classification_coverage"}
           /\ Len(n) = 1 /\ n[1] = 0
  BY <1>2
<1>3. CASE s.name = "data_retention" /\ Len(n) = 1
  BY <1>3
<1>4. \/ Len(n) = Len(s.reads)
      \/ /\ s.name \in {"data_classification", "classification_coverage"}
         /\ Len(n) = 1 /\ n[1] = 0
      \/ s.name = "data_retention" /\ Len(n) = 1
  BY Zenon DEF Decided
<1> QED BY <1>1, <1>2, <1>3, <1>4

Now(query) == CHOOSE n \in Answers(query) : TRUE

(* A part of the whole is at most all of it, in percent. *)
LEMMA QuotientIsBounded ==
  ASSUME NEW x \in Nat, x # 0, NEW p \in 0 .. 100 * x
  PROVE  p \div x \in 0 .. 100
OBVIOUS

(* The next statement comes after the one before. *)
LEMMA Predecessors ==
  ASSUME NEW n \in Nat
  PROVE  (n + 1 = 2 => n = 1) /\ (n + 1 = 3 => n = 2) /\ (n + 1 = 4 => n = 3)
OBVIOUS

AllLabelled(name, verdict) == name \in {"data_classification", "C1.1"} /\ verdict \in {"PASS", "satisfied"}

(* When the verdict on a control is justified, by what was counted. *)
LEMMA JustifiedWhen ==
  ASSUME NEW name, NEW verdict
  PROVE  /\ /\ AllLabelled(name, verdict)
            /\ ~relabelled /\ Now("documents") = counted[1] => Now("classified") = Now("documents")
            => Justified(name, verdict)
         /\ name = "A1.1" /\ (Now("requests") = counted[1] => verdict \in 0 .. 100) => Justified(name, verdict)
         /\ name = "pii_handling" /\ verdict = "WARNING" /\ Now("pii") = 0 /\ Now("uploads this month") > 0
            => Justified(name, verdict)
         /\ name = "data_retention" /\ verdict = "FAIL" /\ Now("entries over 3 years") > 0
            => Justified(name, verdict)
         /\ /\ ~AllLabelled(name, verdict)
            /\ name # "A1.1" /\ ~(name = "pii_handling" /\ verdict = "WARNING")
            /\ ~(name = "data_retention" /\ verdict = "FAIL")
            => Justified(name, verdict)
<1>1. ASSUME AllLabelled(name, verdict),
             ~relabelled /\ Now("documents") = counted[1] => Now("classified") = Now("documents")
      PROVE  Justified(name, verdict)
  BY <1>1 DEF Justified, Now, AllLabelled
<1>2. ASSUME name = "A1.1", Now("requests") = counted[1] => verdict \in 0 .. 100 PROVE Justified(name, verdict)
  BY <1>2 DEF Justified, Now
<1>3. ASSUME name = "pii_handling", verdict = "WARNING", Now("pii") = 0, Now("uploads this month") > 0
      PROVE  Justified(name, verdict)
  BY <1>3 DEF Justified, Now
<1>4. ASSUME name = "data_retention", verdict = "FAIL", Now("entries over 3 years") > 0 PROVE Justified(name, verdict)
  BY <1>4 DEF Justified, Now
<1>5. ASSUME ~AllLabelled(name, verdict),
             name # "A1.1", ~(name = "pii_handling" /\ verdict = "WARNING"), ~(name = "data_retention" /\ verdict = "FAIL")
      PROVE  Justified(name, verdict)
  BY <1>5 DEF Justified, Now, AllLabelled
<1> QED BY <1>1, <1>2, <1>3, <1>4, <1>5

Labelled == Cardinality({p \in Papers : papers[p] = "labelled"})

(* While no document changes, what was counted of the classified ones is   *)
(* their number.                                                           *)
LabelsAreFresh ==
  /\ reporting # NoReport /\ Pending /\ Section.name \in {"data_classification", "C1.1"}
  /\ Len(counted) = 2 /\ ~relabelled
  => counted[2] = Labelled

(* Every step keeps the count of the classified documents fresh, or notes  *)
(* that it is not.                                                         *)
LEMMA LabelsNext ==
  ASSUME AssessIInv, LabelsAreFresh, [AssessNext]_assessVars
  PROVE  LabelsAreFresh'
<1>1. ASSUME counted' = << >> PROVE LabelsAreFresh'
  <2>1. Len(counted') = 0 BY <1>1, EmptySequence
  <2> QED BY <2>1 DEF LabelsAreFresh
<1>2. ASSUME reporting' = NoReport PROVE LabelsAreFresh'
  BY <1>2 DEF LabelsAreFresh
<1>3. ASSUME UNCHANGED <<reporting, findings, counted>>, relabelled' = FALSE => relabelled = FALSE,
             ~relabelled' /\ Len(counted) = 2 => papers' = papers, relabelled \in BOOLEAN, relabelled' \in BOOLEAN
      PROVE  LabelsAreFresh'
  BY <1>3 DEF LabelsAreFresh, Labelled, Pending, Section
<1>4. ASSUME NEW newPapers, NEW newLog, OtherCommit(newPapers, newLog) PROVE LabelsAreFresh'
  <2>1. /\ UNCHANGED <<reporting, findings, counted>> /\ papers' = newPapers
        /\ relabelled' = (counted # << >> /\ (relabelled \/ newPapers # papers))
    BY <1>4 DEF OtherCommit
  <2>2. CASE Len(counted) = 2
    <3>1. counted # << >> BY <2>2, EmptySequence
    <3>2. ~relabelled' => ~relabelled /\ newPapers = papers BY <2>1, <3>1
    <3> QED BY <2>1, <3>2 DEF LabelsAreFresh, Labelled, Pending, Section
  <2>3. CASE Len(counted) # 2 BY <2>1, <2>3 DEF LabelsAreFresh
  <2> QED BY <2>2, <2>3
<1>5. CASE Count
  <2>1. /\ reporting' = reporting /\ papers' = papers /\ reporting # NoReport /\ Pending
        /\ relabelled' = (counted' # << >> /\ Section.reads[Len(counted) + 1] = "details" /\ relabelled)
    BY <1>5 DEF Count, world
  <2>2. PICK a :
          /\ a \in Answers(Section.reads[Len(counted) + 1])
          /\ IF Decided(Section, Append(counted, a))
               THEN \E verdict \in Verdicts(Section.name, Append(counted, a)) : Conclude(Section.name, verdict)
               ELSE counted' = Append(counted, a) /\ findings' = findings
    BY <1>5 DEF Count
  <2>3. CASE counted' = << >> BY <1>1, <2>3
  <2>4. CASE counted' = Append(counted, a) /\ findings' = findings
    <3>1. FitsReport(reporting, findings, counted, EntriesLogged) /\ Section = Reports[reporting.kind][Len(findings) + 1]
          /\ Len(findings) < Len(Reports[reporting.kind])
      BY <2>1 DEF AssessIInv, Section, Pending
    <3>2. FitsCounted(Section, counted, EntriesLogged) /\ reporting.kind \in DOMAIN Reports /\ IsSequence(findings)
      BY <2>1, <3>1 DEF FitsReport
    <3>3. Len(findings) + 1 \in 1 .. Len(Reports[reporting.kind]) BY <3>1, <3>2, ReportsAre DEF IsSequence
    <3>4. ReadsAsNamed(Section) BY <3>1, <3>2, <3>3, ReportsAre
    <3>5. Section' = Section BY <2>1, <2>4 DEF Section
    <3>6. /\ Len(counted') = Len(counted) + 1 /\ counted'[Len(counted) + 1] = a /\ Len(counted) \in Nat
      BY <2>4, <3>2, AppendToSequence DEF FitsCounted, IsSequence
    <3>7. ASSUME Section.name \in {"data_classification", "C1.1"}, Len(counted') = 2 PROVE counted'[2] = Labelled'
      <4>1. Len(counted) + 1 = 2 BY <3>6, <3>7
      <4>2. Section.reads[Len(counted) + 1] = "classified" BY <3>4, <3>7, <4>1 DEF ReadsAsNamed
      <4>3. a = Labelled BY <2>2, <4>2 DEF Answers, Labelled
      <4>4. Labelled' = Labelled BY <2>1 DEF Labelled
      <4> QED BY <3>6, <4>1, <4>3, <4>4
    <3> QED BY <3>5, <3>7 DEF LabelsAreFresh
  <2> QED BY <2>2, <2>3, <2>4 DEF Conclude
<1>6. CASE UNCHANGED assessVars
  BY <1>6 DEF assessVars, LabelsAreFresh, Labelled, Pending, Section
<1>7. CASE \/ \E p \in Papers : ChangeDocument(p)
           \/ \E event \in Events : LogEvent(event)
           \/ LogRedactedUpload
           \/ \E by \in 1 .. 3 : EntriesAge(by)
  BY <1>4, <1>7 DEF ChangeDocument, LogEvent, LogRedactedUpload, EntriesAge
<1>8. CASE (\E kind \in DOMAIN Reports : BeginReport(kind)) \/ TryPolicy \/ StatementFails \/ Disconnect
  BY <1>1, <1>8 DEF BeginReport, TryPolicy, StatementFails, Disconnect, Conclude
<1>9. CASE StoreRun \/ Answer
  BY <1>2, <1>9 DEF StoreRun, Answer
<1> QED BY <1>5, <1>6, <1>7, <1>8, <1>9 DEF AssessNext

(* What a statement that ends a section has shown. *)
LEMMA FindingsFollow ==
  ASSUME AssessIInv, LabelsAreFresh, Count, findings' # findings
  PROVE  Justified(Last(findings').name, Last(findings').verdict)
<1>1. reporting # NoReport /\ Pending
  BY DEF Count
<1>3. FitsReport(reporting, findings, counted, EntriesLogged) /\ Section = Reports[reporting.kind][Len(findings) + 1]
      /\ Len(findings) < Len(Reports[reporting.kind])
  BY <1>1 DEF AssessIInv, Section, Pending
<1>4. FitsCounted(Section, counted, EntriesLogged) /\ reporting.kind \in DOMAIN Reports /\ IsSequence(findings)
  BY <1>1, <1>3 DEF FitsReport
<1>5. PICK a :
        /\ a \in Answers(Section.reads[Len(counted) + 1])
        /\ IF Decided(Section, Append(counted, a))
             THEN \E verdict \in Verdicts(Section.name, Append(counted, a)) : Conclude(Section.name, verdict)
             ELSE counted' = Append(counted, a) /\ findings' = findings
  BY DEF Count
<1>6. Len(findings) + 1 \in 1 .. Len(Reports[reporting.kind]) /\ Len(findings) \in Nat
  BY <1>3, <1>4, ReportsAre DEF IsSequence
<1>7. ReadsAsNamed(Section)
  BY <1>3, <1>4, <1>6, ReportsAre
<1>8. Decided(Section, Append(counted, a))
  BY <1>5
<1> DEFINE d == Append(counted, a)
<1>9. PICK verdict : verdict \in Verdicts(Section.name, d) /\ Conclude(Section.name, verdict)
  BY <1>5, <1>8
<1>10. IsSequence(counted) /\ IsSequence(d) /\ Len(d) = Len(counted) + 1 /\ Len(counted) \in Nat
       /\ d[Len(counted) + 1] = a /\ \A i \in 1 .. Len(counted) : d[i] = counted[i]
  BY <1>4, AppendToSequence DEF FitsCounted, IsSequence
<1>11. Last(findings').name = Section.name /\ Last(findings').verdict = verdict
  <2> DEFINE f == [name |-> Section.name, verdict |-> verdict]
  <2>1. findings' = Append(findings, f) BY <1>9 DEF Conclude
  <2>2. f.name = Section.name /\ f.verdict = verdict OBVIOUS
  <2> HIDE DEF f
  <2>3. Len(findings') = Len(findings) + 1 /\ findings'[Len(findings) + 1] = f BY <1>4, <2>1, AppendToSequence
  <2> QED BY <2>2, <2>3 DEF Last
<1>12. Decided(Section, d) BY <1>8
<1> HIDE DEF d
<1>18. /\ Section.name = "A1.1" => Len(d) = 2
       /\ Section.name = "pii_handling" => Len(d) = 3
       /\ Section.name = "data_retention" => Len(d) \in {1, 4}
       /\ Section.name = "C1.1" => Len(d) = 3
       /\ Section.name = "data_classification" => Len(d) = 3 \/ (Len(d) = 1 /\ d[1] = 0)
  <2>1. Len(d) \in Nat BY <1>10
  <2> QED BY <1>7, <1>12, <2>1, DecidedWhen
<1>19. PICK name : name = Section.name
  OBVIOUS
<1>13. CASE AllLabelled(name, verdict)
  <2>0. Len(d) = 3
    <3>1. CASE name = "data_classification" /\ Len(d) = 1 /\ d[1] = 0
      <4>1. Verdicts(name, d) = {ClassificationVerdict(d[1], 0)} BY <3>1 DEF Verdicts, SelfSelecting
      <4>2. verdict = "SKIP" BY <1>9, <1>19, <3>1, <4>1 DEF ClassificationVerdict
      <4> QED BY <1>13, <4>2 DEF AllLabelled
    <3> QED BY <1>13, <1>18, <1>19, <3>1 DEF AllLabelled
  <2>10. Len(counted) = 2 BY <1>10, <2>0, Predecessors, Zenon
  <2>1. d[2] = counted[2] /\ d[1] = counted[1]
    <3>1. 1 \in 1 .. Len(counted) /\ 2 \in 1 .. Len(counted) BY <2>10
    <3> QED BY <1>10, <3>1
  <2>2. ~relabelled => Now("classified") = counted[2]
    <3>1. ~relabelled => counted[2] = Labelled BY <1>1, <1>13, <1>19, <2>10 DEF LabelsAreFresh, AllLabelled
    <3> QED BY <3>1 DEF Answers, Now, Labelled
  <2>3. Now("documents") = Cardinality({p \in Papers : papers[p] # "none"})
    BY DEF Answers, Now
  <2>4. d[1] = 0 \/ d[2] = d[1]
    <3>1. CASE name = "data_classification"
      <4>1. verdict = ClassificationVerdict(d[1], d[2])
        <5>1. Verdicts(name, d) = {ClassificationVerdict(d[1], IF Len(d) = 1 THEN 0 ELSE d[2])} BY <3>1 DEF Verdicts, SelfSelecting
        <5> QED BY <1>9, <1>19, <2>0, <5>1
      <4>2. verdict = "PASS"
        <5>1. \A x, y : ClassificationVerdict(x, y) # "satisfied" BY DEF ClassificationVerdict
        <5> QED BY <1>13, <4>1, <5>1 DEF AllLabelled
      <4>3. \A x, y : ClassificationVerdict(x, y) = "PASS" => y = x BY DEF ClassificationVerdict
      <4> QED BY <4>1, <4>2, <4>3
    <3>2. CASE name = "C1.1"
      <4>1. verdict = IF d[1] = 0 \/ d[2] = d[1] THEN "satisfied" ELSE "partial"
        <5>1. Verdicts(name, d) = {IF d[1] = 0 \/ d[2] = d[1] THEN "satisfied" ELSE "partial"}
          BY <3>2 DEF Verdicts, SelfSelecting, ConfidentialityStatus
        <5> QED BY <1>9, <1>19, <5>1
      <4> QED BY <1>13, <4>1 DEF AllLabelled
    <3> QED BY <1>13, <3>1, <3>2 DEF AllLabelled
  <2>5. ~relabelled /\ Now("documents") = counted[1] => Now("classified") = Now("documents")
    <3> SUFFICES ASSUME ~relabelled, Now("documents") = counted[1] PROVE Now("classified") = counted[1] OBVIOUS
    <3>1. CASE d[2] = d[1] BY <2>1, <2>2, <3>1
    <3>2. CASE d[1] = 0
      <4> DEFINE uploaded == {p \in Papers : papers[p] # "none"}
                 labelled == {p \in Papers : papers[p] = "labelled"}
      <4>1. IsFiniteSet(uploaded) /\ labelled \subseteq uploaded BY FS_Subset, AssessmentAssumption DEF AssessmentAssumption
      <4>2. Cardinality(uploaded) = 0 BY <2>1, <2>3, <3>2
      <4> HIDE DEF uploaded
      <4>3. uploaded = {} BY <4>1, <4>2, FS_EmptySet
      <4>4. labelled = {} BY <4>1, <4>3
      <4>5. Now("classified") = Cardinality(labelled) BY DEF Answers, Now
      <4> HIDE DEF labelled
      <4> QED BY <2>1, <3>2, <4>4, <4>5, FS_EmptySet
    <3> QED BY <2>4, <3>1, <3>2
  <2> QED BY <1>13, <2>5, <1>11, <1>19, JustifiedWhen
<1>14. CASE name = "A1.1"
  <2> SUFFICES ASSUME Now("requests") = counted[1] PROVE verdict \in 0 .. 100
    BY <1>14, <1>11, <1>19, JustifiedWhen
  <2>1. Len(counted) = 1 BY <1>10, <1>14, <1>18, <1>19, Predecessors, Zenon
  <2>2. a \in Answers("errors") /\ d[2] = a /\ d[1] = counted[1]
    <3>1. Len(counted) + 1 = 2 /\ 1 \in 1 .. Len(counted) BY <2>1
    <3>2. Section.reads[Len(counted) + 1] = "errors" BY <1>7, <1>19, <1>14, <3>1 DEF ReadsAsNamed
    <3> QED BY <1>5, <1>10, <3>1, <3>2
  <2>3. a = Tally({"failed login"}, {0, 1}) BY <2>2 DEF Answers, Now
  <2>4. counted[1] = Tally(Events, {0, 1})
    <3>1. Now("requests") = Tally(Events, {0, 1}) BY DEF Answers, Now
    <3> QED BY <3>1
  <2>5. a \in Nat /\ counted[1] \in Nat /\ a <= counted[1]
    <3>1. Logs({"failed login"}, {0, 1}) \subseteq Logs(Events, {0, 1}) BY DEF Logs, Events
    <3>2. IsFiniteSet(Logs(Events, {0, 1})) /\ a \in Nat /\ counted[1] \in Nat BY <2>3, <2>4, TallyIsNat
    <3> QED BY <2>3, <2>4, <3>1, <3>2, FS_Subset DEF Tally
  <2>6. verdict = Uptime(counted[1], a)
    <3>1. Verdicts(name, d) = {Uptime(d[1], d[2])} BY <1>14 DEF Verdicts, SelfSelecting
    <3> QED BY <1>9, <1>19, <2>2, <3>1
  <2>7. \A x, y \in Nat : y <= x => Uptime(x, y) \in 0 .. 100
    <3> SUFFICES ASSUME NEW x \in Nat, NEW y \in Nat, y <= x, x # 0 PROVE (100 * (x - y)) \div x \in 0 .. 100
      BY DEF Uptime
    <3>1. 100 * (x - y) \in 0 .. 100 * x OBVIOUS
    <3> QED BY <3>1, QuotientIsBounded
  <2> QED BY <2>5, <2>6, <2>7
<1>15. CASE name = "pii_handling" /\ verdict = "WARNING"
  <2>1. Len(counted) = 2 BY <1>10, <1>15, <1>18, <1>19, Predecessors, Zenon
  <2>2. a \in Answers("pii") /\ d[3] = a /\ d[2] = counted[2]
    <3>1. Len(counted) + 1 = 3 /\ 2 \in 1 .. Len(counted) BY <2>1
    <3>2. Section.reads[Len(counted) + 1] = "pii" BY <1>7, <1>19, <1>15, <3>1 DEF ReadsAsNamed
    <3> QED BY <1>5, <1>10, <3>1, <3>2
  <2>3. verdict = PiiVerdict(d[1], d[2], d[3])
    <3>1. Verdicts(name, d) = {PiiVerdict(d[1], d[2], d[3])} BY <1>15 DEF Verdicts, SelfSelecting
    <3> QED BY <1>9, <1>19, <3>1
  <2>4. d[2] > 0 /\ d[3] = 0 BY <1>15, <2>3 DEF PiiVerdict
  <2>5. counted[2] \in Nat /\ counted[2] <= UploadsLogged
    BY <1>4, <1>15, <1>19, <2>1 DEF FitsCounted, EntriesLogged
  <2>6. UploadsLogged > 0
    <3>1. UploadsLogged \in Nat BY TallyIsNat DEF UploadsLogged
    <3> QED BY <2>2, <2>4, <2>5, <3>1
  <2>7. Now("uploads this month") = UploadsLogged BY DEF Answers, Now, UploadsLogged
  <2>8. Now("pii") = a BY <2>2 DEF Answers, Now
  <2>9. Now("pii") = 0 /\ Now("uploads this month") > 0 BY <2>2, <2>4, <2>6, <2>7, <2>8
  <2> QED BY <1>15, <2>9, <1>11, <1>19, JustifiedWhen
<1>16. CASE name = "data_retention" /\ verdict = "FAIL"
  <2>1. Len(counted) = 3
    <3>1. CASE Len(d) = 1
      <4>1. Verdicts(name, d) = {"SKIP"} BY <1>16, <3>1 DEF Verdicts, SelfSelecting
      <4> QED BY <1>9, <1>19, <1>16, <4>1
    <3>2. CASE Len(d) # 1
      <4>1. Len(d) = 4 BY <1>16, <1>18, <1>19, <3>2
      <4> QED BY <1>10, <4>1, Predecessors, Zenon
    <3> QED BY <3>1, <3>2
  <2>2. counted[3] \in Nat /\ counted[3] <= OverdueLogged /\ d[3] = counted[3]
    <3>1. 3 \in 1 .. Len(counted) /\ Len(counted) >= 3 BY <2>1
    <3>2. d[3] = counted[3] BY <1>10, <3>1
    <3>3. EntriesLogged.overdue = OverdueLogged BY DEF EntriesLogged
    <3> QED BY <1>4, <1>16, <1>19, <3>1, <3>2, <3>3 DEF FitsCounted
  <2>3. verdict = RetentionVerdict(d[1], d[2], d[3])
    <3>1. Verdicts(name, d) = {RetentionVerdict(d[1], d[2], d[3])}
      BY <1>10, <1>16, <2>1 DEF Verdicts, SelfSelecting
    <3> QED BY <1>9, <1>19, <3>1
  <2>4. d[3] > 0
    <3>1. \A x, y, z : RetentionVerdict(x, y, z) = "FAIL" => z > 0 BY DEF RetentionVerdict
    <3> QED BY <1>16, <2>3, <3>1
  <2>5. Now("entries over 3 years") = OverdueLogged /\ OverdueLogged \in Nat
    <3>1. OverdueLogged \in Nat BY TallyIsNat DEF OverdueLogged
    <3> QED BY <3>1 DEF Answers, Now, OverdueLogged
  <2>6. Now("entries over 3 years") > 0
    <3>1. \A x, y \in Nat : x > 0 /\ x <= y => y > 0 OBVIOUS
    <3> QED BY <2>2, <2>4, <2>5, <3>1
  <2> QED BY <1>16, <2>6, <1>11, <1>19, JustifiedWhen
<1>17. CASE /\ ~AllLabelled(name, verdict)
            /\ name # "A1.1" /\ ~(name = "pii_handling" /\ verdict = "WARNING")
            /\ ~(name = "data_retention" /\ verdict = "FAIL")
  BY <1>17, <1>11, <1>19, JustifiedWhen
<1> QED BY <1>11, <1>13, <1>14, <1>15, <1>16, <1>17, <1>19

(* The inductive invariant holds in every reachable state. *)
LEMMA AssessInvariance == AssessSpec => [](AssessIInv /\ LabelsAreFresh)
<1>1. AssessInit => AssessIInv /\ LabelsAreFresh
  BY AssessInitIInv DEF AssessInit, LabelsAreFresh
<1>2. AssessIInv /\ LabelsAreFresh /\ [AssessNext]_assessVars => (AssessIInv /\ LabelsAreFresh)'
  BY AssessNextIInv, LabelsNext
<1>3. QED BY <1>1, <1>2, PTL DEF AssessSpec

-----------------------------------------------------------------------------
(* Conversations, facts and shared spaces.                                 *)

(* The sorted elements of a finite set.                                    *)
LEMMA InOrderIs ==
  ASSUME NEW S, IsFiniteSet(S), NEW R, IsOrder(R, S)
  PROVE  SortedAs(InOrder(S, R), S, R)
<1>1. PICK s : SortedAs(s, S, R) BY SortingExists
<1>2. s \in [1 .. Cardinality(S) -> S] /\ \A j \in DOMAIN s : \A i \in 1 .. j - 1 : <<s[i], s[j]>> \in R
  BY <1>1 DEF SortedAs
<1> DEFINE t == InOrder(S, R)
<1>3. t \in [1 .. Cardinality(S) -> S] /\ \A j \in DOMAIN t : \A i \in 1 .. j - 1 : <<t[i], t[j]>> \in R
  BY <1>2, Zenon DEF InOrder
<1> QED BY <1>3 DEF SortedAs

(* The greatest of the first numbers is the last one. *)
LEMMA MaxOfFirst ==
  ASSUME NEW top \in Nat
  PROVE  Max({0} \cup (1 .. top)) = top
<1>1. {0} \cup (1 .. top) = 0 .. top OBVIOUS
<1>2. \A x \in 0 .. top : (\A y \in 0 .. top : x >= y) => x = top OBVIOUS
<1>3. top \in 0 .. top /\ \A y \in 0 .. top : top >= y OBVIOUS
<1> QED BY <1>1, <1>2, <1>3 DEF Max

-----------------------------------------------------------------------------
NumbersOf(list) == {list[i].number : i \in DOMAIN list}
Above(began, number, list) == \A i \in 1 .. began : list[i].number < number

HasFields(t) ==
  "at" \in DOMAIN t /\ (t.at = "numbered" => "began" \in DOMAIN t /\ "number" \in DOMAIN t)

TalkFits(t, list, top) ==
  /\ t.at = "adding" => t.began \in 0 .. Len(list)
  /\ t.at \in {"numbered", "posted"} =>
       t.began \in 0 .. Len(list) /\ t.number \in 1 .. top + 1 /\ Above(t.began, t.number, list)

TalksFit(top) ==
  /\ NumbersOf(messages) = 1 .. top
  /\ thread.exists => \A s \in Talks : TalkFits(talk[s], messages, top)

MessagesFit ==
  /\ IsSequence(messages)
  /\ \A j \in 1 .. Len(messages) :
       messages[j].began \in 0 .. Len(messages) /\ Above(messages[j].began, messages[j].number, messages)

ThreadIInv ==
  /\ talk = [s \in Talks |-> talk[s]] /\ \A s \in Talks : HasFields(talk[s])
  /\ \A s \in Talks : talk[s].at \in {"posted", "patched", "deleted"} => row_lock = s /\ thread.exists
  /\ DOMAIN thread = {"exists", "title", "archived"} /\ thread.exists \in BOOLEAN
  /\ thread.title = wished.title /\ thread.archived = wished.archived
  /\ ~thread.exists => messages = << >>
  /\ MessagesFit
  /\ \E top \in Nat : TalksFit(top)

(* A conversation begins without messages. *)
LEMMA ThreadInit == ConversationsInit => ThreadIInv
<1> SUFFICES ASSUME ConversationsInit PROVE ThreadIInv
  OBVIOUS
<1>1. /\ talk = [s \in Talks |-> talk[s]] /\ \A s \in Talks : talk[s].at = "idle"
      /\ \A s \in Talks : HasFields(talk[s])
  BY DEF ConversationsInit, NotTalking, HasFields
<1>2. /\ DOMAIN thread = {"exists", "title", "archived"} /\ thread.exists \in BOOLEAN
      /\ thread.title = wished.title /\ thread.archived = wished.archived
  <2> DEFINE w == CHOOSE title \in Titles : TRUE
  <2>1. wished = [title |-> w, archived |-> FALSE]
    BY DEF ConversationsInit
  <2>2. thread = [exists |-> TRUE, title |-> wished.title, archived |-> FALSE]
    BY DEF ConversationsInit
  <2> HIDE DEF w
  <2> QED BY <2>1, <2>2
<1>3. messages = << >> /\ IsSequence(messages) /\ Len(messages) = 0
  BY EmptySequence DEF ConversationsInit
<1>4. MessagesFit BY <1>3 DEF MessagesFit
<1>5. TalksFit(0)
  <2>1. DOMAIN messages = {} BY <1>3
  <2>2. NumbersOf(messages) = 1 .. 0 BY <2>1 DEF NumbersOf
  <2>3. \A s \in Talks : TalkFits(talk[s], messages, 0) BY <1>1 DEF TalkFits
  <2> QED BY <2>2, <2>3 DEF TalksFit
<1>6. \E top \in Nat : TalksFit(top) BY <1>5
<1> QED BY <1>1, <1>2, <1>3, <1>4, <1>6 DEF ThreadIInv

(* What a step of a session may do: nothing to the messages and the row    *)
(* but a new state of its own that fits.                                   *)
LEMMA SessionStep ==
  ASSUME ThreadIInv, NEW s \in Talks, NEW doing, HasFields(doing), Session(s, doing),
         UNCHANGED <<messages, wished, thread>>,
         \A top \in Nat : TalksFit(top) /\ thread.exists => TalkFits(doing, messages, top),
         doing.at \in {"posted", "patched", "deleted"} => row_lock' = s /\ thread.exists,
         \A other \in Talks \ {s} : row_lock = other => row_lock' = other
  PROVE  ThreadIInv'
<1>1. talk' = [talk' EXCEPT ![s] = doing] /\ talk'[s] = doing /\ \A other \in Talks \ {s} : talk'[other] = talk[other]
  BY DEF ThreadIInv, Session
<1>2. (talk = [t \in Talks |-> talk[t]])' /\ \A t \in Talks : HasFields(talk'[t])
  BY <1>1 DEF ThreadIInv, Session
<1>3. MessagesFit' BY DEF ThreadIInv, MessagesFit
<1>4. (\E top \in Nat : TalksFit(top))'
  <2>1. PICK top \in Nat : TalksFit(top) BY DEF ThreadIInv
  <2>2. ASSUME thread.exists, NEW t \in Talks PROVE TalkFits(talk'[t], messages, top)
    <3>1. CASE t = s BY <3>1, <2>1, <2>2, <1>1
    <3>2. CASE t # s BY <3>2, <2>1, <2>2, <1>1 DEF TalksFit
    <3> QED BY <3>1, <3>2
  <2>3. TalksFit(top)' BY <2>1, <2>2 DEF TalksFit
  <2> QED BY <2>3
<1>5. \A t \in Talks : talk'[t].at \in {"posted", "patched", "deleted"} => row_lock' = t /\ thread.exists
  <2> TAKE t \in Talks
  <2>1. CASE t = s BY <2>1, <1>1
  <2>2. CASE t # s BY <2>2, <1>1 DEF ThreadIInv
  <2> QED BY <2>1, <2>2
<1> QED BY <1>2, <1>3, <1>4, <1>5 DEF ThreadIInv

(* A request begins: it has seen no message but those that are there. *)
LEMMA BeginTalkKeeps ==
  ASSUME ThreadIInv, NEW s \in Talks, NEW doing, HasFields(doing), BeginTalk(s, doing),
         doing.at \in {"adding", "patching", "deleting"}, doing.at = "adding" => doing.began = Len(messages)
  PROVE  ThreadIInv'
<1>1. Session(s, doing) /\ UNCHANGED <<messages, wished, thread, row_lock>>
  BY DEF BeginTalk
<1>2. \A top \in Nat : TalkFits(doing, messages, top)
  <2>1. Len(messages) \in Nat BY DEF ThreadIInv, MessagesFit, IsSequence
  <2> QED BY <2>1 DEF TalkFits
<1> QED BY <1>1, <1>2, SessionStep

(* A message gets the number after the last one that is there. *)
LEMMA ReadNumberKeeps ==
  ASSUME ThreadIInv, NEW s \in Talks, ReadNumber(s)
  PROVE  ThreadIInv'
<1> DEFINE number == Max({0} \cup {messages[i].number : i \in DOMAIN messages}) + 1
           doing == [at |-> "numbered", began |-> talk[s].began, number |-> number]
<1>1. Session(s, doing) /\ UNCHANGED <<messages, wished, thread, row_lock>> /\ talk[s].at = "adding" /\ thread.exists
  BY DEF ReadNumber
<1>2. doing.at = "numbered" /\ doing.began = talk[s].began /\ doing.number = number /\ HasFields(doing)
  <2> HIDE DEF number
  <2> QED BY DEF HasFields
<1>3. ASSUME NEW top \in Nat, TalksFit(top) PROVE TalkFits(doing, messages, top)
  <2>1. number = top + 1
    <3>1. {messages[i].number : i \in DOMAIN messages} = 1 .. top BY <1>3 DEF TalksFit, NumbersOf
    <3> QED BY <3>1, MaxOfFirst
  <2>2. talk[s].began \in 0 .. Len(messages) BY <1>1, <1>3 DEF TalksFit, TalkFits
  <2>3. \A i \in 1 .. talk[s].began : messages[i].number < top + 1
    <3>1. \A i \in 1 .. Len(messages) : messages[i].number \in 1 .. top
      <4>1. DOMAIN messages = 1 .. Len(messages) BY DEF ThreadIInv, MessagesFit, IsSequence
      <4> QED BY <4>1, <1>3 DEF TalksFit, NumbersOf
    <3>2. Len(messages) \in Nat BY DEF ThreadIInv, MessagesFit, IsSequence
    <3>3. \A i \in 1 .. talk[s].began : i \in 1 .. Len(messages) BY <2>2, <3>2
    <3> QED BY <3>1, <3>3
  <2> HIDE DEF doing, number
  <2> QED BY <2>1, <2>2, <2>3, <1>2 DEF TalkFits, Above
<1> HIDE DEF doing
<1> QED BY <1>1, <1>2, <1>3, SessionStep

(* The row of the conversation is locked by one session at a time. *)
LEMMA LockRowKeeps ==
  ASSUME ThreadIInv, NEW s \in Talks, NEW from, NEW to, LockRow(s, from, to),
         NobodyTalks \notin Talks,
         (from = "numbered" /\ to = "posted") \/ (from = "patching" /\ to = "patched") \/ (from = "deleting" /\ to = "deleted")
  PROVE  ThreadIInv'
<1> DEFINE doing == [talk[s] EXCEPT !.at = to]
<1>1. /\ Session(s, doing) /\ UNCHANGED <<messages, wished, thread>>
      /\ talk[s].at = from /\ thread.exists /\ row_lock = NobodyTalks /\ row_lock' = s
  BY DEF LockRow
<1>2. doing.at = to /\ HasFields(doing) /\ (to = "posted" => doing.began = talk[s].began /\ doing.number = talk[s].number)
  <2>1. HasFields(talk[s]) BY DEF ThreadIInv
  <2>2. doing.at = to BY <2>1 DEF HasFields
  <2>3. DOMAIN doing = DOMAIN talk[s] OBVIOUS
  <2>4. HasFields(doing) BY <2>1, <2>2, <2>3 DEF HasFields
  <2>5. to = "posted" => doing.began = talk[s].began /\ doing.number = talk[s].number
    BY <1>1, <2>1 DEF HasFields
  <2> QED BY <2>2, <2>4, <2>5
<1>3. ASSUME NEW top \in Nat, TalksFit(top), thread.exists PROVE TalkFits(doing, messages, top)
  <2>1. TalkFits(talk[s], messages, top) BY <1>3 DEF TalksFit
  <2> HIDE DEF doing
  <2>2. CASE to = "posted" BY <2>1, <2>2, <1>1, <1>2 DEF TalkFits
  <2>3. CASE to # "posted" BY <2>3, <1>2 DEF TalkFits
  <2> QED BY <2>2, <2>3
<1> HIDE DEF doing
<1>4. \A other \in Talks \ {s} : row_lock = other => row_lock' = other
  BY <1>1
<1>5. doing.at \in {"posted", "patched", "deleted"} => row_lock' = s /\ thread.exists
  BY <1>1
<1> QED BY <1>1, <1>2, <1>3, <1>4, <1>5, SessionStep

(* A session that does nothing fits whatever is there. *)
LEMMA NotTalkingFits == HasFields(NotTalking) /\ NotTalking.at = "idle" /\ \A list, top : TalkFits(NotTalking, list, top)
  BY DEF HasFields, NotTalking, TalkFits

(* A request that finds no row ends. *)
LEMMA MissRowKeeps ==
  ASSUME ThreadIInv, NEW s \in Talks, MissRow(s)
  PROVE  ThreadIInv'
<1>1. Session(s, NotTalking) /\ UNCHANGED <<messages, wished, thread, row_lock>>
  BY DEF MissRow
<1> QED BY <1>1, NotTalkingFits, SessionStep

(* A request that fails leaves the conversation alone. *)
LEMMA RollbackTalkKeeps ==
  ASSUME ThreadIInv, NEW s \in Talks, RollbackTalk(s)
  PROVE  ThreadIInv'
<1>1. Session(s, NotTalking) /\ UNCHANGED <<messages, wished, thread>> /\ \A other \in Talks \ {s} : row_lock = other => row_lock' = other
  BY DEF RollbackTalk
<1> QED BY <1>1, NotTalkingFits, SessionStep

(* A patch is committed as a whole. *)
LEMMA CommitPatchKeeps ==
  ASSUME ThreadIInv, NEW s \in Talks, NobodyTalks \notin Talks, CommitPatch(s)
  PROVE  ThreadIInv'
<1> DEFINE t == talk[s]
           title == FieldWritten(t.title, t.seen.title, thread.title)
           archived == FieldWritten(t.archived, t.seen.archived, thread.archived)
<1>1. row_lock = s /\ t.at = "patched" /\ row_lock' = NobodyTalks /\ Session(s, NotTalking) /\ messages' = messages
  BY DEF CommitPatch, EndTalk
<1>2. thread' = [thread EXCEPT !.title = title, !.archived = archived]
  BY DEF CommitPatch, FieldWritten
<1>3. wished' = [title |-> title, archived |-> archived]
  <2>1. title = FieldWritten(t.title, t.seen.title, wished.title) /\ archived = FieldWritten(t.archived, t.seen.archived, wished.archived)
    BY DEF ThreadIInv
  <2> QED BY <2>1 DEF CommitPatch
<1> HIDE DEF t, title, archived
<1>4. /\ DOMAIN thread' = {"exists", "title", "archived"} /\ thread'.exists = thread.exists
      /\ thread'.title = title /\ thread'.archived = archived
  BY <1>2 DEF ThreadIInv
<1>5. wished'.title = title /\ wished'.archived = archived
  BY <1>3
<1>6. talk'[s] = NotTalking /\ (\A other \in Talks \ {s} : talk'[other] = talk[other]) /\ (talk = [u \in Talks |-> talk[u]])'
  BY <1>1 DEF ThreadIInv, Session
<1>7. \A u \in Talks : HasFields(talk'[u]) /\ talk'[u].at \notin {"posted", "patched", "deleted"}
  BY <1>6, <1>1, NotTalkingFits DEF ThreadIInv
<1>8. MessagesFit' BY <1>1 DEF ThreadIInv, MessagesFit
<1>9. (\E top \in Nat : TalksFit(top))'
  <2>1. PICK top \in Nat : TalksFit(top) BY DEF ThreadIInv
  <2>2. ASSUME thread.exists, NEW u \in Talks PROVE TalkFits(talk'[u], messages, top)
    <3>1. CASE u = s BY <3>1, NotTalkingFits, <1>6
    <3>2. CASE u # s BY <3>2, <2>1, <2>2, <1>6 DEF TalksFit
    <3> QED BY <3>1, <3>2
  <2>3. TalksFit(top)' BY <2>1, <2>2, <1>1, <1>4 DEF TalksFit
  <2> QED BY <2>3
<1>10. ~thread'.exists => messages' = << >> BY <1>1, <1>4 DEF ThreadIInv
<1> QED BY <1>4, <1>5, <1>6, <1>7, <1>8, <1>9, <1>10 DEF ThreadIInv

(* A deletion removes the conversation and its messages. *)
LEMMA CommitDeletionKeeps ==
  ASSUME ThreadIInv, NEW s \in Talks, NobodyTalks \notin Talks, CommitDeletion(s)
  PROVE  ThreadIInv'
<1>1. row_lock = s /\ row_lock' = NobodyTalks /\ Session(s, NotTalking) /\ messages' = << >> /\ wished' = wished
  BY DEF CommitDeletion, EndTalk
<1>2. thread' = [thread EXCEPT !.exists = FALSE]
  BY DEF CommitDeletion
<1>3. /\ DOMAIN thread' = {"exists", "title", "archived"} /\ thread'.exists = FALSE
      /\ thread'.title = thread.title /\ thread'.archived = thread.archived
  BY <1>2 DEF ThreadIInv
<1>4. talk'[s] = NotTalking /\ (\A other \in Talks \ {s} : talk'[other] = talk[other]) /\ (talk = [u \in Talks |-> talk[u]])'
  BY <1>1 DEF ThreadIInv, Session
<1>5. \A u \in Talks : HasFields(talk'[u]) /\ talk'[u].at \notin {"posted", "patched", "deleted"}
  BY <1>4, <1>1, NotTalkingFits DEF ThreadIInv
<1>6. IsSequence(messages') /\ Len(messages') = 0
  BY <1>1, EmptySequence
<1>7. MessagesFit' BY <1>6 DEF MessagesFit
<1>8. TalksFit(0)'
  <2>1. DOMAIN messages' = {} BY <1>1
  <2>2. NumbersOf(messages)' = 1 .. 0 BY <2>1 DEF NumbersOf
  <2> QED BY <2>2, <1>3 DEF TalksFit
<1>9. (\E top \in Nat : TalksFit(top))' BY <1>8
<1> QED BY <1>1, <1>3, <1>4, <1>5, <1>7, <1>9 DEF ThreadIInv

(* A message is committed under its number, if that is free. *)
LEMMA CommitMessageKeeps ==
  ASSUME ThreadIInv, NEW s \in Talks, NobodyTalks \notin Talks, CommitMessage(s)
  PROVE  ThreadIInv'
<1> DEFINE message == [number |-> talk[s].number, began |-> talk[s].began]
           n == Len(messages)
<1>1. /\ row_lock = s /\ row_lock' = NobodyTalks /\ Session(s, NotTalking) /\ UNCHANGED <<thread, wished>>
      /\ talk[s].at = "posted" /\ messages' = Append(messages, message)
  BY DEF CommitMessage, EndTalk
<1>2. talk'[s] = NotTalking /\ (\A other \in Talks \ {s} : talk'[other] = talk[other]) /\ (talk = [u \in Talks |-> talk[u]])'
  BY <1>1 DEF ThreadIInv, Session
<1>3. \A u \in Talks : HasFields(talk'[u]) /\ talk'[u].at \notin {"posted", "patched", "deleted"}
  BY <1>2, <1>1, NotTalkingFits DEF ThreadIInv
<1>4. message.number = talk[s].number /\ message.began = talk[s].began
  OBVIOUS
<1> HIDE DEF message
<1>5. IsSequence(messages) /\ n \in Nat BY DEF ThreadIInv, MessagesFit, IsSequence
<1>6. /\ IsSequence(messages') /\ Len(messages') = n + 1
      /\ messages'[n + 1] = message /\ \A i \in 1 .. n : messages'[i] = messages[i]
  BY <1>1, <1>5, AppendToSequence
<1> HIDE DEF n
<1>7. DOMAIN messages = 1 .. n /\ DOMAIN messages' = 1 .. n + 1
  BY <1>5, <1>6 DEF IsSequence, n
<1>8. thread.exists BY <1>1 DEF ThreadIInv
<1>9. PICK top \in Nat : TalksFit(top) BY DEF ThreadIInv
<1>10. TalkFits(talk[s], messages, top) BY <1>8, <1>9 DEF TalksFit
<1>11. message.began \in 0 .. n /\ message.number \in 1 .. top + 1 /\ Above(message.began, message.number, messages)
  BY <1>10, <1>4, <1>1 DEF TalkFits, n
<1>12. \A began \in 0 .. n : \A number : Above(began, number, messages) <=> Above(began, number, messages')
  <2> TAKE began \in 0 .. n
  <2> TAKE number
  <2>1. \A i \in 1 .. began : messages'[i] = messages[i] BY <1>5, <1>6
  <2> QED BY <2>1 DEF Above
<1>13. ASSUME NEW j \in 1 .. n + 1 PROVE messages'[j].began \in 0 .. n + 1 /\ Above(messages'[j].began, messages'[j].number, messages')
  <2>1. CASE j = n + 1 BY <2>1, <1>5, <1>6, <1>11, <1>12
  <2>2. CASE j # n + 1
    <3>1. j \in 1 .. n /\ messages'[j] = messages[j] BY <1>5, <2>2, <1>6
    <3>2. messages[j].began \in 0 .. n /\ Above(messages[j].began, messages[j].number, messages)
      BY <3>1 DEF ThreadIInv, MessagesFit, n
    <3> QED BY <1>5, <3>1, <3>2, <1>12
  <2> QED BY <2>1, <2>2
<1>14. MessagesFit' BY <1>6, <1>13 DEF MessagesFit
<1> DEFINE newTop == IF message.number > top THEN message.number ELSE top
<1>15. newTop \in Nat /\ newTop >= top BY <1>11
<1>16. NumbersOf(messages') = 1 .. newTop
  <2>1. NumbersOf(messages) = 1 .. top BY <1>9 DEF TalksFit
  <2>2. NumbersOf(messages') = NumbersOf(messages) \cup {message.number}
    <3>1. \A i \in 1 .. n + 1 : i \in 1 .. n \/ i = n + 1 BY <1>5
    <3>2. 1 .. n \subseteq 1 .. n + 1 /\ n + 1 \in 1 .. n + 1 BY <1>5
    <3>3. NumbersOf(messages') \subseteq NumbersOf(messages) \cup {message.number}
      BY <3>1, <1>6, <1>7 DEF NumbersOf
    <3>4. NumbersOf(messages) \subseteq NumbersOf(messages')
      BY <3>2, <1>6, <1>7 DEF NumbersOf
    <3>5. message.number \in NumbersOf(messages')
      BY <3>2, <1>6, <1>7 DEF NumbersOf
    <3> QED BY <3>3, <3>4, <3>5
  <2>3. (1 .. top) \cup {message.number} = 1 .. newTop BY <1>11
  <2> QED BY <2>1, <2>2, <2>3
<1>17. ASSUME NEW u \in Talks PROVE TalkFits(talk'[u], messages', newTop)
  <2>1. CASE u = s BY <2>1, <1>2, NotTalkingFits
  <2>2. CASE u # s
    <3>1. talk'[u] = talk[u] /\ TalkFits(talk[u], messages, top) BY <2>2, <1>2, <1>8, <1>9 DEF TalksFit
    <3>2. talk[u].began \in 0 .. n => talk[u].began \in 0 .. n + 1 BY <1>5
    <3>3. talk[u].number \in 1 .. top + 1 => talk[u].number \in 1 .. newTop + 1 BY <1>15
    <3> HIDE DEF newTop
    <3> QED BY <3>1, <3>2, <3>3, <1>6, <1>12 DEF TalkFits, n
  <2> QED BY <2>1, <2>2
<1> HIDE DEF newTop
<1>18. PICK k \in Nat : NumbersOf(messages') = 1 .. k /\ \A u \in Talks : TalkFits(talk'[u], messages', k)
  BY <1>15, <1>16, <1>17
<1>20. TalksFit(k)' BY <1>18 DEF TalksFit
<1>19. (\E last \in Nat : TalksFit(last))' BY <1>20
<1> QED BY <1>1, <1>2, <1>3, <1>8, <1>14, <1>19 DEF ThreadIInv

(* Every step of a conversation preserves its invariant. *)
LEMMA ThreadNext ==
  ASSUME ConversationAssumption, ThreadIInv, [ConversationsNext]_conversationVars
  PROVE  ThreadIInv'
<1>1. NobodyTalks \notin Talks BY DEF ConversationAssumption
<1>2. ASSUME NEW s \in Talks, AddMessage(s) PROVE ThreadIInv'
  <2> DEFINE doing == [at |-> "adding", began |-> Len(messages)]
  <2>1. HasFields(doing) /\ doing.at = "adding" /\ doing.began = Len(messages) BY DEF HasFields
  <2>2. BeginTalk(s, doing) BY <1>2 DEF AddMessage
  <2> HIDE DEF doing
  <2> QED BY <2>1, <2>2, BeginTalkKeeps
<1>3. ASSUME NEW s \in Talks, UpdateConversation(s) PROVE ThreadIInv'
  <2>1. PICK title, archived : BeginTalk(s, [at |-> "patching", seen |-> thread, title |-> title, archived |-> archived])
    BY <1>3 DEF UpdateConversation
  <2> DEFINE doing == [at |-> "patching", seen |-> thread, title |-> title, archived |-> archived]
  <2>2. HasFields(doing) /\ doing.at = "patching" BY DEF HasFields
  <2>3. BeginTalk(s, doing) BY <2>1
  <2> HIDE DEF doing
  <2> QED BY <2>2, <2>3, BeginTalkKeeps
<1>4. ASSUME NEW s \in Talks, DeleteConversation(s) PROVE ThreadIInv'
  <2> DEFINE doing == [at |-> "deleting"]
  <2>1. HasFields(doing) /\ doing.at = "deleting" BY DEF HasFields
  <2>2. BeginTalk(s, doing) BY <1>4 DEF DeleteConversation
  <2> HIDE DEF doing
  <2> QED BY <2>1, <2>2, BeginTalkKeeps
<1>5. ASSUME NEW s \in Talks, FlushMessage(s) \/ FlushPatch(s) \/ FlushDeletion(s) PROVE ThreadIInv'
  <2>1. CASE FlushMessage(s) BY <1>1, <2>1, LockRowKeeps DEF FlushMessage
  <2>2. CASE FlushPatch(s) BY <1>1, <2>2, LockRowKeeps DEF FlushPatch
  <2>3. CASE FlushDeletion(s) BY <1>1, <2>3, LockRowKeeps DEF FlushDeletion
  <2> QED BY <1>5, <2>1, <2>2, <2>3
<1>6. ASSUME UNCHANGED threadVars PROVE ThreadIInv'
  <2>1. UNCHANGED <<thread, messages, talk, row_lock, wished>> BY <1>6 DEF threadVars
  <2> QED BY <2>1 DEF ThreadIInv, MessagesFit, TalksFit
<1>7. CASE UNCHANGED conversationVars BY <1>6, <1>7 DEF conversationVars, threadVars
<1>8. CASE ExtractFacts \/ StoreFact \/ EndExtraction \/ FetchFacts \/ ScoreFact \/ RecallFacts \/ DeleteFact
  <2>1. UNCHANGED threadVars
    BY <1>8 DEF ExtractFacts, StoreFact, EndExtraction, FetchFacts, ScoreFact, RecallFacts, DeleteFact
  <2> QED BY <1>6, <2>1
<1> QED
  BY <1>1, <1>2, <1>3, <1>4, <1>5, <1>7, <1>8, ReadNumberKeeps, MissRowKeeps, RollbackTalkKeeps, CommitPatchKeeps,
     CommitDeletionKeeps, CommitMessageKeeps DEF ConversationsNext

(* The invariant implies what is promised of messages and titles. *)
LEMMA ThreadSound ==
  ASSUME ThreadIInv
  PROVE  MessagesAreNumbered /\ PatchesAreKept
<1>1. PICK top \in Nat : NumbersOf(messages) = 1 .. top BY DEF ThreadIInv, TalksFit
<1>2. {messages[i].number : i \in DOMAIN messages} = 1 .. Max({0} \cup {messages[i].number : i \in DOMAIN messages})
  BY <1>1, MaxOfFirst DEF NumbersOf
<1>3. DOMAIN messages = 1 .. Len(messages) BY DEF ThreadIInv, MessagesFit, IsSequence
<1>4. \A j \in DOMAIN messages : \A i \in 1 .. messages[j].began : messages[i].number < messages[j].number
  BY <1>3 DEF ThreadIInv, MessagesFit, Above
<1> QED BY <1>2, <1>4 DEF ThreadIInv, MessagesAreNumbered, PatchesAreKept

-----------------------------------------------------------------------------
SureUpTo(items, n) == {i \in DOMAIN items : i < n /\ items[i] = "sure"}

FactsIInv ==
  /\ DOMAIN extraction = {"at", "items", "next", "kept", "aborted"} /\ extraction.at \in {"idle", "storing", "done"}
  /\ \E n \in Nat : DOMAIN extraction.items = 1 .. n
  /\ extraction.next \in Nat \ {0} /\ extraction.aborted \in BOOLEAN
  /\ ~extraction.aborted => extraction.kept = SureUpTo(extraction.items, extraction.next)
  /\ extraction.at # "done" => facts = {} /\ dropped = {}
  /\ facts \subseteq DOMAIN extraction.items /\ FactsAreWhole

(* What an extraction has come to is a finite set of numbers. *)
LEMMA FactsAreFinite ==
  ASSUME FactsIInv
  PROVE  facts \in SUBSET Nat /\ IsFiniteSet(facts)
<1>1. PICK n \in Nat : DOMAIN extraction.items = 1 .. n BY DEF FactsIInv
<1>2. IsFiniteSet(1 .. n) /\ facts \subseteq 1 .. n BY <1>1, FS_Interval DEF FactsIInv
<1>3. 1 .. n \subseteq Nat BY <1>1
<1>4. facts \in SUBSET Nat BY <1>2, <1>3
<1> QED BY <1>2, <1>4, FS_Subset

(* No fact is extracted at first. *)
LEMMA FactsInit == ConversationsInit => FactsIInv
<1> SUFFICES ASSUME ConversationsInit PROVE FactsIInv
  OBVIOUS
<1>1. extraction = [at |-> "idle", items |-> << >>, next |-> 1, kept |-> {}, aborted |-> FALSE]
      /\ facts = {} /\ dropped = {}
  BY DEF ConversationsInit, NotExtracting
<1>2. DOMAIN << >> = 1 .. 0 /\ 1 .. 0 = {} OBVIOUS
<1> QED BY <1>1, <1>2 DEF FactsIInv, FactsAreWhole, SureUpTo

(* An extraction goes on to its next fact. *)
LEMMA AdvanceKeeps ==
  ASSUME FactsIInv, NEW kept, NEW aborted, Advance(kept, aborted), extraction.at = "storing",
         facts' = facts, dropped' = dropped, aborted \in BOOLEAN,
         ~aborted => kept = SureUpTo(extraction.items, extraction.next + 1)
  PROVE  FactsIInv'
<1> DEFINE next == extraction.next + 1
<1>0. next \in Nat \ {0} BY DEF FactsIInv
<1>1. extraction' = [extraction EXCEPT !.next = next, !.kept = kept, !.aborted = aborted]
  BY DEF Advance
<1> HIDE DEF next
<1>2. /\ DOMAIN extraction' = {"at", "items", "next", "kept", "aborted"} /\ extraction'.at = "storing"
      /\ extraction'.kept = kept /\ extraction'.aborted = aborted /\ extraction'.next = next
      /\ extraction'.items = extraction.items
  BY <1>1 DEF FactsIInv
<1>3. ~aborted => kept = SureUpTo(extraction'.items, extraction'.next)
  BY <1>2 DEF next
<1> QED BY <1>0, <1>2, <1>3 DEF FactsIInv, FactsAreWhole

(* Every step of an extraction preserves its invariant. *)
LEMMA FactsNext ==
  ASSUME FactsIInv, [ConversationsNext]_conversationVars
  PROVE  FactsIInv'
<1>1. ASSUME UNCHANGED <<facts, dropped, extraction>> PROVE FactsIInv'
  BY <1>1 DEF FactsIInv, FactsAreWhole, SureUpTo
<1>2. CASE ExtractFacts
  <2>1. PICK n, items : /\ n \in 0 .. MaxFacts /\ items \in [1 .. n -> {"sure", "unsure", "unreadable"}]
                        /\ extraction' = [NotExtracting EXCEPT !.at = "storing", !.items = items]
    BY <1>2 DEF ExtractFacts
  <2>2. facts = {} /\ facts' = facts /\ dropped' = dropped /\ extraction.at = "idle" BY <1>2 DEF ExtractFacts
  <2>3. /\ DOMAIN extraction' = {"at", "items", "next", "kept", "aborted"} /\ extraction'.at = "storing"
        /\ extraction'.kept = {} /\ extraction'.aborted = FALSE /\ extraction'.next = 1 /\ extraction'.items = items
    BY <2>1 DEF NotExtracting
  <2>4. DOMAIN items = 1 .. n /\ n \in Nat BY <2>1
  <2>5. SureUpTo(items, 1) = {} BY <2>4 DEF SureUpTo
  <2>6. \E m \in Nat : DOMAIN extraction'.items = 1 .. m BY <2>3, <2>4
  <2>7. extraction'.kept = SureUpTo(extraction'.items, extraction'.next) BY <2>3, <2>5
  <2>8. FactsAreWhole' BY <2>3 DEF FactsAreWhole
  <2>9. facts' = {} /\ dropped' = {} BY <2>2 DEF FactsIInv
  <2>10. facts' \subseteq DOMAIN extraction'.items BY <2>9
  <2>11. extraction'.next \in Nat \ {0} BY <2>3
  <2>12. extraction'.aborted \in BOOLEAN BY <2>3
  <2> QED BY <2>3, <2>6, <2>7, <2>8, <2>9, <2>10, <2>11, <2>12 DEF FactsIInv
<1>3. CASE StoreFact
  <2> DEFINE items == extraction.items
             n == extraction.next
             kept == extraction.kept
  <2>1. /\ extraction.at = "storing" /\ facts' = facts /\ dropped' = dropped /\ n \in DOMAIN items /\ n \in Nat
        /\ extraction.aborted \in BOOLEAN
    BY <1>3 DEF StoreFact, FactsIInv
  <2>2. \/ items[n] # "sure" /\ Advance(kept, extraction.aborted)
        \/ items[n] = "sure" /\ ~extraction.aborted /\ Advance(kept \cup {n}, FALSE)
        \/ Advance(kept, TRUE)
    BY <1>3 DEF StoreFact
  <2>3. PICK size \in Nat : DOMAIN items = 1 .. size BY DEF FactsIInv
  <2>4. ~extraction.aborted => kept = SureUpTo(items, n) BY DEF FactsIInv
  <2> HIDE DEF items, n, kept
  <2>5. SureUpTo(items, n + 1) = IF items[n] = "sure" THEN SureUpTo(items, n) \cup {n} ELSE SureUpTo(items, n)
    BY <2>1, <2>3 DEF SureUpTo
  <2>6. CASE items[n] # "sure" /\ Advance(kept, extraction.aborted)
    <3>1. ~extraction.aborted => kept = SureUpTo(items, n + 1) BY <2>4, <2>5, <2>6
    <3> QED BY <2>1, <2>6, <3>1, AdvanceKeeps DEF items, n
  <2>7. CASE items[n] = "sure" /\ ~extraction.aborted /\ Advance(kept \cup {n}, FALSE)
    <3>1. kept \cup {n} = SureUpTo(items, n + 1) BY <2>4, <2>5, <2>7
    <3> QED BY <2>1, <2>7, <3>1, AdvanceKeeps DEF items, n
  <2>8. CASE Advance(kept, TRUE)
    BY <2>1, <2>8, AdvanceKeeps
  <2> QED BY <2>2, <2>6, <2>7, <2>8
<1>4. CASE EndExtraction
  <2>1. /\ extraction.at = "storing" /\ extraction' = [extraction EXCEPT !.at = "done"]
        /\ facts' = IF extraction.aborted THEN facts ELSE extraction.kept
        /\ extraction.next \notin DOMAIN extraction.items /\ dropped' = dropped
    BY <1>4 DEF EndExtraction
  <2>2. /\ DOMAIN extraction' = {"at", "items", "next", "kept", "aborted"} /\ extraction'.at = "done"
        /\ extraction'.kept = extraction.kept /\ extraction'.aborted = extraction.aborted
        /\ extraction'.next = extraction.next /\ extraction'.items = extraction.items
    BY <2>1 DEF FactsIInv
  <2>3. facts = {} /\ dropped = {} /\ extraction.aborted \in BOOLEAN BY <2>1 DEF FactsIInv
  <2>4. PICK size \in Nat : DOMAIN extraction.items = 1 .. size BY DEF FactsIInv
  <2>5. ASSUME ~extraction.aborted
        PROVE  extraction.kept = {i \in DOMAIN extraction.items : extraction.items[i] = "sure"}
    <3>1. extraction.kept = SureUpTo(extraction.items, extraction.next) /\ extraction.next \in Nat \ {0}
      BY <2>5 DEF FactsIInv
    <3>2. CASE extraction.next > size BY <2>4, <3>1, <3>2 DEF SureUpTo
    <3> QED BY <2>1, <2>4, <3>1, <3>2
  <2> QED BY <2>1, <2>2, <2>3, <2>4, <2>5 DEF FactsIInv, FactsAreWhole
<1>5. CASE DeleteFact
  <2>1. PICK fact \in facts : facts' = facts \ {fact} /\ dropped' = dropped \cup {fact} /\ extraction' = extraction
    BY <1>5 DEF DeleteFact
  <2>2. extraction.at = "done" BY <2>1 DEF FactsIInv
  <2>3. FactsAreWhole' BY <2>1, <2>2 DEF FactsIInv, FactsAreWhole
  <2> QED BY <2>1, <2>2, <2>3 DEF FactsIInv, SureUpTo
<1>6. CASE UNCHANGED conversationVars BY <1>1, <1>6 DEF conversationVars
<1>7. CASE FetchFacts \/ ScoreFact \/ RecallFacts BY <1>1, <1>7 DEF FetchFacts, ScoreFact, RecallFacts
<1>8. ASSUME NEW s \in Talks,
             \/ AddMessage(s) \/ ReadNumber(s) \/ FlushMessage(s) \/ CommitMessage(s)
             \/ UpdateConversation(s) \/ FlushPatch(s) \/ CommitPatch(s)
             \/ DeleteConversation(s) \/ FlushDeletion(s) \/ CommitDeletion(s)
             \/ MissRow(s) \/ RollbackTalk(s)
      PROVE  FactsIInv'
  <2>1. UNCHANGED factVars
    BY <1>8, Zenon DEF AddMessage, ReadNumber, FlushMessage, CommitMessage, UpdateConversation, FlushPatch, CommitPatch,
                DeleteConversation, FlushDeletion, CommitDeletion, MissRow, RollbackTalk, BeginTalk, LockRow, EndTalk
  <2> QED BY <1>1, <2>1 DEF factVars
<1> QED BY <1>2, <1>3, <1>4, <1>5, <1>6, <1>7, <1>8 DEF ConversationsNext

-----------------------------------------------------------------------------
Distinct(list) == \A i, j \in 1 .. Len(list) : list[i] = list[j] => i = j

ScoreOf(f, sc, fact) == sc[CHOOSE i \in DOMAIN f : f[i] = fact]
ValuesOf(list) == {list[i] : i \in DOMAIN list}

RankedAs(f, sc, got) ==
  /\ Cardinality(ValuesOf(got)) = Len(got) /\ Len(got) <= TopK
  /\ \A i, j \in DOMAIN got : i < j => ScoreOf(f, sc, got[i]) >= ScoreOf(f, sc, got[j])
  /\ \A fact \in ValuesOf(f) \ ValuesOf(got) :
       \/ ScoreOf(f, sc, fact) < 5
       \/ Len(got) = TopK /\ \A other \in ValuesOf(got) : ScoreOf(f, sc, fact) <= ScoreOf(f, sc, other)

RecallFits(r) ==
  /\ DOMAIN r = {"at", "fetched", "scores"}
  /\ IsSequence(r.fetched) /\ Distinct(r.fetched)
  /\ IsSequence(r.scores) /\ Len(r.scores) <= Len(r.fetched) /\ \A i \in 1 .. Len(r.scores) : r.scores[i] \in 0 .. 10

RecallIInv ==
  /\ recollection.at \in {"idle", "scoring", "done"}
  /\ recollection.at = "scoring" => RecallFits(recollection)
  /\ recollection.at = "done" => RankedAs(recollection.fetched, recollection.scores, recollection.recalled)

(* A finite set that is ordered is sorted, without losses or repetitions. *)
LEMMA SortedSequence ==
  ASSUME NEW S, IsFiniteSet(S), NEW R, IsOrder(R, S)
  PROVE  LET s == InOrder(S, R) IN
         /\ Cardinality(S) \in Nat /\ Len(s) = Cardinality(S) /\ IsSequence(s) /\ s \in [1 .. Len(s) -> S]
         /\ \A i, j \in 1 .. Len(s) : i < j => <<s[i], s[j]>> \in R
         /\ \A i, j \in 1 .. Len(s) : s[i] = s[j] => i = j
         /\ \A x \in S : \E i \in 1 .. Len(s) : s[i] = x
<1> DEFINE s == InOrder(S, R)
           n == Cardinality(S)
<1>1. SortedAs(s, S, R) BY InOrderIs
<1> HIDE DEF s
<1>2. /\ n \in Nat /\ s \in [1 .. n -> S]
      /\ \A i, j \in 1 .. n : i < j => <<s[i], s[j]>> \in R
      /\ \A i, j \in 1 .. n : s[i] = s[j] => i = j
      /\ \A x \in S : \E i \in 1 .. n : s[i] = x
  BY <1>1, SortedIs
<1> HIDE DEF n
<1>3. Len(s) = n BY <1>2
<1>4. IsSequence(s) BY <1>2, <1>3 DEF IsSequence
<1> QED BY <1>2, <1>3, <1>4 DEF s, n

(* A recollection fetches the facts that are there. *)
LEMMA FetchKeeps ==
  ASSUME FactsIInv, FetchFacts
  PROVE  RecallIInv'
<1> DEFINE f == InOrder(facts, Newer(facts))
<1>1. IsFiniteSet(facts) /\ facts \in SUBSET Nat BY FactsAreFinite
<1>2. IsOrder(Newer(facts), facts) BY <1>1 DEF IsOrder, Newer
<1>3. IsSequence(f) /\ \A i, j \in 1 .. Len(f) : f[i] = f[j] => i = j
  BY <1>1, <1>2, SortedSequence
<1>4. recollection' = [at |-> "scoring", fetched |-> f, scores |-> << >>]
  BY DEF FetchFacts
<1> HIDE DEF f
<1>5. /\ DOMAIN recollection' = {"at", "fetched", "scores"} /\ recollection'.at = "scoring"
      /\ recollection'.fetched = f /\ recollection'.scores = << >>
  BY <1>4
<1>6. Len(f) \in Nat BY <1>3 DEF IsSequence
<1>7. RecallFits(recollection')
  <2>1. IsSequence(<< >>) /\ Len(<< >>) = 0 BY EmptySequence
  <2> QED BY <1>3, <1>5, <1>6, <2>1 DEF RecallFits, Distinct
<1> QED BY <1>5, <1>7 DEF RecallIInv

(* A fact gets its score. *)
LEMMA ScoreKeeps ==
  ASSUME ConversationAssumption, RecallIInv, ScoreFact
  PROVE  RecallIInv'
<1> DEFINE sc == recollection.scores
           f == recollection.fetched
<1>1. recollection.at = "scoring" /\ Len(sc) < Len(f) BY DEF ScoreFact
<1>2. PICK score \in Relevances \cup {5} : recollection' = [recollection EXCEPT !.scores = Append(sc, score)]
  BY DEF ScoreFact
<1>3. score \in 0 .. 10 BY <1>2 DEF ConversationAssumption
<1>4. RecallFits(recollection) BY <1>1 DEF RecallIInv
<1> DEFINE new == Append(sc, score)
<1>5. IsSequence(new) /\ Len(new) = Len(sc) + 1 /\ new[Len(sc) + 1] = score /\ \A i \in 1 .. Len(sc) : new[i] = sc[i]
  BY <1>4, AppendToSequence DEF RecallFits
<1>6. recollection' = [recollection EXCEPT !.scores = new] BY <1>2
<1> HIDE DEF new
<1>7. /\ DOMAIN recollection' = {"at", "fetched", "scores"} /\ recollection'.at = "scoring"
      /\ recollection'.fetched = f /\ recollection'.scores = new
  BY <1>1, <1>4, <1>6 DEF RecallFits
<1>8. Len(sc) \in Nat /\ Len(f) \in Nat /\ \A i \in 1 .. Len(sc) : sc[i] \in 0 .. 10
  BY <1>4 DEF RecallFits, IsSequence
<1> HIDE DEF sc, f
<1>9. \A i \in 1 .. Len(new) : new[i] \in 0 .. 10
  <2> TAKE i \in 1 .. Len(new)
  <2>1. CASE i = Len(sc) + 1 BY <2>1, <1>5, <1>3
  <2>2. CASE i # Len(sc) + 1
    <3>1. i \in 1 .. Len(sc) BY <2>2, <1>5, <1>8
    <3> QED BY <3>1, <1>5, <1>8
  <2> QED BY <2>1, <2>2
<1>10. Len(new) <= Len(f) BY <1>1, <1>5, <1>8 DEF sc, f
<1>11. IsSequence(f) /\ Distinct(f) BY <1>4 DEF RecallFits, f
<1>12. RecallFits(recollection') BY <1>5, <1>7, <1>9, <1>10, <1>11 DEF RecallFits
<1> QED BY <1>7, <1>12 DEF RecallIInv

(* The ranking lists the relevant facts, best first, each of them once. *)
LEMMA RankingIs ==
  ASSUME NEW sc, IsSequence(sc), \A i \in 1 .. Len(sc) : sc[i] \in 0 .. 10
  PROVE  LET r == Ranking(sc) IN
         /\ Len(r) \in Nat /\ \A i \in 1 .. Len(r) : r[i] \in 1 .. Len(sc) /\ sc[r[i]] >= 5
         /\ \A i, j \in 1 .. Len(r) : i < j => sc[r[i]] >= sc[r[j]]
         /\ \A i, j \in 1 .. Len(r) : r[i] = r[j] => i = j
         /\ \A x \in 1 .. Len(sc) : sc[x] >= 5 => \E i \in 1 .. Len(r) : r[i] = x
<1> DEFINE S == Relevant(sc)
           R == Better(sc)
           r == InOrder(S, R)
           n == Len(sc)
<1>1. n \in Nat /\ DOMAIN sc = 1 .. n BY DEF IsSequence
<1>2. \A x : x \in S <=> x \in 1 .. n /\ sc[x] >= 5 BY <1>1 DEF Relevant
<1>3. IsFiniteSet(S)
  <2>1. S \subseteq 1 .. n BY <1>2
  <2> HIDE DEF n, S
  <2> QED BY <1>1, <2>1, FirstNumbers, FS_Subset
<1>4. \A x, y : <<x, y>> \in R <=> x \in S /\ y \in S /\ (sc[x] > sc[y] \/ (sc[x] = sc[y] /\ x < y))
  <2>1. R = {pair \in S \X S : \/ sc[pair[1]] > sc[pair[2]]
                              \/ (sc[pair[1]] = sc[pair[2]] /\ pair[1] < pair[2])}
    BY DEF Better
  <2> HIDE DEF S, R
  <2> QED BY <2>1
<1>5. \A x \in S : x \in Int /\ sc[x] \in Int BY <1>1, <1>2
<1> HIDE DEF S, R, n
<1>6. IsOrder(R, S) BY <1>4, <1>5 DEF IsOrder
<1>7. /\ Cardinality(S) \in Nat /\ Len(r) = Cardinality(S) /\ r \in [1 .. Len(r) -> S]
      /\ \A i, j \in 1 .. Len(r) : i < j => <<r[i], r[j]>> \in R
      /\ \A i, j \in 1 .. Len(r) : r[i] = r[j] => i = j
      /\ \A x \in S : \E i \in 1 .. Len(r) : r[i] = x
  BY <1>3, <1>6, SortedSequence
<1>8. r = Ranking(sc) BY DEF Ranking, r, S, R
<1> HIDE DEF r
<1> DEFINE k == Len(r)
<1>9. k \in Nat /\ \A i \in 1 .. k : r[i] \in S BY <1>7
<1>10. \A i, j \in 1 .. k : i < j => sc[r[i]] >= sc[r[j]]
  <2> SUFFICES ASSUME NEW i \in 1 .. k, NEW j \in 1 .. k, i < j PROVE sc[r[i]] >= sc[r[j]]
    OBVIOUS
  <2>1. <<r[i], r[j]>> \in R BY <1>7
  <2>2. sc[r[i]] \in Int /\ sc[r[j]] \in Int BY <1>5, <1>9
  <2> QED BY <2>1, <2>2, <1>4
<1>11. \A i \in 1 .. k : r[i] \in 1 .. n /\ sc[r[i]] >= 5 BY <1>2, <1>9
<1>12. \A x \in 1 .. n : sc[x] >= 5 => \E i \in 1 .. k : r[i] = x BY <1>2, <1>7
<1> QED BY <1>7, <1>8, <1>9, <1>10, <1>11, <1>12 DEF n

(* A recollection returns the best of its facts. *)
LEMMA RecallKeeps ==
  ASSUME ConversationAssumption, RecallIInv, RecallFacts
  PROVE  RecallIInv'
<1> DEFINE f == recollection.fetched
           sc == recollection.scores
           r == Ranking(sc)
           k == Min({TopK, Len(r)})
           got == [i \in 1 .. k |-> f[r[i]]]
           n == Len(f)
<1>1. recollection.at = "scoring" /\ Len(sc) = Len(f) BY DEF RecallFacts
<1>2. recollection' = [at |-> "done", fetched |-> f, scores |-> sc, recalled |-> got]
  BY DEF RecallFacts
<1>3. RecallFits(recollection) BY <1>1 DEF RecallIInv
<1>4. /\ n \in Nat /\ DOMAIN f = 1 .. n /\ (\A i, j \in 1 .. n : f[i] = f[j] => i = j)
      /\ DOMAIN sc = 1 .. n /\ \A i \in 1 .. n : sc[i] \in 0 .. 10
  BY <1>1, <1>3 DEF RecallFits, Distinct, IsSequence
<1>5. /\ Len(r) \in Nat /\ \A i \in 1 .. Len(r) : r[i] \in 1 .. n /\ sc[r[i]] >= 5
      /\ \A i, j \in 1 .. Len(r) : i < j => sc[r[i]] >= sc[r[j]]
      /\ \A i, j \in 1 .. Len(r) : r[i] = r[j] => i = j
      /\ \A x \in 1 .. n : sc[x] >= 5 => \E i \in 1 .. Len(r) : r[i] = x
  <2>1. IsSequence(sc) /\ \A i \in 1 .. Len(sc) : sc[i] \in 0 .. 10 BY <1>3 DEF RecallFits
  <2> HIDE DEF sc
  <2> QED BY <1>1, <2>1, RankingIs
<1>6. k \in Nat /\ k <= TopK /\ k <= Len(r) /\ (k = TopK \/ k = Len(r))
  <2>1. {TopK, Len(r)} \in SUBSET Nat BY <1>5 DEF ConversationAssumption
  <2> HIDE DEF r
  <2> QED BY <2>1, LeastOf
<1> HIDE DEF r, k
<1>7. DOMAIN got = 1 .. k /\ Len(got) = k /\ \A i \in 1 .. k : got[i] = f[r[i]]
  BY <1>6
<1> HIDE DEF got, f, sc, n
<1>8. /\ recollection'.fetched = f /\ recollection'.scores = sc /\ recollection'.recalled = got /\ recollection'.at = "done"
  BY <1>2
<1> DEFINE score(fact) == sc[CHOOSE i \in DOMAIN f : f[i] = fact]
           recalled == {got[i] : i \in DOMAIN got}
<1>9. \A i \in 1 .. n : score(f[i]) = sc[i]
  <2> TAKE i \in 1 .. n
  <2>1. (CHOOSE j \in DOMAIN f : f[j] = f[i]) = i
    <3> DEFINE j == CHOOSE j \in DOMAIN f : f[j] = f[i]
    <3>1. j \in DOMAIN f /\ f[j] = f[i] BY <1>4
    <3> HIDE DEF j
    <3>2. j = i BY <3>1, <1>4
    <3> QED BY <3>2 DEF j
  <2> QED BY <2>1
<1> HIDE DEF score
<1>10. \A i \in 1 .. k : i \in 1 .. Len(r) /\ got[i] = f[r[i]] /\ r[i] \in 1 .. n /\ score(got[i]) = sc[r[i]]
  BY <1>5, <1>6, <1>7, <1>9
<1>11. Cardinality(recalled) = Len(got) /\ Len(got) <= TopK
  <2>1. \A i, j \in 1 .. k : got[i] = got[j] => i = j BY <1>4, <1>5, <1>10
  <2>2. Cardinality(recalled) = k BY <1>6, <1>7, <2>1, ValuesOfInjective
  <2> QED BY <1>6, <1>7, <2>2
<1>12. \A i, j \in DOMAIN got : i < j => score(got[i]) >= score(got[j])
  BY <1>5, <1>7, <1>10
<1>13. ASSUME NEW fact \in {f[i] : i \in DOMAIN f} \ recalled
       PROVE  \/ score(fact) < 5
              \/ Len(got) = TopK /\ \A other \in recalled : score(fact) <= score(other)
  <2>1. PICK x \in 1 .. n : f[x] = fact BY <1>4, <1>13
  <2>2. score(fact) = sc[x] /\ sc[x] \in 0 .. 10 BY <2>1, <1>9, <1>4
  <2>3. CASE sc[x] < 5 BY <2>2, <2>3
  <2>4. CASE sc[x] >= 5
    <3>1. PICK i \in 1 .. Len(r) : r[i] = x BY <2>1, <2>4, <1>5
    <3>2. i > k
      <4>1. SUFFICES ASSUME i \in 1 .. k PROVE FALSE BY <1>6, <1>5
      <4>2. got[i] = fact BY <4>1, <1>10, <3>1, <2>1
      <4> QED BY <4>1, <4>2, <1>7, <1>13
    <3>3. k = TopK BY <3>2, <1>5, <1>6
    <3>4. ASSUME NEW other \in recalled PROVE score(fact) <= score(other)
      <4>1. PICK j \in 1 .. k : got[j] = other BY <3>4, <1>7
      <4>2. j \in 1 .. Len(r) /\ score(other) = sc[r[j]] /\ j < i BY <4>1, <1>10, <1>6, <3>2
      <4>3. sc[r[j]] >= sc[r[i]] BY <4>2, <1>5
      <4>4. sc[r[j]] \in 0 .. 10 BY <4>2, <1>5, <1>4
      <4> QED BY <4>2, <4>3, <4>4, <3>1, <2>2
    <3> QED BY <3>3, <3>4, <1>7
  <2> QED BY <2>2, <2>3, <2>4
<1>14. RankedAs(f, sc, got)
  <2>1. \A fact : ScoreOf(f, sc, fact) = score(fact) BY DEF ScoreOf, score
  <2>2. ValuesOf(got) = recalled /\ ValuesOf(f) = {f[i] : i \in DOMAIN f} BY DEF ValuesOf
  <2> HIDE DEF recalled
  <2> QED BY <2>1, <2>2, <1>11, <1>12, <1>13 DEF RankedAs
<1> QED BY <1>8, <1>14 DEF RecallIInv

(* Every step of a recollection preserves its invariant. *)
LEMMA RecallNext ==
  ASSUME ConversationAssumption, FactsIInv, RecallIInv, [ConversationsNext]_conversationVars
  PROVE  RecallIInv'
<1>1. ASSUME UNCHANGED recollection PROVE RecallIInv'
  BY <1>1 DEF RecallIInv
<1>2. CASE UNCHANGED conversationVars BY <1>1, <1>2 DEF conversationVars
<1>3. CASE ExtractFacts \/ StoreFact \/ EndExtraction \/ DeleteFact
  BY <1>1, <1>3 DEF ExtractFacts, StoreFact, EndExtraction, DeleteFact
<1>4. ASSUME NEW s \in Talks,
             \/ AddMessage(s) \/ ReadNumber(s) \/ FlushMessage(s) \/ CommitMessage(s)
             \/ UpdateConversation(s) \/ FlushPatch(s) \/ CommitPatch(s)
             \/ DeleteConversation(s) \/ FlushDeletion(s) \/ CommitDeletion(s)
             \/ MissRow(s) \/ RollbackTalk(s)
      PROVE  RecallIInv'
  <2>1. UNCHANGED factVars
    BY <1>4, Zenon DEF AddMessage, ReadNumber, FlushMessage, CommitMessage, UpdateConversation, FlushPatch, CommitPatch,
                DeleteConversation, FlushDeletion, CommitDeletion, MissRow, RollbackTalk, BeginTalk, LockRow, EndTalk
  <2> QED BY <1>1, <2>1 DEF factVars
<1> QED BY <1>2, <1>3, <1>4, FetchKeeps, ScoreKeeps, RecallKeeps DEF ConversationsNext

ConversationIInv == ThreadIInv /\ FactsIInv /\ RecallIInv

(* The invariants hold at first. *)
LEMMA ConversationsInitIInv == ConversationsInit => ConversationIInv
<1>1. ConversationsInit => RecallIInv
  <2> SUFFICES ASSUME ConversationsInit PROVE RecallIInv OBVIOUS
  <2>1. recollection.at = "idle" BY DEF ConversationsInit, NotRecalling
  <2> QED BY <2>1 DEF RecallIInv
<1> QED BY <1>1, ThreadInit, FactsInit DEF ConversationIInv

(* Every step of conversations, extractions and recollections preserves the*)
(* invariants.                                                             *)
LEMMA ConversationsNextIInv ==
  ASSUME ConversationAssumption, ConversationIInv, [ConversationsNext]_conversationVars
  PROVE  ConversationIInv'
BY ThreadNext, FactsNext, RecallNext DEF ConversationIInv

(* The invariant implies what conversations promise. *)
LEMMA ConversationIInvSound ==
  ASSUME ConversationIInv
  PROVE  ConversationsAreSound
<1>1. RecallIsRanked
  <2>1. SUFFICES ASSUME recollection.at = "done" PROVE RecallIsRanked BY DEF RecallIsRanked
  <2>2. RankedAs(recollection.fetched, recollection.scores, recollection.recalled)
    BY <2>1 DEF ConversationIInv, RecallIInv
  <2> QED BY <2>2, Zenon DEF RankedAs, ScoreOf, ValuesOf, RecallIsRanked
<1> QED BY <1>1, ThreadSound DEF ConversationIInv, FactsIInv, ConversationsAreSound

-----------------------------------------------------------------------------
SpaceRoles == {"owner", "contributor", "viewer"}

SpaceMembersFit(list, owners, sharers) ==
  /\ IsSequence(list)
  /\ \A i \in 1 .. Len(list) :
       /\ list[i].role \in SpaceRoles /\ list[i].user \in SpaceTenant /\ list[i].by \in owners
       /\ list[i].role = "owner" => list[i].user \in owners
       /\ list[i].role \in {"owner", "contributor"} => list[i].user \in sharers
  /\ \A i, j \in 1 .. Len(list) : i # j => list[i].user # list[j].user

SharesFit(list, sharers) ==
  /\ IsSequence(list)
  /\ \A i \in 1 .. Len(list) : list[i].by \in sharers
  /\ \A i, j \in 1 .. Len(list) : i # j => list[i].thread # list[j].thread

CallFits(u, call, owners, sharers) ==
  /\ call.op = "add" => u \in owners /\ call.role \in SpaceRoles
  /\ call.op = "share" => u \in sharers

SpaceIInv ==
  /\ DOMAIN ever = {"owners", "sharers"}
  /\ SpaceMembersFit(space_members, ever.owners, ever.sharers)
  /\ SharesFit(shared_threads, ever.sharers)
  /\ space_call = [u \in SpaceUsers |-> space_call[u]]
  /\ \A u \in SpaceUsers : CallFits(u, space_call[u], ever.owners, ever.sharers)
  /\ orphaned \subseteq SpaceUsers /\ creator \notin orphaned
  /\ creator = NoSpace => space_members = << >> /\ orphaned = {} /\ ever.owners = {}

(* A space without members and threads fits whoever shares it. *)
LEMMA EmptyMembers == \A owners, sharers : SpaceMembersFit(<< >>, owners, sharers) /\ SharesFit(<< >>, sharers)
BY EmptySequence DEF SpaceMembersFit, SharesFit

(* Who has a role in a space. *)
LEMMA MembersAsIs ==
  ASSUME NEW list, IsSequence(list), NEW roles
  PROVE  \A u : u \in MembersAs(list, roles) <=> \E i \in 1 .. Len(list) : list[i].user = u /\ list[i].role \in roles
<1>1. DOMAIN list = 1 .. Len(list) BY DEF IsSequence
<1> QED BY <1>1 DEF MembersAs

(* There is no space at first. *)
LEMMA SpacesInitIInv == SpacesInit => SpaceIInv
<1> SUFFICES ASSUME SpacesInit PROVE SpaceIInv
  OBVIOUS
<1>1. /\ space_members = << >> /\ shared_threads = << >> /\ orphaned = {}
      /\ space_call = [u \in SpaceUsers |-> space_call[u]] /\ \A u \in SpaceUsers : space_call[u].op = "none"
      /\ DOMAIN ever = {"owners", "sharers"} /\ ever.owners = {}
  BY DEF SpacesInit, NoCall
<1> QED BY <1>1, EmptyMembers DEF SpaceIInv, CallFits

(* What was once granted is not forgotten. *)
LEMMA RememberKeeps ==
  ASSUME SpaceIInv, Remember
  PROVE  /\ DOMAIN ever' = {"owners", "sharers"}
         /\ ever.owners \subseteq ever'.owners /\ ever.sharers \subseteq ever'.sharers
         /\ MembersAs(space_members', {"owner"}) \subseteq ever'.owners
         /\ MembersAs(space_members', {"owner", "contributor"}) \subseteq ever'.sharers
<1> DEFINE o == MembersAs(space_members', {"owner"})
           c == MembersAs(space_members', {"owner", "contributor"})
<1>1. ever' = [owners |-> ever.owners \cup o, sharers |-> ever.sharers \cup c]
  BY DEF Remember
<1> HIDE DEF o, c
<1>2. DOMAIN ever' = {"owners", "sharers"} /\ ever'.owners = ever.owners \cup o /\ ever'.sharers = ever.sharers \cup c
  BY <1>1
<1> QED BY <1>2 DEF o, c

(* Who joins a space is there, and the others stay. *)
LEMMA AppendMember ==
  ASSUME NEW owners, NEW sharers, NEW list, SpaceMembersFit(list, owners, sharers), NEW member,
         member.role \in SpaceRoles, member.user \in SpaceTenant, member.by \in owners,
         member.role = "owner" => member.user \in owners,
         member.role \in {"owner", "contributor"} => member.user \in sharers,
         \A i \in 1 .. Len(list) : list[i].user # member.user
  PROVE  SpaceMembersFit(Append(list, member), owners, sharers)
<1> DEFINE n == Len(list)
           new == Append(list, member)
<1>1. IsSequence(list) /\ n \in Nat BY DEF SpaceMembersFit, IsSequence
<1>2. IsSequence(new) /\ Len(new) = n + 1 /\ new[n + 1] = member /\ \A i \in 1 .. n : new[i] = list[i]
  BY <1>1, AppendToSequence
<1> HIDE DEF n, new
<1>3. ASSUME NEW i \in 1 .. n + 1
      PROVE  /\ new[i].role \in SpaceRoles /\ new[i].user \in SpaceTenant /\ new[i].by \in owners
             /\ new[i].role = "owner" => new[i].user \in owners
             /\ new[i].role \in {"owner", "contributor"} => new[i].user \in sharers
  <2>1. CASE i = n + 1 BY <2>1, <1>2
  <2>2. CASE i # n + 1
    <3>1. i \in 1 .. n BY <2>2, <1>1
    <3>2. new[i] = list[i] BY <3>1, <1>2
    <3> QED BY <3>1, <3>2 DEF SpaceMembersFit, n
  <2> QED BY <2>1, <2>2
<1>4. ASSUME NEW i \in 1 .. n + 1, NEW j \in 1 .. n + 1, i # j PROVE new[i].user # new[j].user
  <2>1. \A k \in 1 .. n + 1 : k = n + 1 \/ k \in 1 .. n BY <1>1
  <2>2. \A k \in 1 .. n : list[k].user # member.user BY DEF n
  <2>3. \A k, l \in 1 .. n : k # l => list[k].user # list[l].user BY DEF SpaceMembersFit, n
  <2>4. CASE i = n + 1 BY <2>1, <2>2, <2>4, <1>2, <1>4
  <2>5. CASE j = n + 1 BY <2>1, <2>2, <2>5, <1>2, <1>4
  <2>6. CASE i # n + 1 /\ j # n + 1 BY <2>1, <2>3, <2>6, <1>2, <1>4
  <2> QED BY <2>4, <2>5, <2>6
<1> QED BY <1>2, <1>3, <1>4 DEF SpaceMembersFit, new

UsersDiffer(list) == \A i, j \in 1 .. Len(list) : i # j => list[i].user # list[j].user

(* Who leaves a space is gone, and the others stay. *)
LEMMA WithoutMemberIs ==
  ASSUME NEW list, IsSequence(list), NEW u
  PROVE  LET rest == WithoutMember(list, u) IN
         /\ IsSequence(rest)
         /\ \A k \in 1 .. Len(rest) : \E i \in 1 .. Len(list) : rest[k] = list[i] /\ list[i].user # u
         /\ UsersDiffer(list) => UsersDiffer(rest)
         /\ \A i \in 1 .. Len(list) : list[i].user # u => \E k \in 1 .. Len(rest) : rest[k] = list[i]
<1> DEFINE S == {i \in DOMAIN list : list[i].user # u}
           R == {pair \in S \X S : pair[1] < pair[2]}
           p == InOrder(S, R)
           n == Len(list)
           rest == [k \in 1 .. Cardinality(S) |-> list[p[k]]]
<1>1. n \in Nat /\ DOMAIN list = 1 .. n BY DEF IsSequence
<1>2. \A x : x \in S <=> x \in 1 .. n /\ list[x].user # u BY <1>1
<1>3. IsFiniteSet(S)
  <2>1. S \subseteq 1 .. n BY <1>2
  <2> HIDE DEF n, S
  <2> QED BY <1>1, <2>1, FirstNumbers, FS_Subset
<1>4. IsOrder(R, S)
  <2>1. \A x, y : <<x, y>> \in R <=> x \in S /\ y \in S /\ x < y
    <3> HIDE DEF S
    <3> QED OBVIOUS
  <2>2. \A x \in S : x \in Int BY <1>1, <1>2
  <2> HIDE DEF S, R
  <2> QED BY <2>1, <2>2 DEF IsOrder
<1>5. WithoutMember(list, u) = rest BY DEF WithoutMember
<1> HIDE DEF S, R, n
<1>6. /\ Cardinality(S) \in Nat /\ Len(p) = Cardinality(S)
      /\ p \in [1 .. Len(p) -> S]
      /\ \A k, l \in 1 .. Len(p) : p[k] = p[l] => k = l
      /\ \A x \in S : \E k \in 1 .. Len(p) : p[k] = x
  BY <1>3, <1>4, SortedSequence
<1> HIDE DEF p
<1> DEFINE m == Cardinality(S)
<1>7. DOMAIN rest = 1 .. m /\ Len(rest) = m /\ m \in Nat /\ \A k \in 1 .. m : rest[k] = list[p[k]] /\ p[k] \in S
  BY <1>6
<1>8. IsSequence(rest)
  <2>1. rest = [k \in 1 .. m |-> rest[k]] OBVIOUS
  <2> HIDE DEF rest, m
  <2> QED BY <1>7, <2>1 DEF IsSequence
<1> HIDE DEF rest
<1>9. \A k \in 1 .. m : p[k] \in 1 .. n /\ list[p[k]].user # u BY <1>2, <1>7
<1>10. \A k, l \in 1 .. m : k # l => p[k] # p[l] BY <1>6
<1>11. \A i \in 1 .. n : list[i].user # u => \E k \in 1 .. m : rest[k] = list[i]
  <2> TAKE i \in 1 .. n
  <2> HAVE list[i].user # u
  <2>1. i \in S BY <1>2
  <2>2. PICK k \in 1 .. m : p[k] = i BY <2>1, <1>6
  <2> QED BY <2>2, <1>7
<1>12. (\A i, j \in 1 .. n : i # j => list[i].user # list[j].user)
              => \A k, l \in 1 .. m : k # l => rest[k].user # rest[l].user
  BY <1>7, <1>9, <1>10
<1>13. \A k \in 1 .. m : \E i \in 1 .. n : rest[k] = list[i] /\ list[i].user # u
  BY <1>7, <1>9
<1>14. UsersDiffer(list) => UsersDiffer(rest) BY <1>7, <1>12 DEF UsersDiffer, n
<1> QED BY <1>5, <1>7, <1>8, <1>11, <1>13, <1>14 DEF n

(* A list of members fits without one of them. *)
LEMMA WithoutKeeps ==
  ASSUME NEW owners, NEW sharers, NEW list, SpaceMembersFit(list, owners, sharers), NEW u
  PROVE  SpaceMembersFit(WithoutMember(list, u), owners, sharers)
<1> DEFINE rest == WithoutMember(list, u)
<1>1. IsSequence(list) BY DEF SpaceMembersFit
<1>3. \A k \in 1 .. Len(rest) : \E i \in 1 .. Len(list) : rest[k] = list[i] /\ list[i].user # u
  BY <1>1, WithoutMemberIs
<1>2. /\ IsSequence(rest)
      /\ \A k \in 1 .. Len(rest) : \E i \in 1 .. Len(list) : rest[k] = list[i]
      /\ UsersDiffer(list) => UsersDiffer(rest)
  <2>1. /\ IsSequence(rest)
        /\ UsersDiffer(list) => UsersDiffer(rest)
    BY <1>1, WithoutMemberIs
  <2> HIDE DEF rest
  <2> QED BY <1>3, <2>1
<1> HIDE DEF rest
<1> QED BY <1>2 DEF SpaceMembersFit, UsersDiffer, rest

(* An owner who may be removed leaves another behind. *)
LEMMA OneStays ==
  ASSUME SpaceIInv, HasMember(creator), MayBeRemoved(creator)
  PROVE  MembersAs(WithoutMember(space_members, creator), {"owner"}) # {}
<1> DEFINE list == space_members
           X == {i \in DOMAIN list : list[i].role = "owner"}
           n == Len(list)
           rest == WithoutMember(list, creator)
<1>1. Cardinality(X) > 1 BY DEF MayBeRemoved
<1>2. IsSequence(list) /\ \A i, j \in 1 .. n : i # j => list[i].user # list[j].user
  BY DEF SpaceIInv, SpaceMembersFit
<1>3. n \in Nat /\ DOMAIN list = 1 .. n BY <1>2 DEF IsSequence
<1>4. \A i : i \in X <=> i \in 1 .. n /\ list[i].role = "owner" BY <1>3
<1>5. IsFiniteSet(X)
  <2>1. X \subseteq 1 .. n BY <1>4
  <2> HIDE DEF n, X
  <2> QED BY <1>3, <2>1, FirstNumbers, FS_Subset
<1> HIDE DEF X, n
<1>6. \E i, j \in X : i # j
  <2> SUFFICES ASSUME \A i, j \in X : i = j PROVE FALSE
    OBVIOUS
  <2>1. CASE X = {}
    <3>1. Cardinality({}) = 0 BY FS_EmptySet
    <3> QED BY <1>1, <2>1, <3>1
  <2>2. CASE X # {}
    <3>1. PICK i : X = {i} BY <2>2
    <3>2. Cardinality(X) = 1 BY <1>5, <3>1, FS_Singleton
    <3> QED BY <1>1, <3>2
  <2> QED BY <2>1, <2>2
<1>7. PICK i \in 1 .. n : list[i].role = "owner" /\ list[i].user # creator
  BY <1>2, <1>4, <1>6
<1>8. /\ IsSequence(rest) /\ \A j \in 1 .. n : list[j].user # creator => \E k \in 1 .. Len(rest) : rest[k] = list[j]
  BY <1>2, WithoutMemberIs DEF n
<1>9. PICK k \in 1 .. Len(rest) : rest[k] = list[i] BY <1>7, <1>8
<1> HIDE DEF rest, list
<1>10. list[i].user \in MembersAs(rest, {"owner"}) BY <1>7, <1>8, <1>9, MembersAsIs
<1> QED BY <1>10 DEF rest, list

(* A call that only waits for the database. *)
LEMMA CallingKeeps ==
  ASSUME SpaceIInv, NEW u \in SpaceUsers, NEW call, UNCHANGED <<creator, space_members, shared_threads, ever, orphaned>>,
         space_call' = [space_call EXCEPT ![u] = call], CallFits(u, call, ever.owners, ever.sharers)
  PROVE  SpaceIInv'
<1>1. (space_call = [t \in SpaceUsers |-> space_call[t]])' BY DEF SpaceIInv
<1>2. \A t \in SpaceUsers : space_call'[t] = IF t = u THEN call ELSE space_call[t] BY DEF SpaceIInv
<1> QED BY <1>1, <1>2 DEF SpaceIInv

(* A call that fits goes on fitting when more people have owned or shared. *)
LEMMA SpaceCallFitsLater ==
  ASSUME NEW owners, NEW sharers, NEW o, NEW s, owners \subseteq o, sharers \subseteq s
  PROVE  /\ \A list : SpaceMembersFit(list, owners, sharers) => SpaceMembersFit(list, o, s)
         /\ \A list : SharesFit(list, sharers) => SharesFit(list, s)
         /\ \A u, call : CallFits(u, call, owners, sharers) => CallFits(u, call, o, s)
BY DEF SpaceMembersFit, SharesFit, CallFits

(* No call fits whoever shares. *)
LEMMA NoCallFits == \A u, owners, sharers : CallFits(u, NoCall, owners, sharers)
BY DEF CallFits, NoCall

(* A space begins with its creator as the owner. *)
LEMMA CreateSpaceKeeps ==
  ASSUME SpaceAssumption, SpaceIInv, NEW u \in SpaceUsers, CreateSpace(u)
  PROVE  SpaceIInv'
<1> DEFINE member == [user |-> u, role |-> "owner", by |-> u]
<1>1. /\ creator = NoSpace /\ u \in SpaceTenant /\ creator' = u /\ space_members' = <<member>> /\ Remember
      /\ UNCHANGED <<shared_threads, space_call, orphaned>>
  BY DEF CreateSpace
<1>2. orphaned = {} BY <1>1 DEF SpaceIInv
<1>3. /\ DOMAIN ever' = {"owners", "sharers"}
      /\ ever.owners \subseteq ever'.owners /\ ever.sharers \subseteq ever'.sharers
      /\ MembersAs(space_members', {"owner"}) \subseteq ever'.owners
      /\ MembersAs(space_members', {"owner", "contributor"}) \subseteq ever'.sharers
  BY <1>1, RememberKeeps
<1>4. member.user = u /\ member.role = "owner" /\ member.by = u OBVIOUS
<1> HIDE DEF member
<1>5. IsSequence(<<member>>) /\ Len(<<member>>) = 1 /\ <<member>>[1] = member
  <2>1. Len(<<member>>) = 1 /\ <<member>>[1] = member /\ <<member>> = [i \in 1 .. 1 |-> <<member>>[i]] OBVIOUS
  <2> QED BY <2>1 DEF IsSequence
<1>6. u \in ever'.owners /\ u \in ever'.sharers
  BY <1>1, <1>3, <1>4, <1>5, MembersAsIs
<1>7. SpaceMembersFit(space_members', ever'.owners, ever'.sharers)
  <2>1. \A i \in 1 .. 1 : i = 1 OBVIOUS
  <2> QED BY <1>1, <1>4, <1>5, <1>6, <2>1 DEF SpaceMembersFit, SpaceRoles
<1>8. SharesFit(shared_threads', ever'.sharers) /\ \A t \in SpaceUsers : CallFits(t, space_call'[t], ever'.owners, ever'.sharers)
  <2>1. SharesFit(shared_threads, ever.sharers) /\ \A t \in SpaceUsers : CallFits(t, space_call[t], ever.owners, ever.sharers)
    BY DEF SpaceIInv
  <2>2. SharesFit(shared_threads, ever'.sharers) BY <2>1, <1>3, SpaceCallFitsLater
  <2>3. \A t \in SpaceUsers : CallFits(t, space_call[t], ever'.owners, ever'.sharers) BY <2>1, <1>3, SpaceCallFitsLater
  <2> QED BY <2>2, <2>3, <1>1
<1>9. creator' # NoSpace BY <1>1 DEF SpaceAssumption
<1> QED BY <1>1, <1>2, <1>3, <1>7, <1>8, <1>9 DEF SpaceIInv

(* A request looks the membership up, and then acts. *)
LEMMA LookedUpKeeps ==
  ASSUME SpaceAssumption, SpaceIInv, NEW u \in SpaceUsers, MemberLookedUp(u)
  PROVE  SpaceIInv'
<1> DEFINE new == space_call[u].user
           member == [user |-> new, role |-> space_call[u].role, by |-> u]
<1>1. /\ space_call[u].op = "add" /\ Remember /\ UNCHANGED <<creator, shared_threads, orphaned>>
      /\ space_call' = [space_call EXCEPT ![u] = NoCall]
      /\ space_members' = IF new \in SpaceTenant /\ ~HasMember(new) THEN Append(space_members, member) ELSE space_members
  BY DEF MemberLookedUp, Return
<1>2. u \in ever.owners /\ space_call[u].role \in SpaceRoles BY <1>1 DEF SpaceIInv, CallFits
<1>3. member.user = new /\ member.role = space_call[u].role /\ member.by = u OBVIOUS
<1> HIDE DEF member, new
<1>4. /\ DOMAIN ever' = {"owners", "sharers"}
      /\ ever.owners \subseteq ever'.owners /\ ever.sharers \subseteq ever'.sharers
      /\ MembersAs(space_members', {"owner"}) \subseteq ever'.owners
      /\ MembersAs(space_members', {"owner", "contributor"}) \subseteq ever'.sharers
  BY <1>1, RememberKeeps
<1>5. SpaceMembersFit(space_members, ever'.owners, ever'.sharers) /\ IsSequence(space_members)
  BY <1>4, SpaceCallFitsLater DEF SpaceIInv, SpaceMembersFit
<1>6. SpaceMembersFit(space_members', ever'.owners, ever'.sharers)
  <2>1. CASE ~(new \in SpaceTenant /\ ~HasMember(new)) BY <1>1, <2>1, <1>5
  <2>2. CASE new \in SpaceTenant /\ ~HasMember(new)
    <3>1. space_members' = Append(space_members, member) BY <1>1, <2>2
    <3>2. /\ IsSequence(space_members') /\ Len(space_members') = Len(space_members) + 1
          /\ space_members'[Len(space_members) + 1] = member
      BY <3>1, <1>5, AppendToSequence
    <3>3. Len(space_members) + 1 \in 1 .. Len(space_members')
      <4>1. Len(space_members) \in Nat BY <1>5 DEF IsSequence
      <4> QED BY <4>1, <3>2
    <3>4. member.role = "owner" => member.user \in MembersAs(space_members', {"owner"})
      BY <3>2, <3>3, MembersAsIs
    <3>5. member.role \in {"owner", "contributor"} => member.user \in MembersAs(space_members', {"owner", "contributor"})
      BY <3>2, <3>3, MembersAsIs
    <3>6. \A i \in 1 .. Len(space_members) : space_members[i].user # member.user
      <4>1. new \notin MembersAs(space_members, {"owner", "contributor", "viewer"}) BY <2>2 DEF HasMember
      <4>2. \A i \in 1 .. Len(space_members) : space_members[i].role \in {"owner", "contributor", "viewer"}
        BY <1>5 DEF SpaceMembersFit, SpaceRoles
      <4> QED BY <4>1, <4>2, <1>3, <1>5, MembersAsIs
    <3>7. member.role \in SpaceRoles /\ member.user \in SpaceTenant /\ member.by \in ever'.owners
      BY <1>2, <1>3, <1>4, <2>2
    <3> QED BY <3>1, <3>4, <3>5, <3>6, <3>7, <1>4, <1>5, AppendMember
  <2> QED BY <2>1, <2>2
<1>7. SharesFit(shared_threads', ever'.sharers) BY <1>1, <1>4, SpaceCallFitsLater DEF SpaceIInv
<1>8. (space_call = [t \in SpaceUsers |-> space_call[t]])' BY <1>1 DEF SpaceIInv
<1>9. ASSUME NEW t \in SpaceUsers PROVE CallFits(t, space_call'[t], ever'.owners, ever'.sharers)
  <2>1. CASE t = u
    <3>1. space_call'[t] = NoCall BY <1>1, <2>1 DEF SpaceIInv
    <3> QED BY <3>1, NoCallFits
  <2>2. CASE t # u
    <3>1. space_call'[t] = space_call[t] BY <1>1, <2>2 DEF SpaceIInv
    <3>2. CallFits(t, space_call[t], ever.owners, ever.sharers) BY DEF SpaceIInv
    <3> QED BY <3>1, <3>2, <1>4, SpaceCallFitsLater
  <2> QED BY <2>1, <2>2
<1>10. creator # NoSpace
  BY <1>2 DEF SpaceIInv
<1> QED BY <1>1, <1>4, <1>6, <1>7, <1>8, <1>9, <1>10 DEF SpaceIInv

(* An owner removes a member. *)
LEMMA RemoveKeeps ==
  ASSUME SpaceAssumption, SpaceIInv, NEW u \in SpaceUsers, NEW old \in SpaceUsers, RemoveMember(u, old)
  PROVE  SpaceIInv'
<1>1. /\ MayBeRemoved(old) /\ HasMember(old) /\ space_members' = WithoutMember(space_members, old)
      /\ orphaned' = (IF MembersAs(space_members', {"owner"}) = {} THEN orphaned \cup {old} ELSE orphaned)
      /\ UNCHANGED <<creator, shared_threads, space_call, ever>> /\ CanManageMembers(u)
  BY DEF RemoveMember
<1>2. SpaceMembersFit(space_members', ever'.owners, ever'.sharers)
  BY <1>1, WithoutKeeps DEF SpaceIInv
<1>3. creator # NoSpace
  <2>1. SUFFICES ASSUME space_members = << >> PROVE FALSE BY DEF SpaceIInv
  <2>2. \A i \in 1 .. Len(<< >>) : FALSE BY EmptySequence
  <2>3. u \in MembersAs(<< >>, {"owner"}) BY <1>1, <2>1 DEF CanManageMembers
  <2> QED BY <2>2, <2>3, EmptySequence, MembersAsIs
<1>4. creator \notin orphaned'
  <2>1. CASE old = creator BY <1>1, <2>1, OneStays DEF SpaceIInv
  <2>2. CASE old # creator BY <1>1, <2>2 DEF SpaceIInv
  <2> QED BY <2>1, <2>2
<1>5. orphaned' \subseteq SpaceUsers BY <1>1 DEF SpaceIInv
<1> QED BY <1>1, <1>2, <1>3, <1>4, <1>5 DEF SpaceIInv

(* A thread is shared by who may share it. *)
LEMMA ThreadLookedUpKeeps ==
  ASSUME SpaceIInv, NEW u \in SpaceUsers, ThreadLookedUp(u)
  PROVE  SpaceIInv'
<1> DEFINE c == space_call[u].thread
           share == [thread |-> c, by |-> u]
           n == Len(shared_threads)
<1>1. /\ space_call[u].op = "share" /\ UNCHANGED <<creator, space_members, ever, orphaned>>
      /\ space_call' = [space_call EXCEPT ![u] = NoCall]
      /\ shared_threads' = IF \A i \in DOMAIN shared_threads : shared_threads[i].thread # c
                           THEN Append(shared_threads, share) ELSE shared_threads
  BY DEF ThreadLookedUp, Return
<1>2. u \in ever.sharers BY <1>1 DEF SpaceIInv, CallFits
<1>3. share.thread = c /\ share.by = u OBVIOUS
<1> HIDE DEF share, c
<1>4. IsSequence(shared_threads) BY DEF SpaceIInv, SharesFit
<1>5. SharesFit(shared_threads', ever.sharers)
  <2>1. CASE ~ \A i \in DOMAIN shared_threads : shared_threads[i].thread # c
    <3>1. shared_threads' = shared_threads BY <1>1, <2>1
    <3> QED BY <3>1 DEF SpaceIInv
  <2>2. CASE \A i \in DOMAIN shared_threads : shared_threads[i].thread # c
    <3> DEFINE new == Append(shared_threads, share)
    <3>1. shared_threads' = new BY <1>1, <2>2
    <3>2. IsSequence(new) /\ Len(new) = n + 1 /\ new[n + 1] = share /\ \A i \in 1 .. n : new[i] = shared_threads[i]
      BY <1>4, AppendToSequence
    <3>3. n \in Nat /\ DOMAIN shared_threads = 1 .. n BY <1>4 DEF IsSequence
    <3>4. /\ \A i \in 1 .. n : shared_threads[i].by \in ever.sharers
          /\ \A i, j \in 1 .. n : i # j => shared_threads[i].thread # shared_threads[j].thread
          /\ \A i \in 1 .. n : shared_threads[i].thread # c
      BY <2>2, <3>3 DEF SpaceIInv, SharesFit
    <3> HIDE DEF new, n
    <3>5. \A k \in 1 .. n + 1 : k = n + 1 \/ k \in 1 .. n BY <3>3
    <3>6. \A i \in 1 .. n + 1 : new[i].by \in ever.sharers BY <3>2, <3>4, <3>5, <1>2, <1>3
    <3>7. \A i, j \in 1 .. n + 1 : i # j => new[i].thread # new[j].thread
      <4> SUFFICES ASSUME NEW i \in 1 .. n + 1, NEW j \in 1 .. n + 1, i # j PROVE new[i].thread # new[j].thread
        OBVIOUS
      <4>1. CASE i = n + 1 BY <3>2, <3>4, <3>5, <4>1, <1>3
      <4>2. CASE j = n + 1 BY <3>2, <3>4, <3>5, <4>2, <1>3
      <4>3. CASE i # n + 1 /\ j # n + 1 BY <3>2, <3>4, <3>5, <4>3
      <4> QED BY <4>1, <4>2, <4>3
    <3> QED BY <3>1, <3>2, <3>6, <3>7 DEF SharesFit
  <2> QED BY <2>1, <2>2
<1>6. (space_call = [t \in SpaceUsers |-> space_call[t]])' BY <1>1 DEF SpaceIInv
<1>7. \A t \in SpaceUsers : space_call'[t] = IF t = u THEN NoCall ELSE space_call[t] BY <1>1 DEF SpaceIInv
<1>8. \A t \in SpaceUsers : CallFits(t, space_call'[t], ever.owners, ever.sharers) BY <1>7, NoCallFits DEF SpaceIInv
<1> QED BY <1>1, <1>5, <1>6, <1>8 DEF SpaceIInv

(* Every step of a space preserves the invariant. *)
LEMMA SpacesNextIInv ==
  ASSUME SpaceAssumption, SpaceIInv, [SpacesNext]_spaceVars
  PROVE  SpaceIInv'
<1>1. CASE UNCHANGED spaceVars BY <1>1 DEF spaceVars, SpaceIInv
<1>2. ASSUME NEW u \in SpaceUsers, NEW other \in SpaceUsers, NEW role \in {"owner", "contributor", "viewer"},
             AddMember(u, other, role)
      PROVE  SpaceIInv'
  <2> DEFINE call == [op |-> "add", user |-> other, role |-> role]
  <2>1. /\ UNCHANGED <<creator, space_members, shared_threads, ever, orphaned>>
        /\ space_call' = [space_call EXCEPT ![u] = call] /\ CanManageMembers(u)
    BY <1>2 DEF AddMember, Calling
  <2>2. call.op = "add" /\ call.role = role OBVIOUS
  <2> HIDE DEF call
  <2>3. u \in ever.owners
    <3>1. IsSequence(space_members) BY DEF SpaceIInv, SpaceMembersFit
    <3> QED BY <2>1, <3>1, MembersAsIs DEF CanManageMembers, SpaceIInv, SpaceMembersFit
  <2>4. CallFits(u, call, ever.owners, ever.sharers) BY <2>2, <2>3 DEF CallFits, SpaceRoles
  <2> QED BY <2>1, <2>4, CallingKeeps
<1>3. ASSUME NEW u \in SpaceUsers, NEW c \in SpaceThreads, ShareConversation(u, c)
      PROVE  SpaceIInv'
  <2> DEFINE call == [op |-> "share", thread |-> c]
  <2>1. /\ UNCHANGED <<creator, space_members, shared_threads, ever, orphaned>>
        /\ space_call' = [space_call EXCEPT ![u] = call] /\ CanShareConversations(u)
    BY <1>3 DEF ShareConversation, Calling
  <2>2. call.op = "share" OBVIOUS
  <2> HIDE DEF call
  <2>3. u \in ever.sharers
    <3>1. IsSequence(space_members) BY DEF SpaceIInv, SpaceMembersFit
    <3>2. PICK i \in 1 .. Len(space_members) : space_members[i].user = u /\ space_members[i].role \in {"owner", "contributor"}
      BY <2>1, <3>1, MembersAsIs DEF CanShareConversations
    <3> QED BY <3>2 DEF SpaceIInv, SpaceMembersFit
  <2>4. CallFits(u, call, ever.owners, ever.sharers) BY <2>2, <2>3 DEF CallFits
  <2> QED BY <2>1, <2>4, CallingKeeps
<1>4. ASSUME NEW u \in SpaceUsers, LookupFails(u) PROVE SpaceIInv'
  <2>1. /\ UNCHANGED <<creator, space_members, shared_threads, ever, orphaned>>
        /\ space_call' = [space_call EXCEPT ![u] = NoCall]
    BY <1>4 DEF LookupFails, Return
  <2> QED BY <2>1, NoCallFits, CallingKeeps
<1> QED BY <1>1, <1>2, <1>3, <1>4, CreateSpaceKeeps, LookedUpKeeps, ThreadLookedUpKeeps, RemoveKeeps DEF SpacesNext

(* The invariant implies what shared spaces promise. *)
LEMMA SpaceIInvSound ==
  ASSUME SpaceIInv
  PROVE  SpacesAreShared
<1>1. DOMAIN space_members = 1 .. Len(space_members) /\ DOMAIN shared_threads = 1 .. Len(shared_threads)
  BY DEF SpaceIInv, SpaceMembersFit, SharesFit, IsSequence
<1>2. NothingIsDoubled BY <1>1 DEF SpaceIInv, SpaceMembersFit, SharesFit, NothingIsDoubled
<1>3. SpacesAreGranted BY <1>1 DEF SpaceIInv, SpaceMembersFit, SharesFit, SpacesAreGranted
<1> QED BY <1>2, <1>3 DEF SpaceIInv, SpacesAreShared, CreatorIsProtected

(* The inductive invariant holds in every reachable state. *)
LEMMA ConversationsInvariance == ConversationsSpec => []ConversationIInv
<1>1. ConversationsInit => ConversationIInv
  BY ConversationsInitIInv, ConversationAssumption
<1>2. ConversationIInv /\ [ConversationsNext]_conversationVars => ConversationIInv'
  BY ConversationsNextIInv, ConversationAssumption
<1>3. QED BY <1>1, <1>2, PTL DEF ConversationsSpec

(* The inductive invariant holds in every reachable state. *)
LEMMA SpacesInvariance == SpacesSpec => []SpaceIInv
<1>1. SpacesInit => SpaceIInv
  BY SpacesInitIInv, SpaceAssumption
<1>2. SpaceIInv /\ [SpacesNext]_spaceVars => SpaceIInv'
  BY SpacesNextIInv, SpaceAssumption
<1>3. QED BY <1>1, <1>2, PTL DEF SpacesSpec

-----------------------------------------------------------------------------
(* Versions of documents.                                                  *)

DigitsOf(n, f) == IF n < 10 THEN <<n>> ELSE Append(f[n \div 10], n % 10)
DigitsFit(f, n) == f \in [0 .. n -> Seq(Int)] /\ \A m \in 0 .. n : f[m] = DigitsOf(m, f)

(* The digits of the numbers up to n can be listed. *)
LEMMA DigitsUpTo ==
  ASSUME NEW n \in Nat
  PROVE  \E f : DigitsFit(f, n)
<1> DEFINE T == {k \in Nat : \E f \in [0 .. k -> Seq(Int)] : DigitsFit(f, k)}
<1>1. 0 \in T
  <2> DEFINE f == [i \in 0 .. 0 |-> <<0>>]
  <2>1. <<0>> \in Seq(Int) OBVIOUS
  <2>2. f \in [0 .. 0 -> Seq(Int)] /\ f[0] = <<0>> BY <2>1
  <2>3. \A m \in 0 .. 0 : m = 0 /\ m < 10 OBVIOUS
  <2> HIDE DEF f
  <2>4. DigitsFit(f, 0) BY <2>2, <2>3 DEF DigitsFit, DigitsOf
  <2> QED BY <2>2, <2>4
<1>2. ASSUME NEW k \in Nat, k \in T PROVE k + 1 \in T
  <2>1. PICK f \in [0 .. k -> Seq(Int)] : DigitsFit(f, k) BY <1>2
  <2> DEFINE d == DigitsOf(k + 1, f)
             g == [i \in 0 .. k + 1 |-> IF i = k + 1 THEN d ELSE f[i]]
  <2>2. d \in Seq(Int)
    <3>1. CASE k + 1 < 10
      <4>1. <<k + 1>> \in Seq(Int) OBVIOUS
      <4> QED BY <3>1, <4>1 DEF DigitsOf
    <3>2. CASE ~(k + 1 < 10)
      <4>1. (k + 1) \div 10 \in 0 .. k /\ (k + 1) % 10 \in Int BY <3>2
      <4>2. f[(k + 1) \div 10] \in Seq(Int) BY <4>1
      <4>3. \A s \in Seq(Int), x \in Int : Append(s, x) \in Seq(Int) OBVIOUS
      <4>4. Append(f[(k + 1) \div 10], (k + 1) % 10) \in Seq(Int) BY <4>1, <4>2, <4>3
      <4> QED BY <3>2, <4>4 DEF DigitsOf
    <3> QED BY <3>1, <3>2
  <2> HIDE DEF d
  <2>3. g \in [0 .. k + 1 -> Seq(Int)] BY <2>2
  <2>4. ASSUME NEW m \in 0 .. k + 1 PROVE g[m] = DigitsOf(m, g)
    <3>1. m >= 10 => m \div 10 \in 0 .. k /\ m \div 10 # k + 1 OBVIOUS
    <3>2. m >= 10 => g[m \div 10] = f[m \div 10] BY <3>1
    <3>3. DigitsOf(m, g) = DigitsOf(m, f) BY <3>2 DEF DigitsOf
    <3>4. CASE m = k + 1 BY <3>3, <3>4 DEF d
    <3>5. CASE m # k + 1
      <4>1. m \in 0 .. k BY <3>5
      <4> QED BY <4>1, <3>3, <3>5, <2>1 DEF DigitsFit
    <3> QED BY <3>4, <3>5
  <2> HIDE DEF g
  <2>5. DigitsFit(g, k + 1) BY <2>3, <2>4 DEF DigitsFit
  <2> QED BY <2>3, <2>5
<1>3. Nat \subseteq T
  <2> HIDE DEF T
  <2> QED BY <1>1, <1>2, SetInduction
<1> QED BY <1>3

(* Two such lists agree. *)
LEMMA DigitsAgree ==
  ASSUME NEW m \in Nat, NEW n \in Nat, NEW f, DigitsFit(f, m), NEW g, DigitsFit(g, n)
  PROVE  \A i \in Nat : i <= m /\ i <= n => f[i] = g[i]
<1> DEFINE T == {k \in Nat : \A i \in 0 .. k : i <= m /\ i <= n => f[i] = g[i]}
<1>1. 0 \in T
  <2>1. f[0] = <<0>> /\ g[0] = <<0>>
    <3>1. 0 \in 0 .. m /\ 0 \in 0 .. n /\ 0 < 10 OBVIOUS
    <3> QED BY <3>1 DEF DigitsFit, DigitsOf
  <2>2. \A i \in 0 .. 0 : i = 0 OBVIOUS
  <2> QED BY <2>1, <2>2
<1>2. ASSUME NEW k \in Nat, k \in T PROVE k + 1 \in T
  <2> SUFFICES ASSUME NEW i \in 0 .. k + 1, i <= m, i <= n PROVE f[i] = g[i]
    OBVIOUS
  <2>1. CASE i \in 0 .. k BY <1>2, <2>1
  <2>2. CASE i = k + 1
    <3>1. i \in 0 .. m /\ i \in 0 .. n BY <2>2
    <3>2. i >= 10 => i \div 10 \in 0 .. k /\ i \div 10 <= m /\ i \div 10 <= n BY <2>2
    <3>3. i >= 10 => f[i \div 10] = g[i \div 10] BY <3>2, <1>2
    <3>4. DigitsOf(i, f) = DigitsOf(i, g) BY <3>3 DEF DigitsOf
    <3> QED BY <3>1, <3>4 DEF DigitsFit
  <2> QED BY <2>1, <2>2
<1>3. Nat \subseteq T
  <2> HIDE DEF T
  <2> QED BY <1>1, <1>2, SetInduction
<1>4. \A i \in Nat : i \in T /\ i \in 0 .. i BY <1>3
<1> QED BY <1>4

(* Every number has digits, and a small one is its digit. *)
LEMMA DigitsIs ==
  /\ Digits \in [Nat -> Seq(Int)]
  /\ \A n \in 0 .. 9 : Digits[n] = <<n>>
<1> DEFINE part == [n \in Nat |-> CHOOSE f : DigitsFit(f, n)]
           F == [n \in Nat |-> part[n][n]]
           Body(G) == [n \in Nat |-> IF n < 10 THEN <<n>> ELSE Append(G[n \div 10], n % 10)]
<1>1. \A n \in Nat : DigitsFit(part[n], n) BY DigitsUpTo
<1>2. F = Body(F)
  <2>1. ASSUME NEW n \in Nat PROVE F[n] = IF n < 10 THEN <<n>> ELSE Append(F[n \div 10], n % 10)
    <3>1. DigitsFit(part[n], n) BY <1>1
    <3>2. F[n] = DigitsOf(n, part[n])
      <4>1. n \in 0 .. n /\ F[n] = part[n][n] OBVIOUS
      <4> HIDE DEF F, part
      <4> QED BY <3>1, <4>1 DEF DigitsFit
    <3>3. ASSUME n >= 10 PROVE F[n \div 10] = part[n][n \div 10]
      <4>1. n \div 10 \in Nat /\ n \div 10 <= n BY <3>3
      <4>2. DigitsFit(part[n \div 10], n \div 10) BY <1>1, <4>1
      <4>3. F[n \div 10] = part[n \div 10][n \div 10] BY <4>1
      <4> HIDE DEF F, part
      <4> QED BY <3>1, <4>1, <4>2, <4>3, DigitsAgree
    <3> HIDE DEF F, part
    <3> QED BY <3>2, <3>3 DEF DigitsOf
  <2>2. F = [n \in Nat |-> F[n]] OBVIOUS
  <2> HIDE DEF F
  <2> QED BY <2>1, <2>2
<1> HIDE DEF F, part
<1>3. Digits = Body(Digits)
  <2>1. Digits = CHOOSE G : G = Body(G) BY DEF Digits
  <2> HIDE DEF Body
  <2>2. \E G : G = Body(G) BY <1>2
  <2> QED BY <2>1, <2>2
<1>4. \A n \in 0 .. 9 : Digits[n] = <<n>>
  <2> TAKE n \in 0 .. 9
  <2>1. n \in Nat /\ n < 10 OBVIOUS
  <2> QED BY <1>3, <2>1
<1>5. \A n \in Nat : Digits[n] = DigitsOf(n, Digits)
  <2> TAKE n \in Nat
  <2>1. Body(Digits)[n] = DigitsOf(n, Digits) BY DEF DigitsOf
  <2> HIDE DEF Body
  <2> QED BY <1>3, <2>1
<1>6. \A n \in Nat : Digits[n] \in Seq(Int)
  <2> DEFINE T == {k \in Nat : \A i \in 0 .. k : Digits[i] \in Seq(Int)}
  <2>1. 0 \in T
    <3>1. \A i \in 0 .. 0 : i \in 0 .. 9 /\ <<i>> \in Seq(Int) OBVIOUS
    <3> QED BY <3>1, <1>4
  <2>2. ASSUME NEW k \in Nat, k \in T PROVE k + 1 \in T
    <3> SUFFICES ASSUME NEW i \in 0 .. k + 1 PROVE Digits[i] \in Seq(Int)
      OBVIOUS
    <3>1. CASE i \in 0 .. k BY <2>2, <3>1
    <3>2. CASE i = k + 1 /\ i < 10
      <4>1. i \in 0 .. 9 /\ <<i>> \in Seq(Int) BY <3>2
      <4> QED BY <4>1, <1>4
    <3>3. CASE i = k + 1 /\ ~(i < 10)
      <4>1. i \div 10 \in 0 .. k /\ i % 10 \in Int /\ i \in Nat BY <3>3
      <4>2. Digits[i \div 10] \in Seq(Int) BY <4>1, <2>2
      <4>3. \A s \in Seq(Int), x \in Int : Append(s, x) \in Seq(Int) OBVIOUS
      <4>4. Append(Digits[i \div 10], i % 10) \in Seq(Int) BY <4>1, <4>2, <4>3
      <4> QED BY <4>1, <4>4, <3>3, <1>5 DEF DigitsOf
    <3> QED BY <3>1, <3>2, <3>3
  <2>3. Nat \subseteq T
    <3> HIDE DEF T
    <3> QED BY <2>1, <2>2, SetInduction
  <2>4. \A n \in Nat : n \in T /\ n \in 0 .. n BY <2>3
  <2> QED BY <2>4
<1>7. Digits = [n \in Nat |-> Digits[n]]
  <2>1. Body(Digits) = [n \in Nat |-> Body(Digits)[n]] OBVIOUS
  <2> HIDE DEF Body
  <2> QED BY <1>3, <2>1
<1> HIDE DEF Body
<1> QED BY <1>4, <1>6, <1>7

-----------------------------------------------------------------------------
Versions == (Nat \ {0}) \X (0 .. 9)

(* The text of a version is a sequence of characters. *)
LEMMA TextsAreSequences == \A v \in Versions : Text(v) \in Seq(Int)
<1> TAKE v \in Versions
<1>1. Digits[v[1]] \in Seq(Int) /\ Digits[v[2]] \in Seq(Int)
  <2>1. v[1] \in Nat /\ v[2] \in Nat BY DEF Versions
  <2> QED BY <2>1, DigitsIs
<1>2. \A s, t \in Seq(Int) : s \o <<-1>> \o t \in Seq(Int)
  <2>1. <<-1>> \in Seq(Int) OBVIOUS
  <2>2. \A s, t \in Seq(Int) : s \o t \in Seq(Int) OBVIOUS
  <2> QED BY <2>1, <2>2
<1> QED BY <1>1, <1>2 DEF Text

(* The text of a version of one digit. *)
LEMMA ShortText ==
  ASSUME NEW v \in Versions, v[1] < 10
  PROVE  Text(v) = <<v[1], -1, v[2]>>
<1>1. Digits[v[1]] = <<v[1]>> /\ Digits[v[2]] = <<v[2]>>
  <2>1. v[1] \in 0 .. 9 /\ v[2] \in 0 .. 9 BY DEF Versions
  <2> QED BY <2>1, DigitsIs
<1>2. ASSUME NEW a \in Int, NEW b \in Int PROVE <<a>> \o <<-1>> \o <<b>> = <<a, -1, b>>
  <2>1. <<a>> \o <<-1>> = <<a, -1>>
    <3> DEFINE s == <<a>>  t == <<-1>>  u == <<a, -1>>  x == s \o t
    <3>1. s \in Seq(Int) /\ t \in Seq(Int) /\ Len(s) = 1 /\ Len(t) = 1 /\ s[1] = a /\ t[1] = -1 OBVIOUS
    <3>2. Len(u) = 2 /\ u = [i \in 1 .. 2 |-> u[i]] /\ u[1] = a /\ u[2] = -1 OBVIOUS
    <3> HIDE DEF s, t, u
    <3>3. /\ x \in Seq(Int) /\ Len(x) = Len(s) + Len(t)
          /\ \A i \in 1 .. Len(s) + Len(t) : x[i] = IF i <= Len(s) THEN s[i] ELSE t[i - Len(s)]
      BY <3>1, ConcatProperties
    <3> HIDE DEF x
    <3>9. \A i \in 1 .. 2 : x[i] = IF i <= 1 THEN s[i] ELSE t[i - 1]
      <4>1. Len(s) + Len(t) = 2 BY <3>1
      <4> QED BY <3>1, <3>3, <4>1
    <3>10. 2 - 1 = 1 OBVIOUS
    <3>11. x[2] = t[1] BY <3>9, <3>10
    <3>4. Len(x) = 2 /\ x[1] = a /\ x[2] = -1
      <4>1. Len(x) = 2
        <5>1. \A k \in Nat : k = 1 + 1 => k = 2 OBVIOUS
        <5>2. Len(x) \in Nat /\ Len(x) = 1 + 1 BY <3>1, <3>3
        <5> QED BY <5>1, <5>2
      <4>2. x[1] = s[1] BY <3>9
      <4> QED BY <3>1, <3>11, <4>1, <4>2
    <3>5. x = [i \in 1 .. 2 |-> x[i]]
      <4>1. x = [i \in 1 .. Len(x) |-> x[i]] BY <3>3
      <4>2. Len(x) = 2 BY <3>4
      <4> QED BY <4>1, <4>2
    <3>6. \A i \in 1 .. 2 : i = 1 \/ i = 2 OBVIOUS
    <3>7. \A i \in 1 .. 2 : x[i] = u[i] BY <3>2, <3>4, <3>6
    <3>8. x = u BY <3>2, <3>5, <3>7
    <3> QED BY <3>8 DEF x, s, t, u
  <2>2. <<a, -1>> \o <<b>> = <<a, -1, b>>
    <3> DEFINE s == <<a, -1>>  t == <<b>>  u == <<a, -1, b>>  x == s \o t
    <3>1. s \in Seq(Int) /\ t \in Seq(Int) /\ Len(s) = 2 /\ Len(t) = 1 /\ s[1] = a /\ s[2] = -1 /\ t[1] = b OBVIOUS
    <3>2. Len(u) = 3 /\ u = [i \in 1 .. 3 |-> u[i]] /\ u[1] = a /\ u[2] = -1 /\ u[3] = b OBVIOUS
    <3> HIDE DEF s, t, u
    <3>3. /\ x \in Seq(Int) /\ Len(x) = Len(s) + Len(t)
          /\ \A i \in 1 .. Len(s) + Len(t) : x[i] = IF i <= Len(s) THEN s[i] ELSE t[i - Len(s)]
      BY <3>1, ConcatProperties
    <3> HIDE DEF x
    <3>9. \A i \in 1 .. 3 : x[i] = IF i <= 2 THEN s[i] ELSE t[i - 2]
      <4>1. Len(s) + Len(t) = 3 BY <3>1
      <4> QED BY <3>1, <3>3, <4>1
    <3>10. 3 - 2 = 1 OBVIOUS
    <3>11. x[3] = t[1] BY <3>9, <3>10
    <3>4. Len(x) = 3 /\ x[1] = a /\ x[2] = -1 /\ x[3] = b
      <4>1. Len(x) = 3
        <5>1. \A k \in Nat : k = 2 + 1 => k = 3 OBVIOUS
        <5>2. Len(x) \in Nat /\ Len(x) = 2 + 1 BY <3>1, <3>3
        <5> QED BY <5>1, <5>2
      <4>2. x[1] = s[1] BY <3>9
      <4>3. x[2] = s[2] BY <3>9
      <4> QED BY <3>1, <3>11, <4>1, <4>2, <4>3
    <3>5. x = [i \in 1 .. 3 |-> x[i]]
      <4>1. x = [i \in 1 .. Len(x) |-> x[i]] BY <3>3
      <4>2. Len(x) = 3 BY <3>4
      <4> QED BY <4>1, <4>2
    <3>6. \A i \in 1 .. 3 : i = 1 \/ i = 2 \/ i = 3 OBVIOUS
    <3>7. \A i \in 1 .. 3 : x[i] = u[i] BY <3>2, <3>4, <3>6
    <3>8. x = u BY <3>2, <3>5, <3>7
    <3> QED BY <3>8 DEF x, s, t, u
  <2> QED BY <2>1, <2>2
<1>3. v[1] \in Int /\ v[2] \in Int BY DEF Versions
<1> QED BY <1>1, <1>2, <1>3 DEF Text

(* Texts of one digit are in the order of the versions. *)
LEMMA ShortTextsOrder ==
  ASSUME NEW v \in Versions, NEW w \in Versions, v[1] < 10, w[1] < 10, TextLess(Text(v), Text(w))
  PROVE  Higher(w, v)
<1> DEFINE a == v[1]  b == v[2]  c == w[1]  d == w[2]
<1>1. a \in Int /\ b \in Int /\ c \in Int /\ d \in Int BY DEF Versions
<1>2. TextLess(<<a, -1, b>>, <<c, -1, d>>) BY ShortText
<1>3. Len(<<a, -1, b>>) = 3 /\ Len(<<c, -1, d>>) = 3 OBVIOUS
<1>4. /\ <<a, -1, b>>[1] = a /\ <<a, -1, b>>[2] = -1 /\ <<a, -1, b>>[3] = b
      /\ <<c, -1, d>>[1] = c /\ <<c, -1, d>>[2] = -1 /\ <<c, -1, d>>[3] = d
  OBVIOUS
<1> DEFINE s == <<a, -1, b>>  t == <<c, -1, d>>
<1>5. Len(s) = 3 /\ Len(t) = 3 /\ s[1] = a /\ s[2] = -1 /\ s[3] = b /\ t[1] = c /\ t[2] = -1 /\ t[3] = d
  BY <1>3, <1>4
<1>6. TextLess(s, t) BY <1>2
<1> HIDE DEF s, t, a, b, c, d
<1>7. PICK i \in 1 .. 3 : (\A j \in 1 .. i - 1 : s[j] = t[j]) /\ s[i] < t[i]
  BY <1>5, <1>6 DEF TextLess
<1>8. i = 1 \/ i = 2 \/ i = 3 OBVIOUS
<1>9. i = 3 => s[1] = t[1] BY <1>7
<1>10. c > a \/ (c = a /\ d > b) BY <1>1, <1>5, <1>7, <1>8, <1>9
<1> QED BY <1>10 DEF Higher, a, b, c, d

(* The order of texts is one. *)
LEMMA TextOrder ==
  /\ \A s, t \in Seq(Int) : s # t => TextLess(s, t) \/ TextLess(t, s)
  /\ \A s, t \in Seq(Int) : ~(TextLess(s, t) /\ TextLess(t, s))
  /\ \A s, t, u \in Seq(Int) : TextLess(s, t) /\ TextLess(t, u) => TextLess(s, u)
<1>1. ASSUME NEW s \in Seq(Int), NEW t \in Seq(Int), s # t PROVE TextLess(s, t) \/ TextLess(t, s)
  <2> DEFINE D == {i \in Nat : i > 0 /\ (i > Len(s) \/ i > Len(t) \/ s[i] # t[i])}
  <2>1. Len(s) \in Nat /\ Len(t) \in Nat
        /\ (\A i \in 1 .. Len(s) : s[i] \in Int) /\ (\A i \in 1 .. Len(t) : t[i] \in Int)
    OBVIOUS
  <2>2. Len(s) + 1 \in D BY <2>1
  <2>3. PICK i \in D : \A j \in D : i <= j
    <3>1. D \in SUBSET Nat /\ D # {} BY <2>2
    <3> HIDE DEF D
    <3> QED BY <3>1, LeastOf
  <2>4. \A j \in 1 .. i - 1 : j <= Len(s) /\ j <= Len(t) /\ s[j] = t[j]
    <3> SUFFICES ASSUME NEW j \in 1 .. i - 1, ~(j <= Len(s) /\ j <= Len(t) /\ s[j] = t[j]) PROVE FALSE
      OBVIOUS
    <3>1. j \in D BY <2>1
    <3> QED BY <3>1, <2>3
  <2>5. i \in Nat /\ i > 0 BY <2>3
  <2>6. CASE i > Len(s) /\ i > Len(t)
    <3>1. i - 1 <= Len(s) /\ i - 1 <= Len(t)
      <4>1. CASE i = 1 BY <2>1, <4>1
      <4>2. CASE i > 1
        <5>1. i - 1 \in 1 .. i - 1 BY <2>5, <4>2
        <5> QED BY <5>1, <2>4
      <4> QED BY <2>5, <4>1, <4>2
    <3>2. Len(s) = Len(t) /\ Len(s) = i - 1 BY <2>1, <2>5, <2>6, <3>1
    <3>3. \A j \in 1 .. Len(s) : s[j] = t[j] BY <2>4, <3>2
    <3>4. s = t
      <4>1. s = [j \in 1 .. Len(s) |-> s[j]] /\ t = [j \in 1 .. Len(t) |-> t[j]] OBVIOUS
      <4> QED BY <4>1, <3>2, <3>3
    <3> QED BY <3>4, <1>1
  <2>7. CASE i > Len(s) /\ i <= Len(t)
    <3>1. i \in 1 .. Len(t) BY <2>1, <2>5, <2>7
    <3> QED BY <3>1, <2>4, <2>7 DEF TextLess
  <2>8. CASE i <= Len(s) /\ i > Len(t)
    <3>1. i \in 1 .. Len(s) BY <2>1, <2>5, <2>8
    <3> QED BY <3>1, <2>4, <2>8 DEF TextLess
  <2>9. CASE i <= Len(s) /\ i <= Len(t)
    <3>1. i \in 1 .. Len(s) /\ i \in 1 .. Len(t) BY <2>1, <2>5, <2>9
    <3>2. s[i] # t[i] BY <2>3, <2>9, <2>1
    <3>3. s[i] < t[i] \/ t[i] < s[i] BY <2>1, <3>1, <3>2
    <3> QED BY <3>1, <3>3, <2>4 DEF TextLess
  <2> QED BY <2>1, <2>5, <2>6, <2>7, <2>8, <2>9
<1>2. ASSUME NEW s \in Seq(Int), NEW t \in Seq(Int), TextLess(s, t), TextLess(t, s) PROVE FALSE
  <2>1. Len(s) \in Nat /\ Len(t) \in Nat
        /\ (\A i \in 1 .. Len(s) : s[i] \in Int) /\ (\A i \in 1 .. Len(t) : t[i] \in Int)
    OBVIOUS
  <2>2. PICK i \in 1 .. Len(t) : (\A j \in 1 .. i - 1 : j <= Len(s) /\ s[j] = t[j]) /\ (i > Len(s) \/ s[i] < t[i])
    BY <1>2 DEF TextLess
  <2>3. PICK k \in 1 .. Len(s) : (\A j \in 1 .. k - 1 : j <= Len(t) /\ t[j] = s[j]) /\ (k > Len(t) \/ t[k] < s[k])
    BY <1>2 DEF TextLess
  <2>4. CASE i < k
    <3>1. i \in 1 .. k - 1 BY <2>1, <2>4
    <3>2. t[i] = s[i] /\ i <= Len(s) BY <2>1, <2>3, <3>1
    <3>3. i \in 1 .. Len(s) BY <2>1, <3>2
    <3> QED BY <2>1, <2>2, <3>2, <3>3
  <2>5. CASE k < i
    <3>1. k \in 1 .. i - 1 BY <2>1, <2>5
    <3>2. t[k] = s[k] /\ k <= Len(t) BY <2>1, <2>2, <3>1
    <3>3. k \in 1 .. Len(t) BY <2>1, <3>2
    <3> QED BY <2>1, <2>3, <3>2, <3>3
  <2>6. CASE i = k BY <2>1, <2>2, <2>3, <2>6
  <2> QED BY <2>1, <2>4, <2>5, <2>6
<1>3. ASSUME NEW s \in Seq(Int), NEW t \in Seq(Int), NEW u \in Seq(Int), TextLess(s, t), TextLess(t, u) PROVE TextLess(s, u)
  <2>1. /\ Len(s) \in Nat /\ Len(t) \in Nat /\ Len(u) \in Nat
        /\ (\A i \in 1 .. Len(s) : s[i] \in Int) /\ (\A i \in 1 .. Len(t) : t[i] \in Int)
        /\ (\A i \in 1 .. Len(u) : u[i] \in Int)
    OBVIOUS
  <2>2. PICK i \in 1 .. Len(t) : (\A j \in 1 .. i - 1 : j <= Len(s) /\ s[j] = t[j]) /\ (i > Len(s) \/ s[i] < t[i])
    BY <1>3 DEF TextLess
  <2>3. PICK k \in 1 .. Len(u) : (\A j \in 1 .. k - 1 : j <= Len(t) /\ t[j] = u[j]) /\ (k > Len(t) \/ t[k] < u[k])
    BY <1>3 DEF TextLess
  <2>4. CASE i < k
    <3>1. i \in 1 .. k - 1 /\ i \in 1 .. Len(u) BY <2>1, <2>4
    <3>2. t[i] = u[i] BY <2>3, <3>1
    <3>3. \A j \in 1 .. i - 1 : j <= Len(s) /\ s[j] = u[j]
      <4> TAKE j \in 1 .. i - 1
      <4>1. j \in 1 .. k - 1 BY <2>1, <2>4
      <4> QED BY <4>1, <2>2, <2>3
    <3>4. i > Len(s) \/ s[i] < u[i] BY <2>2, <3>2
    <3> QED BY <3>1, <3>3, <3>4 DEF TextLess
  <2>5. CASE k < i
    <3>1. k \in 1 .. i - 1 BY <2>1, <2>5
    <3>2. k <= Len(s) /\ s[k] = t[k] /\ k <= Len(t) BY <2>1, <2>2, <3>1
    <3>3. \A j \in 1 .. k - 1 : j <= Len(s) /\ s[j] = u[j]
      <4> TAKE j \in 1 .. k - 1
      <4>1. j \in 1 .. i - 1 BY <2>1, <2>5
      <4> QED BY <4>1, <2>2, <2>3
    <3>4. s[k] < u[k]
      <4>1. t[k] < u[k] BY <2>1, <2>3, <3>2
      <4> QED BY <4>1, <3>2
    <3> QED BY <3>3, <3>4 DEF TextLess
  <2>6. CASE i = k
    <3>1. t[i] < u[i] BY <2>1, <2>3, <2>6
    <3>2. \A j \in 1 .. i - 1 : j <= Len(s) /\ s[j] = u[j] BY <2>2, <2>3, <2>6
    <3>3. i > Len(s) \/ s[i] < u[i]
      <4>1. CASE i > Len(s) BY <4>1
      <4>2. CASE i <= Len(s)
        <5>1. i \in 1 .. Len(s) /\ i \in 1 .. Len(u) BY <2>1, <2>6, <4>2
        <5>2. s[i] < t[i] /\ s[i] \in Int /\ t[i] \in Int /\ u[i] \in Int BY <2>1, <2>2, <4>2, <5>1
        <5> QED BY <3>1, <5>2
      <4> QED BY <2>1, <4>1, <4>2
    <3> QED BY <2>6, <3>2, <3>3 DEF TextLess
  <2> QED BY <2>1, <2>4, <2>5, <2>6
<1> QED BY <1>1, <1>2, <1>3

-----------------------------------------------------------------------------
(* The documents without their status, and the first of them.              *)
Pair(d) == <<d.at, d.version>>
Pairs(ds) == {Pair(d) : d \in ds}

PairsFit(P, last) ==
  /\ \A p \in P : p[1] \in 1 .. last /\ p[2] \in Versions /\ p = <<p[1], p[2]>>
  /\ \A p, q \in P : p[1] = q[1] => p = q

TextsDiffer(P) == \A p, q \in P : p # q => Text(p[2]) # Text(q[2])

Behind(q, p) == TextLess(Text(q[2]), Text(p[2]))
InFront(P) == {pq \in P \X P : Behind(pq[2], pq[1])}
KeptOf(n) == IF KeepLatest <= n THEN KeepLatest ELSE n

Top(T, P) ==
  T \in SUBSET P /\ Cardinality(T) = KeptOf(Cardinality(P)) /\ \A p \in T, q \in P \ T : Behind(q, p)

(* The documents with their versions are finite in number. *)
LEMMA PairsAreFinite ==
  ASSUME NEW last \in Nat, NEW P, PairsFit(P, last)
  PROVE  IsFiniteSet(P) /\ Cardinality(P) \in Nat
<1> DEFINE f == [p \in P |-> p[1]]
<1>1. f \in [P -> 1 .. last] BY DEF PairsFit
<1>2. \A p, q \in P : f[p] = f[q] => p = q BY DEF PairsFit
<1> HIDE DEF f
<1>3. f \in Injection(P, 1 .. last) BY <1>1, <1>2 DEF Injection, IsInjective
<1>4. IsFiniteSet(1 .. last) BY FirstNumbers
<1>5. IsFiniteSet(P) BY <1>3, <1>4, FS_Injection
<1> QED BY <1>5, FS_CardinalityType

(* The sorting of the documents is an order, when their texts differ. *)
LEMMA InFrontIsOrder ==
  ASSUME NEW last \in Nat, NEW P, PairsFit(P, last), TextsDiffer(P)
  PROVE  IsOrder(InFront(P), P)
<1>1. \A p, q : <<p, q>> \in InFront(P) <=> p \in P /\ q \in P /\ TextLess(Text(q[2]), Text(p[2]))
  BY DEF InFront, Behind
<1>2. \A p \in P : Text(p[2]) \in Seq(Int) BY TextsAreSequences DEF PairsFit
<1>3. \A p, q \in P : p # q => <<p, q>> \in InFront(P) \/ <<q, p>> \in InFront(P)
  BY <1>1, <1>2, TextOrder DEF TextsDiffer
<1>4. \A p, q \in P : <<p, q>> \in InFront(P) => <<q, p>> \notin InFront(P)
  BY <1>1, <1>2, TextOrder
<1>5. \A p, q, r \in P : <<p, q>> \in InFront(P) /\ <<q, r>> \in InFront(P) => <<p, r>> \in InFront(P)
  <2> SUFFICES ASSUME NEW p \in P, NEW q \in P, NEW r \in P, <<p, q>> \in InFront(P), <<q, r>> \in InFront(P)
               PROVE  <<p, r>> \in InFront(P)
    OBVIOUS
  <2>1. TextLess(Text(q[2]), Text(p[2])) /\ TextLess(Text(r[2]), Text(q[2])) BY <1>1
  <2>2. TextLess(Text(r[2]), Text(p[2])) BY <2>1, <1>2, TextOrder
  <2> QED BY <2>2, <1>1
<1> QED BY <1>3, <1>4, <1>5 DEF IsOrder

(* The documents that are kept are no more than shall be kept. *)
LEMMA TopIsFinite ==
  ASSUME VersionAssumption, NEW P, IsFiniteSet(P), NEW T, Top(T, P)
  PROVE  IsFiniteSet(T) /\ Cardinality(T) \in Nat /\ Cardinality(T) <= KeepLatest /\ Cardinality(P) \in Nat
<1>1. IsFiniteSet(T) /\ Cardinality(P) \in Nat BY FS_Subset, FS_CardinalityType DEF Top
<1> QED BY <1>1, FS_CardinalityType DEF Top, KeptOf, VersionAssumption

(* When a document comes, the kept are among those before and the new one. *)
LEMMA TopGrows ==
  ASSUME VersionAssumption, NEW last \in Nat, NEW P, IsFiniteSet(P), NEW x, x \notin P, PairsFit(P \cup {x}, last),
         TextsDiffer(P \cup {x}), NEW T, Top(T, P)
  PROVE  \E U : Top(U, P \cup {x}) /\ U \subseteq T \cup {x}
<1> DEFINE Q == P \cup {x}
           R == InFront(Q)
<1>1. IsFiniteSet(T) /\ Cardinality(T) \in Nat /\ Cardinality(T) <= KeepLatest /\ Cardinality(P) \in Nat
  BY TopIsFinite
<1>2. IsFiniteSet(Q) /\ Cardinality(Q) = Cardinality(P) + 1
  <2>1. IsFiniteSet(Q) BY FS_AddElement
  <2>2. Cardinality(Q) = IF x \in P THEN Cardinality(P) ELSE Cardinality(P) + 1 BY FS_AddElement
  <2> QED BY <2>1, <2>2
<1>3. CASE Cardinality(P) < KeepLatest
  <2>1. Cardinality(T) = Cardinality(P) /\ T \in SUBSET P
    BY <1>1, <1>3 DEF Top, KeptOf, VersionAssumption
  <2>2. T = P BY <2>1, FS_Subset
  <2>3. Cardinality(Q) = KeptOf(Cardinality(Q)) BY <1>1, <1>2, <1>3 DEF KeptOf, VersionAssumption
  <2>4. Top(Q, Q)
    <3> HIDE DEF Q
    <3> QED BY <2>3 DEF Top
  <2> QED BY <2>2, <2>4
<1>4. CASE ~(Cardinality(P) < KeepLatest)
  <2>1. Cardinality(T) = KeepLatest /\ T \in SUBSET P /\ KeepLatest \in Nat
    BY <1>1, <1>4 DEF Top, KeptOf, VersionAssumption
  <2> DEFINE W == T \cup {x}
  <2>2. IsFiniteSet(W) /\ Cardinality(W) = KeepLatest + 1
    <3>1. IsFiniteSet(W) BY <1>1, FS_AddElement
    <3>2. Cardinality(W) = IF x \in T THEN Cardinality(T) ELSE Cardinality(T) + 1 BY <1>1, FS_AddElement
    <3> QED BY <2>1, <3>1, <3>2
  <2>3. IsOrder(R, Q)
    <3> HIDE DEF Q
    <3> QED BY InFrontIsOrder DEF Q
  <2>4. \A p, q \in Q : <<p, q>> \in R <=> Behind(q, p)
    <3> HIDE DEF Q
    <3> QED BY DEF InFront
  <2> HIDE DEF R
  <2>5. IsOrder(R, W)
    <3>1. W \subseteq Q BY <2>1
    <3> HIDE DEF W, Q
    <3> QED BY <2>3, <3>1 DEF IsOrder
  <2>6. PICK z \in W : \A y \in W : y # z => <<y, z>> \in R
    <3>1. W # {} OBVIOUS
    <3> HIDE DEF W, Q
    <3> QED BY <2>2, <2>5, <3>1, LastExists
  <2> DEFINE U == W \ {z}
  <2>7. Cardinality(U) = KeepLatest
    <3> HIDE DEF W
    <3> QED BY <2>1, <2>2, <2>6, LessByOne
  <2>8. U \in SUBSET Q BY <2>1
  <2>9. ASSUME NEW p \in U, NEW q \in Q \ U PROVE Behind(q, p)
    <3>1. p \in Q /\ q \in Q /\ z \in Q BY <2>1, <2>6
    <3>2. CASE q = z BY <2>4, <2>6, <3>1, <3>2
    <3>3. CASE q # z
      <4>1. q \in P \ T BY <2>9, <3>3
      <4>2. CASE p \in T BY <4>1, <4>2 DEF Top
      <4>3. CASE p \notin T
        <5>1. p = x /\ z \in T BY <4>3
        <5>2. <<p, z>> \in R BY <2>6
        <5>3. Behind(q, z) BY <4>1, <5>1 DEF Top
        <5>4. <<z, q>> \in R BY <2>4, <3>1, <5>3
        <5>5. <<p, q>> \in R
          <6> HIDE DEF Q, U, W
          <6> QED BY <2>3, <3>1, <5>2, <5>4 DEF IsOrder
        <5> QED BY <2>4, <3>1, <5>5
      <4> QED BY <4>2, <4>3
    <3> QED BY <3>2, <3>3
  <2>10. KeptOf(Cardinality(Q)) = KeepLatest BY <1>1, <1>2, <1>4, <2>1 DEF KeptOf
  <2>11. U \subseteq T \cup {x} OBVIOUS
  <2> HIDE DEF U, Q, W
  <2>12. Top(U, Q) BY <2>7, <2>8, <2>9, <2>10 DEF Top
  <2> QED BY <2>11, <2>12 DEF Q
<1> QED BY <1>3, <1>4

(* When others go, the kept stay. *)
LEMMA TopStays ==
  ASSUME VersionAssumption, NEW P, IsFiniteSet(P), NEW T, Top(T, P), NEW Q, Q \subseteq P, T \subseteq Q
  PROVE  Top(T, Q)
<1>1. IsFiniteSet(T) /\ Cardinality(T) \in Nat /\ Cardinality(P) \in Nat BY TopIsFinite
<1>2. IsFiniteSet(Q) /\ Cardinality(Q) <= Cardinality(P) /\ Cardinality(Q) \in Nat BY FS_Subset, FS_CardinalityType
<1>3. Cardinality(T) <= Cardinality(Q) BY <1>2, FS_Subset
<1>4. Cardinality(T) = KeptOf(Cardinality(Q)) BY <1>1, <1>2, <1>3 DEF Top, KeptOf, VersionAssumption
<1> QED BY <1>4 DEF Top

-----------------------------------------------------------------------------
DocFits(d) == DOMAIN d = {"at", "version", "status"}
DocsFit(ds) == (\A d \in ds : DocFits(d)) /\ \A d, e \in ds : d.at = e.at => d = e

Spares(T, vs) == \A s \in Versioners : vs[s].op = "cleanup" => \A p \in T : p[1] \notin vs[s].doomed
SomeTopStays(P, vs) == \E T : Top(T, P) /\ Spares(T, vs)

HaveRead(vs, last, young) ==
  /\ vs = [s \in Versioners |-> vs[s]]
  /\ \A s \in Versioners :
       /\ vs[s].op = "create" => \A e \in vs[s].existing : e.version \in Versions
       /\ vs[s].op = "cleanup" => \A a \in vs[s].doomed : a \in 1 .. last /\ a <= young

Cleans(d) == d.doc.at <= cutoff
DocsKept ==
  /\ created \in Nat \ {0} /\ cutoff \in Nat /\ doubled \in BOOLEAN
  /\ DocsFit(docs) /\ PairsFit(Pairs(docs), created)
  /\ HaveRead(versioning, created, cutoff)
  /\ ~doubled =>
       /\ TextsDiffer(Pairs(docs)) /\ Cardinality(Pairs(docs)) >= KeptOf(created)
       /\ SomeTopStays(Pairs(docs), versioning)

CleanedFits == \A c \in cleaned : c.doc.at \in Nat /\ c.doc.at <= cutoff
VersionsIInv == DocsKept /\ CleanedFits /\ HighestStays /\ DiffsAddUp

(* A document is determined by its number and version. *)
LEMMA DocsArePairs ==
  ASSUME NEW ds, DocsFit(ds), IsFiniteSet(Pairs(ds))
  PROVE  IsFiniteSet(ds) /\ Cardinality(ds) = Cardinality(Pairs(ds))
<1> DEFINE P == Pairs(ds)
           f == [p \in P |-> CHOOSE d \in ds : Pair(d) = p]
<1>1. \A p \in P : f[p] \in ds /\ Pair(f[p]) = p BY DEF Pairs
<1>2. \A d \in ds : Pair(d) \in P BY DEF Pairs
<1>3. \A d, e \in ds : Pair(d) = Pair(e) => d = e
  <2> TAKE d, e \in ds
  <2>1. Pair(d)[1] = d.at /\ Pair(e)[1] = e.at BY DEF Pair
  <2> QED BY <2>1 DEF DocsFit
<1>4. f = [p \in P |-> f[p]] OBVIOUS
<1>5. IsFiniteSet(P) OBVIOUS
<1> HIDE DEF f, P
<1>6. f \in Bijection(P, ds)
  <2>1. f \in [P -> ds] BY <1>1, <1>4
  <2>2. \A p, q \in P : f[p] = f[q] => p = q BY <1>1
  <2>3. \A d \in ds : \E p \in P : f[p] = d
    <3> TAKE d \in ds
    <3>1. f[Pair(d)] \in ds /\ Pair(f[Pair(d)]) = Pair(d) BY <1>1, <1>2
    <3> QED BY <3>1, <1>2, <1>3
  <2> QED BY <2>1, <2>2, <2>3 DEF Bijection, Injection, Surjection, IsInjective
<1>7. ExistsBijection(P, ds) BY <1>6 DEF ExistsBijection
<1>8. IsFiniteSet(ds) /\ Cardinality(P) = Cardinality(ds) BY <1>5, <1>7, FS_Bijection
<1> QED BY <1>8 DEF P

WithStatus(ds, C, status) == (ds \ C) \cup {[d EXCEPT !.status = status] : d \in C}

(* A change of the status is no change of the version. *)
LEMMA PairsOfChanged ==
  ASSUME NEW ds, DocsFit(ds), NEW C \in SUBSET ds, NEW status
  PROVE  DocsFit(WithStatus(ds, C, status)) /\ Pairs(WithStatus(ds, C, status)) = Pairs(ds)
<1> DEFINE ch(d) == [d EXCEPT !.status = status]
           new == (ds \ C) \cup {ch(d) : d \in C}
<1>1. \A d \in ds : DocFits(d) BY DEF DocsFit
<1>2. \A d \in ds : DocFits(ch(d)) /\ ch(d).at = d.at /\ ch(d).version = d.version
  BY <1>1 DEF DocFits
<1> HIDE DEF ch
<1>3. \A d \in new : \E e \in ds : d.at = e.at /\ Pair(d) = Pair(e) /\ ((d = e /\ e \notin C) \/ (d = ch(e) /\ e \in C)) /\ DocFits(d)
  BY <1>1, <1>2 DEF Pair
<1>4. \A e \in ds : \E d \in new : Pair(d) = Pair(e)
  <2> TAKE e \in ds
  <2>1. CASE e \in C
    <3>1. ch(e) \in new /\ Pair(ch(e)) = Pair(e) BY <1>2, <2>1 DEF Pair
    <3> QED BY <3>1
  <2>2. CASE e \notin C BY <2>2
  <2> QED BY <2>1, <2>2
<1> HIDE DEF new
<1>5. DocsFit(new)
  <2>1. \A d, e \in new : d.at = e.at => d = e
    <3> SUFFICES ASSUME NEW d \in new, NEW e \in new, d.at = e.at PROVE d = e OBVIOUS
    <3>1. PICK x \in ds : d.at = x.at /\ ((d = x /\ x \notin C) \/ (d = ch(x) /\ x \in C)) BY <1>3
    <3>2. PICK y \in ds : e.at = y.at /\ ((e = y /\ y \notin C) \/ (e = ch(y) /\ y \in C)) BY <1>3
    <3>3. x = y BY <3>1, <3>2 DEF DocsFit
    <3> QED BY <3>1, <3>2, <3>3
  <2> QED BY <2>1, <1>3 DEF DocsFit
<1>6. Pairs(new) = Pairs(ds)
  <2>1. \A p \in Pairs(new) : p \in Pairs(ds) BY <1>3 DEF Pairs
  <2>2. \A p \in Pairs(ds) : p \in Pairs(new)
    <3> SUFFICES ASSUME NEW e \in ds PROVE Pair(e) \in Pairs(new) BY DEF Pairs
    <3>1. PICK d \in new : Pair(d) = Pair(e) BY <1>4
    <3> QED BY <3>1 DEF Pairs
  <2> QED BY <2>1, <2>2
<1>7. WithStatus(ds, C, status) = new BY DEF WithStatus, new, ch
<1> QED BY <1>5, <1>6, <1>7

(* A cleanup that spares the kept leaves them spared. *)
LEMMA SparesMore ==
  ASSUME NEW T, NEW vs, NEW ws, Spares(T, vs), NEW s \in Versioners, vs = [r \in Versioners |-> vs[r]],
         NEW x, ws = [vs EXCEPT ![s] = x], x.op = "cleanup" => \A p \in T : p[1] \notin x.doomed
  PROVE  Spares(T, ws)
<1>1. \A r \in Versioners : ws[r] = IF r = s THEN x ELSE vs[r] OBVIOUS
<1> QED BY <1>1 DEF Spares

(* A session has read documents that were there. *)
LEMMA HasReadMore ==
  ASSUME NEW vs, NEW ws, NEW last \in Nat, NEW young \in Nat, HaveRead(vs, last, young), NEW s \in Versioners,
         NEW x, ws = [vs EXCEPT ![s] = x],
         x.op = "create" => \A e \in x.existing : e.version \in Versions,
         x.op = "cleanup" => \A a \in x.doomed : a \in 1 .. last /\ a <= young
  PROVE  HaveRead(ws, last, young)
<1>1. vs = [r \in Versioners |-> vs[r]] BY DEF HaveRead
<1>2. \A r \in Versioners : ws[r] = IF r = s THEN x ELSE vs[r] BY <1>1
<1>3. ws = [r \in Versioners |-> ws[r]] BY <1>1
<1> QED BY <1>2, <1>3 DEF HaveRead

(* What a session has read was there, and is there later. *)
LEMMA HasReadLater ==
  ASSUME NEW vs, NEW last \in Nat, NEW young \in Nat, HaveRead(vs, last, young),
         NEW last2 \in Nat, NEW young2 \in Nat, last <= last2, young <= young2
  PROVE  HaveRead(vs, last2, young2)
<1>1. \A a \in 1 .. last : a \in 1 .. last2 /\ a \in Nat OBVIOUS
<1>2. \A a \in Nat : a <= young => a <= young2 OBVIOUS
<1> QED BY <1>1, <1>2 DEF HaveRead

-----------------------------------------------------------------------------

(* The first version is there at first. *)
LEMMA VersionsInitIInv == ASSUME VersionAssumption, VersionsInit PROVE VersionsIInv
<1> DEFINE d == [at |-> 1, version |-> FirstVersion, status |-> "ready"]
           p == <<1, FirstVersion>>
<1>1. docs = {d} /\ created = 1 /\ cutoff = 0 /\ cleaned = {} /\ doubled = FALSE /\ comparison = NotCompared
      /\ versioning = [s \in Versioners |-> NotVersioning]
  BY DEF VersionsInit
<1>2. DocFits(d) /\ Pair(d) = p BY DEF DocFits, Pair
<1>3. DocsFit(docs) BY <1>1, <1>2 DEF DocsFit
<1>4. Pairs(docs) = {p}
  <2> HIDE DEF d, p
  <2> QED BY <1>1, <1>2 DEF Pairs
<1>5. PairsFit({p}, created)
  <2>1. p[1] = 1 /\ p[2] = FirstVersion /\ FirstVersion \in Versions /\ p[1] \in 1 .. 1
    BY DEF VersionAssumption, Versions
  <2>2. p = <<p[1], p[2]>> OBVIOUS
  <2> HIDE DEF p
  <2> QED BY <2>1, <2>2, <1>1 DEF PairsFit
<1>6. versioning = [s \in Versioners |-> versioning[s]] /\ \A s \in Versioners : versioning[s].op = "none"
  BY <1>1 DEF NotVersioning
<1>7. HaveRead(versioning, created, cutoff) BY <1>6 DEF HaveRead
<1> HIDE DEF p
<1>8. TextsDiffer({p}) BY DEF TextsDiffer
<1>9. IsFiniteSet({p}) /\ Cardinality({p}) = 1 BY FS_Singleton
<1>10. IsFiniteSet({}) /\ Cardinality({}) = 0 BY FS_EmptySet
<1>11. Cardinality({p}) >= KeptOf(1) BY <1>9 DEF KeptOf, VersionAssumption
<1>12. \E T : Top(T, {p})
  <2>1. CASE KeepLatest = 0
    <3>1. KeptOf(1) = 0 BY <2>1 DEF KeptOf
    <3>2. Top({}, {p}) BY <1>9, <1>10, <3>1 DEF Top
    <3> QED BY <3>2
  <2>2. CASE KeepLatest # 0
    <3>1. KeptOf(1) = 1 BY <2>2 DEF KeptOf, VersionAssumption
    <3>2. Top({p}, {p}) BY <1>9, <3>1 DEF Top
    <3> QED BY <3>2
  <2> QED BY <2>1, <2>2
<1>13. SomeTopStays({p}, versioning) BY <1>6, <1>12 DEF SomeTopStays, Spares
<1>14. DocsKept
  <2>1. created \in Nat \ {0} /\ cutoff \in Nat BY <1>1
  <2>4. doubled \in BOOLEAN BY <1>1, Zenon
  <2>2. TextsDiffer(Pairs(docs)) /\ Cardinality(Pairs(docs)) >= KeptOf(created) /\ SomeTopStays(Pairs(docs), versioning)
    BY <1>1, <1>4, <1>8, <1>11, <1>13
  <2>3. PairsFit(Pairs(docs), created) BY <1>4, <1>5
  <2> QED BY <1>3, <1>7, <2>1, <2>2, <2>3, <2>4 DEF DocsKept
<1>15. CleanedFits /\ HighestStays BY <1>1 DEF CleanedFits, HighestStays
<1>16. DiffsAddUp BY <1>1 DEF DiffsAddUp, NotCompared
<1> QED BY <1>14, <1>15, <1>16 DEF VersionsIInv

(* What does not touch the documents. *)
LEMMA ReadingKeeps ==
  ASSUME VersionAssumption, VersionsIInv, UNCHANGED <<docs, created, cutoff, cleaned, doubled, comparison>>,
         NEW s \in Versioners, NEW x, versioning' = [versioning EXCEPT ![s] = x],
         x.op = "create" => \A e \in x.existing : e.version \in Versions,
         x.op = "cleanup" => \A a \in x.doomed : a \in 1 .. created /\ a <= cutoff,
         \A T : Top(T, Pairs(docs)) /\ x.op = "cleanup" => \A p \in T : p[1] \notin x.doomed
  PROVE  VersionsIInv'
<1>1. created \in Nat /\ cutoff \in Nat /\ HaveRead(versioning, created, cutoff) /\ created \in Nat \ {0} /\ doubled \in BOOLEAN
  BY DEF VersionsIInv, DocsKept
<1>2. HaveRead(versioning', created, cutoff) BY <1>1, HasReadMore
<1>3. SomeTopStays(Pairs(docs), versioning) => SomeTopStays(Pairs(docs), versioning')
  <2> SUFFICES ASSUME NEW T, Top(T, Pairs(docs)), Spares(T, versioning) PROVE SomeTopStays(Pairs(docs), versioning')
    BY DEF SomeTopStays
  <2>1. versioning = [r \in Versioners |-> versioning[r]] BY <1>1 DEF HaveRead
  <2>2. Spares(T, versioning') BY <2>1, SparesMore
  <2> QED BY <2>2 DEF SomeTopStays
<1>4. DocsKept'
  <2> DEFINE ds == docs  ws == versioning'
  <2>1. docs' = docs /\ created' = created /\ cutoff' = cutoff /\ doubled' = doubled OBVIOUS
  <2>2. DocsFit(docs) /\ PairsFit(Pairs(docs), created) BY DEF VersionsIInv, DocsKept
  <2>3. ~doubled => TextsDiffer(Pairs(docs)) /\ Cardinality(Pairs(docs)) >= KeptOf(created) /\ SomeTopStays(Pairs(docs), versioning')
    BY <1>3 DEF VersionsIInv, DocsKept
  <2> QED BY <1>1, <1>2, <2>1, <2>2, <2>3 DEF DocsKept
<1>5. CleanedFits' /\ HighestStays' /\ DiffsAddUp'
  BY DEF VersionsIInv, CleanedFits, HighestStays, DiffsAddUp
<1> QED BY <1>4, <1>5 DEF VersionsIInv

(* create_new_version() reads the versions that exist. *)
LEMMA CreateVersionKeeps ==
  ASSUME VersionAssumption, VersionsIInv, NEW s \in Versioners, CreateNewVersion(s)
  PROVE  VersionsIInv'
<1> DEFINE x == [op |-> "create", existing |-> InUse]
<1>1. versioning' = [versioning EXCEPT ![s] = x] /\ UNCHANGED <<docs, created, cutoff, cleaned, doubled, comparison>>
  BY DEF CreateNewVersion, Reads
<1>2. \A d \in docs : d.version \in Versions
  <2> TAKE d \in docs
  <2>1. Pair(d) \in Pairs(docs) /\ Pair(d)[2] = d.version BY DEF Pairs, Pair
  <2> QED BY <2>1 DEF VersionsIInv, DocsKept, PairsFit
<1>3. x.op = "create" /\ x.op # "cleanup" /\ x.existing = InUse OBVIOUS
<1>4. \A e \in x.existing : e.version \in Versions BY <1>2, <1>3 DEF InUse
<1> HIDE DEF x
<1> QED BY <1>1, <1>3, <1>4, ReadingKeeps

(* A session that fails leaves the documents alone. *)
LEMMA AbortKeeps ==
  ASSUME VersionAssumption, VersionsIInv, NEW s \in Versioners, AbortVersioning(s)
  PROVE  VersionsIInv'
<1>1. versioning' = [versioning EXCEPT ![s] = NotVersioning] /\ UNCHANGED <<docs, created, cutoff, cleaned, doubled, comparison>>
  BY DEF AbortVersioning, Reads
<1>3. NotVersioning.op # "create" /\ NotVersioning.op # "cleanup" BY DEF NotVersioning
<1> QED BY <1>1, <1>3, ReadingKeeps

(* cleanup_old_versions() dooms what is old and not among the latest. *)
LEMMA CleanupKeeps ==
  ASSUME VersionAssumption, VersionsIInv, NEW s \in Versioners, CleanupOldVersions(s)
  PROVE  VersionsIInv'
<1>1. UNCHANGED <<docs, created, cutoff, cleaned, doubled, comparison>> BY DEF CleanupOldVersions
<1>2. PICK order \in Sortings :
        Reads(s, [op |-> "cleanup",
                  doomed |-> {order[i].at : i \in {j \in DOMAIN order : j > KeepLatest /\ order[j].at <= cutoff}}])
  BY DEF CleanupOldVersions
<1> DEFINE D == {j \in DOMAIN order : j > KeepLatest /\ order[j].at <= cutoff}
           doomed == {order[i].at : i \in D}
           x == [op |-> "cleanup", doomed |-> doomed]
           P == Pairs(docs)
<1>3. versioning' = [versioning EXCEPT ![s] = x] BY <1>2 DEF Reads
<1>4. created \in Nat /\ DocsFit(docs) /\ PairsFit(P, created) BY DEF VersionsIInv, DocsKept
<1>5. IsFiniteSet(P) /\ Cardinality(docs) \in Nat
  <2>1. IsFiniteSet(P) /\ Cardinality(P) \in Nat
    <3> HIDE DEF P
    <3> QED BY <1>4, PairsAreFinite
  <2> QED BY <2>1, <1>4, DocsArePairs
<1>6. /\ order \in [1 .. Cardinality(docs) -> docs]
      /\ \A j \in DOMAIN order : \A i \in 1 .. j - 1 :
           order[i] # order[j] /\ ~TextLess(Text(order[i].version), Text(order[j].version))
  BY DEF Sortings
<1>7. \A d \in docs : Pair(d) \in P /\ Pair(d)[1] = d.at /\ Pair(d)[2] = d.version BY DEF Pairs, Pair
<1>8. \A a \in doomed : a \in 1 .. created /\ a <= cutoff
  <2> TAKE a \in doomed
  <2>1. PICK j \in D : a = order[j].at OBVIOUS
  <2>2. order[j] \in docs /\ a <= cutoff BY <1>6, <2>1
  <2> QED BY <2>1, <2>2, <1>4, <1>7 DEF PairsFit
<1>9. ASSUME NEW T, Top(T, P), NEW p \in T, p[1] \in doomed PROVE FALSE
  <2>1. PICK j \in D : p[1] = order[j].at BY <1>9
  <2>2. j \in DOMAIN order /\ j \in Nat /\ j > KeepLatest /\ order[j] \in docs /\ 1 .. j \subseteq DOMAIN order
    BY <1>5, <1>6, <2>1
  <2>3. p \in P BY <1>9 DEF Top
  <2>4. p = Pair(order[j]) BY <2>1, <2>2, <2>3, <1>4, <1>7 DEF PairsFit
  <2> DEFINE g == [i \in 1 .. j |-> Pair(order[i])]
  <2>5. \A i \in 1 .. j : order[i] \in docs BY <2>2, <1>6
  <2>6. \A i \in 1 .. j : Pair(order[i]) \in T
    <3> TAKE i \in 1 .. j
    <3>1. CASE i = j BY <2>4, <3>1, <1>9
    <3>2. CASE i # j
      <4>1. i \in 1 .. j - 1 BY <2>2, <3>2
      <4>2. ~TextLess(Text(order[i].version), Text(order[j].version)) BY <4>1, <2>2, <1>6
      <4>3. ~Behind(Pair(order[i]), p) BY <4>2, <2>4, <2>5, <2>2, <1>7 DEF Behind
      <4>4. Pair(order[i]) \in P BY <2>5, <1>7
      <4> QED BY <4>3, <4>4, <1>9 DEF Top
    <3> QED BY <3>1, <3>2
  <2>7. \A i, k \in 1 .. j : i < k => order[i] # order[k]
    <3> TAKE i, k \in 1 .. j
    <3> HAVE i < k
    <3>1. i \in 1 .. k - 1 /\ k \in DOMAIN order BY <2>2
    <3> QED BY <3>1, <1>6
  <2>8. \A i, k \in 1 .. j : g[i] = g[k] => i = k
    <3> SUFFICES ASSUME NEW i \in 1 .. j, NEW k \in 1 .. j, g[i] = g[k] PROVE i = k OBVIOUS
    <3>1. Pair(order[i]) = Pair(order[k]) OBVIOUS
    <3>2. order[i].at = order[k].at BY <3>1, <2>5, <1>7
    <3>3. order[i] = order[k] BY <3>2, <2>5, <1>4 DEF DocsFit
    <3>4. ~(i < k) /\ ~(k < i) BY <3>3, <2>7
    <3> QED BY <3>4
  <2>9. DOMAIN g = 1 .. j /\ \A i \in 1 .. j : g[i] \in T BY <2>6
  <2> HIDE DEF g
  <2> DEFINE V == {g[i] : i \in DOMAIN g}
  <2>10. Cardinality(V) = j BY <2>2, <2>8, <2>9, ValuesOfInjective
  <2>11. V \subseteq T BY <2>9
  <2> HIDE DEF V, P
  <2>12. IsFiniteSet(T) /\ Cardinality(T) \in Nat /\ Cardinality(T) <= KeepLatest BY <1>5, <1>9, TopIsFinite
  <2>13. Cardinality(V) <= Cardinality(T) BY <2>11, <2>12, FS_Subset
  <2> QED BY <2>2, <2>10, <2>12, <2>13 DEF VersionAssumption
<1>10. x.op = "cleanup" /\ x.op # "create" /\ x.doomed = doomed OBVIOUS
<1> HIDE DEF x, doomed
<1>11. \A T : Top(T, P) /\ x.op = "cleanup" => \A p \in T : p[1] \notin x.doomed BY <1>9, <1>10
<1>12. \A a \in x.doomed : a \in 1 .. created /\ a <= cutoff BY <1>8, <1>10
<1> QED BY <1>1, <1>3, <1>10, <1>11, <1>12, ReadingKeeps

(* What keeps the documents but for their status. *)
LEMMA StatusKeeps ==
  ASSUME VersionAssumption, VersionsIInv, DocsFit(docs'), Pairs(docs') = Pairs(docs),
         created' = created, cutoff' \in Nat, cutoff' >= cutoff, UNCHANGED <<versioning, cleaned, doubled, comparison>>
  PROVE  VersionsIInv'
<1>1. DocsKept'
  <2>1. created \in Nat \ {0} /\ cutoff \in Nat /\ HaveRead(versioning, created, cutoff) BY DEF VersionsIInv, DocsKept
  <2>2. HaveRead(versioning, created, cutoff') BY <2>1, HasReadLater
  <2>3. doubled' \in BOOLEAN /\ PairsFit(Pairs(docs'), created) BY DEF VersionsIInv, DocsKept
  <2>4. ~doubled => TextsDiffer(Pairs(docs')) /\ Cardinality(Pairs(docs')) >= KeptOf(created) /\ SomeTopStays(Pairs(docs'), versioning)
    BY DEF VersionsIInv, DocsKept
  <2>5. created' = created /\ versioning' = versioning /\ doubled' = doubled OBVIOUS
  <2> QED BY <2>1, <2>2, <2>3, <2>4, <2>5 DEF DocsKept
<1>2. CleanedFits'
  <2>1. cleaned' = cleaned /\ cutoff \in Nat /\ \A c \in cleaned : c.doc.at \in Nat /\ c.doc.at <= cutoff
    BY DEF VersionsIInv, CleanedFits, DocsKept
  <2>2. \A a, b, c \in Nat : a <= b /\ c >= b => a <= c OBVIOUS
  <2>3. \A c \in cleaned : c.doc.at \in Nat /\ c.doc.at <= cutoff'
    BY <2>1, <2>2
  <2> QED BY <2>1, <2>3 DEF CleanedFits
<1>3. HighestStays' /\ DiffsAddUp' BY DEF VersionsIInv, HighestStays, DiffsAddUp
<1> QED BY <1>1, <1>2, <1>3 DEF VersionsIInv

(* A document is processed. *)
LEMMA ProcessKeeps ==
  ASSUME VersionAssumption, VersionsIInv, ProcessDocument
  PROVE  VersionsIInv'
<1>1. UNCHANGED <<created, cutoff, versioning, cleaned, doubled, comparison>> BY DEF ProcessDocument
<1>2. PICK d \in docs, status \in {"processing", "ready", "failed"} :
        docs' = (docs \ {d}) \cup {[d EXCEPT !.status = status]}
  BY DEF ProcessDocument
<1>3. {[e EXCEPT !.status = status] : e \in {d}} = {[d EXCEPT !.status = status]} OBVIOUS
<1>4. DocsFit(docs) /\ {d} \in SUBSET docs /\ cutoff \in Nat BY DEF VersionsIInv, DocsKept
<1>5. DocsFit(WithStatus(docs, {d}, status)) /\ Pairs(WithStatus(docs, {d}, status)) = Pairs(docs)
  BY <1>4, PairsOfChanged
<1>6. docs' = WithStatus(docs, {d}, status) BY <1>2, <1>3 DEF WithStatus
<1>7. DocsFit(docs') /\ Pairs(docs') = Pairs(docs) BY <1>5, <1>6
<1> QED BY <1>1, <1>4, <1>7, StatusKeeps

(* Time makes documents older. *)
LEMMA TimeKeeps ==
  ASSUME VersionAssumption, VersionsIInv, TimeGoesBy
  PROVE  VersionsIInv'
<1>1. docs' = docs /\ created' = created /\ cutoff' = cutoff + 1 /\ UNCHANGED <<versioning, cleaned, doubled, comparison>>
  BY DEF TimeGoesBy
<1>2. DocsFit(docs') /\ Pairs(docs') = Pairs(docs) /\ cutoff \in Nat BY <1>1 DEF VersionsIInv, DocsKept
<1>3. cutoff' \in Nat /\ cutoff' >= cutoff BY <1>1, <1>2
<1> QED BY <1>1, <1>2, <1>3, StatusKeeps

(* A new version is committed, above those its session has read. *)
LEMMA CommitVersionKeeps ==
  ASSUME VersionAssumption, VersionsIInv, NEW s \in Versioners, CommitVersion(s)
  PROVE  VersionsIInv'
<1> DEFINE was == versioning[s].existing
           changed == {d \in docs : \E e \in was : e.status = "processing" /\ e.at = d.at}
           v == IF was = {} THEN <<1, 0>> ELSE IncrementVersion((CHOOSE e \in was : TRUE).version)
           new == [at |-> created + 1, status |-> "pending", version |-> v]
           old == (docs \ changed) \cup {[d EXCEPT !.status = "ready"] : d \in changed}
           P == Pairs(docs)
           x == <<created + 1, v>>
<1>1. /\ versioning[s].op = "create"
      /\ docs' = old \cup {new} /\ created' = created + 1
      /\ doubled' = (doubled \/ \E d, e \in docs' : d.at # e.at /\ Text(d.version) = Text(e.version))
      /\ versioning' = [versioning EXCEPT ![s] = NotVersioning] /\ UNCHANGED <<cutoff, cleaned, comparison>>
  BY DEF CommitVersion, Reads
<1>2. /\ created \in Nat \ {0} /\ created \in Nat /\ cutoff \in Nat /\ doubled \in BOOLEAN
      /\ DocsFit(docs) /\ PairsFit(P, created) /\ HaveRead(versioning, created, cutoff)
  BY DEF VersionsIInv, DocsKept
<1>3. DocsFit(old) /\ Pairs(old) = P
  <2>1. changed \in SUBSET docs OBVIOUS
  <2>2. old = WithStatus(docs, changed, "ready") BY DEF WithStatus
  <2> HIDE DEF changed, P, old
  <2>3. DocsFit(WithStatus(docs, changed, "ready")) /\ Pairs(WithStatus(docs, changed, "ready")) = Pairs(docs)
    BY <1>2, <2>1, PairsOfChanged
  <2> QED BY <2>2, <2>3 DEF P
<1>4. v \in Versions
  <2>1. \A e \in was : e.version \in Versions BY <1>1, <1>2 DEF HaveRead
  <2>2. <<1, 0>> \in Versions BY DEF Versions
  <2>3. \A w \in Versions : IncrementVersion(w) \in Versions
    <3> TAKE w \in Versions
    <3>1. w[1] \in Nat \ {0} /\ w[2] \in 0 .. 9 BY DEF Versions
    <3>2. w[1] + 1 \in Nat \ {0} /\ (w[2] < 9 => w[2] + 1 \in 0 .. 9) /\ 0 \in 0 .. 9 BY <3>1
    <3>3. ~(w[2] >= 9) => w[2] < 9 BY <3>1
    <3> QED BY <3>1, <3>2, <3>3 DEF IncrementVersion, Versions
  <2>4. was # {} => (CHOOSE e \in was : TRUE) \in was OBVIOUS
  <2> QED BY <2>1, <2>2, <2>3, <2>4
<1> HIDE DEF v
<1>5. DocFits(new) /\ Pair(new) = x /\ new.at = created + 1 /\ new.version = v BY DEF DocFits, Pair
<1>6. Pairs(docs') = P \cup {x}
  <2> HIDE DEF x, new, P, old
  <2>1. Pairs(old \cup {new}) = Pairs(old) \cup {Pair(new)} BY DEF Pairs
  <2> QED BY <2>1, <1>1, <1>3, <1>5
<1>7. x \notin P /\ x[1] = created + 1 /\ x[2] = v /\ x = <<x[1], x[2]>>
  <2>1. x[1] = created + 1 /\ x[2] = v /\ x = <<x[1], x[2]>> OBVIOUS
  <2>2. created + 1 \notin 1 .. created BY <1>2
  <2> HIDE DEF x, P
  <2> QED BY <2>1, <2>2, <1>2 DEF PairsFit
<1>8. \A d \in old : d.at \in 1 .. created /\ d.at # created + 1
  <2> TAKE d \in old
  <2>1. Pair(d) \in Pairs(old) /\ Pair(d)[1] = d.at BY DEF Pairs, Pair
  <2>2. d.at \in 1 .. created BY <2>1, <1>2, <1>3 DEF PairsFit
  <2> QED BY <2>2, <1>2
<1> HIDE DEF x, new, P, old, was, changed
<1>9. DocsFit(docs')
  <2>1. \A d, e \in docs' : d.at = e.at => d = e BY <1>1, <1>3, <1>5, <1>8 DEF DocsFit
  <2> QED BY <2>1, <1>1, <1>3, <1>5 DEF DocsFit
<1>10. PairsFit(P \cup {x}, created + 1)
  <2>1. \A i \in 1 .. created : i \in 1 .. created + 1 /\ i # created + 1 BY <1>2
  <2>2. created + 1 \in 1 .. created + 1 BY <1>2
  <2>3. \A p \in P \cup {x} : p[1] \in 1 .. created + 1 /\ p[2] \in Versions /\ p = <<p[1], p[2]>>
    BY <1>2, <1>4, <1>7, <2>1, <2>2 DEF PairsFit
  <2>4. \A p, q \in P \cup {x} : p[1] = q[1] => p = q
    BY <1>2, <1>7, <2>1 DEF PairsFit
  <2> QED BY <2>3, <2>4 DEF PairsFit
<1>11. HaveRead(versioning', created + 1, cutoff)
  <2>1. NotVersioning.op # "create" /\ NotVersioning.op # "cleanup" BY DEF NotVersioning
  <2>2. HaveRead(versioning', created, cutoff) BY <1>1, <1>2, <2>1, HasReadMore
  <2> QED BY <1>2, <2>2, HasReadLater
<1>12. doubled' \in BOOLEAN /\ (~doubled' => ~doubled /\ ~ \E d, e \in docs' : d.at # e.at /\ Text(d.version) = Text(e.version))
  <2>1. doubled' = (doubled \/ \E d, e \in docs' : d.at # e.at /\ Text(d.version) = Text(e.version)) BY <1>1
  <2>2. doubled \in BOOLEAN BY <1>2
  <2> QED BY <2>1, <2>2, Zenon
<1>13. ASSUME ~doubled'
       PROVE  TextsDiffer(P \cup {x}) /\ Cardinality(P \cup {x}) >= KeptOf(created + 1) /\ SomeTopStays(P \cup {x}, versioning')
  <2>1. ~doubled /\ \A d, e \in docs' : d.at # e.at => Text(d.version) # Text(e.version) BY <1>12, <1>13
  <2>2. TextsDiffer(P \cup {x})
    <3>1. TextsDiffer(Pairs(docs'))
      <4> SUFFICES ASSUME NEW d \in docs', NEW e \in docs', Pair(d) # Pair(e)
                   PROVE  Text(Pair(d)[2]) # Text(Pair(e)[2])
        BY DEF TextsDiffer, Pairs
      <4>1. Pair(d)[2] = d.version /\ Pair(e)[2] = e.version BY DEF Pair
      <4>2. d.at # e.at BY <1>9 DEF DocsFit
      <4> QED BY <4>1, <4>2, <2>1
    <3> QED BY <3>1, <1>6
  <2>3. Cardinality(P) >= KeptOf(created) /\ SomeTopStays(P, versioning) BY <2>1 DEF VersionsIInv, DocsKept, P
  <2>4. IsFiniteSet(P) /\ Cardinality(P) \in Nat BY <1>2, PairsAreFinite
  <2>5. Cardinality(P \cup {x}) = Cardinality(P) + 1
    <3>1. Cardinality(P \cup {x}) = IF x \in P THEN Cardinality(P) ELSE Cardinality(P) + 1 BY <2>4, FS_AddElement
    <3> QED BY <3>1, <1>7
  <2>6. Cardinality(P \cup {x}) >= KeptOf(created + 1) BY <1>2, <2>3, <2>4, <2>5 DEF KeptOf, VersionAssumption
  <2>7. PICK T : Top(T, P) /\ Spares(T, versioning) BY <2>3 DEF SomeTopStays
  <2>8. PICK U : Top(U, P \cup {x}) /\ U \subseteq T \cup {x}
    <3>1. created + 1 \in Nat BY <1>2
    <3> QED BY <3>1, <1>7, <1>10, <2>2, <2>4, <2>7, TopGrows
  <2>9. Spares(U, versioning)
    <3> SUFFICES ASSUME NEW r \in Versioners, versioning[r].op = "cleanup", NEW p \in U, p[1] \in versioning[r].doomed PROVE FALSE
      BY DEF Spares
    <3>1. p[1] \in 1 .. created BY <1>2 DEF HaveRead
    <3>2. p # x BY <3>1, <1>2, <1>7
    <3>3. p \in T BY <3>2, <2>8
    <3> QED BY <3>3, <2>7 DEF Spares
  <2>10. Spares(U, versioning')
    <3>1. versioning = [r \in Versioners |-> versioning[r]] BY <1>2 DEF HaveRead
    <3>2. NotVersioning.op # "cleanup" BY DEF NotVersioning
    <3> QED BY <3>1, <3>2, <2>9, <1>1, SparesMore
  <2> QED BY <2>2, <2>6, <2>8, <2>10 DEF SomeTopStays
<1>14. DocsKept'
  <2>1. created' \in Nat \ {0} /\ created' = created + 1 /\ cutoff' = cutoff BY <1>1, <1>2
  <2> QED BY <2>1, <1>2, <1>6, <1>9, <1>10, <1>11, <1>12, <1>13 DEF DocsKept
<1>15. CleanedFits' BY <1>1 DEF VersionsIInv, CleanedFits
<1>16. HighestStays' BY <1>1, <1>12 DEF VersionsIInv, HighestStays
<1>17. DiffsAddUp' BY <1>1 DEF VersionsIInv, DiffsAddUp
<1> QED BY <1>14, <1>15, <1>16, <1>17 DEF VersionsIInv

(* There is a highest version. *)
LEMMA HighestExists ==
  ASSUME VersionAssumption, VersionsIInv, docs # {}
  PROVE  HighestVersion \in {d.version : d \in docs} /\ \A d \in docs : ~Higher(d.version, HighestVersion)
<1> DEFINE V == {d.version : d \in docs}
           R == {vw \in V \X V : Higher(vw[2], vw[1])}
<1>1. DocsFit(docs) /\ IsFiniteSet(Pairs(docs))
  <2>1. created \in Nat /\ PairsFit(Pairs(docs), created) /\ DocsFit(docs) BY DEF VersionsIInv, DocsKept
  <2>2. \A P : PairsFit(P, created) => IsFiniteSet(P) BY <2>1, PairsAreFinite
  <2> QED BY <2>1, <2>2
<1>2. IsFiniteSet(V)
  <2>1. IsFiniteSet(docs) BY <1>1, DocsArePairs
  <2> DEFINE f == [d \in docs |-> d.version]
  <2>2. f \in Surjection(docs, V) BY DEF Surjection
  <2> HIDE DEF f, V
  <2> QED BY <2>1, <2>2, FS_Surjection
<1>3. \A v \in V : v \in Versions
  <2> SUFFICES ASSUME NEW d \in docs PROVE d.version \in Versions OBVIOUS
  <2>1. Pair(d) \in Pairs(docs) /\ Pair(d)[2] = d.version BY DEF Pairs, Pair
  <2> QED BY <2>1 DEF VersionsIInv, DocsKept, PairsFit
<1>4. \A v \in V : v[1] \in Nat /\ v[2] \in Nat /\ v = <<v[1], v[2]>> BY <1>3 DEF Versions
<1>5. V # {} OBVIOUS
<1> HIDE DEF V
<1>6. \A v, w : <<v, w>> \in R <=> (v \in V /\ w \in V /\ Higher(w, v)) OBVIOUS
<1> HIDE DEF R
<1>7. IsOrder(R, V)
  <2>1. \A v, w \in V : v # w => <<v, w>> \in R \/ <<w, v>> \in R BY <1>4, <1>6 DEF Higher
  <2>2. \A v, w \in V : <<v, w>> \in R => <<w, v>> \notin R BY <1>4, <1>6 DEF Higher
  <2>3. \A u, v, w \in V : <<u, v>> \in R /\ <<v, w>> \in R => <<u, w>> \in R BY <1>4, <1>6 DEF Higher
  <2> QED BY <2>1, <2>2, <2>3 DEF IsOrder
<1>8. PICK v \in V : \A w \in V : w # v => <<w, v>> \in R BY <1>2, <1>5, <1>7, LastExists
<1>9. \A w \in V : ~Higher(w, v)
  <2> TAKE w \in V
  <2>1. CASE w = v BY <2>1, <1>4 DEF Higher
  <2>2. CASE w # v BY <2>2, <1>6, <1>7, <1>8 DEF IsOrder
  <2> QED BY <2>1, <2>2
<1>10. \E u \in V : \A d \in docs : ~Higher(d.version, u)
  <2>1. \A d \in docs : d.version \in V BY DEF V
  <2> QED BY <1>9, <2>1
<1>11. HighestVersion = CHOOSE u \in V : \A d \in docs : ~Higher(d.version, u) BY DEF HighestVersion, V
<1> QED BY <1>10, <1>11 DEF V

(* A cleanup deletes what it has doomed. *)
LEMMA CommitCleanupKeeps ==
  ASSUME VersionAssumption, VersionsIInv, NEW s \in Versioners, CommitCleanup(s)
  PROVE  VersionsIInv'
<1> DEFINE deleted == {d \in docs : d.at \in versioning[s].doomed}
           left == docs \ deleted
           P == Pairs(docs)
           Q == Pairs(left)
<1>1. /\ versioning[s].op = "cleanup" /\ docs' = left
      /\ cleaned' = {[doc |-> d, highest |-> HighestVersion] : d \in deleted}
      /\ versioning' = [versioning EXCEPT ![s] = NotVersioning]
      /\ created' = created /\ cutoff' = cutoff /\ doubled' = doubled /\ comparison' = comparison
  BY DEF CommitCleanup, Reads
<1>2. /\ created \in Nat \ {0} /\ created \in Nat /\ cutoff \in Nat /\ doubled \in BOOLEAN
      /\ DocsFit(docs) /\ PairsFit(P, created) /\ HaveRead(versioning, created, cutoff)
  BY DEF VersionsIInv, DocsKept
<1>3. Q \subseteq P BY DEF Pairs
<1>4. \A d \in docs : Pair(d) \in P /\ Pair(d)[1] = d.at /\ Pair(d)[2] = d.version BY DEF Pairs, Pair
<1>5. \A p \in P : p[1] \notin versioning[s].doomed => p \in Q
  <2> SUFFICES ASSUME NEW d \in docs, Pair(d)[1] \notin versioning[s].doomed PROVE Pair(d) \in Q
    BY DEF Pairs
  <2>1. d \in left BY <1>4
  <2> QED BY <2>1 DEF Pairs
<1>6. DocsFit(docs') BY <1>1, <1>2 DEF DocsFit
<1>7. Pairs(docs') = Q BY <1>1
<1>8. \A d \in deleted : d \in docs /\ d.at \in versioning[s].doomed OBVIOUS
<1> HIDE DEF P, Q, left, deleted
<1>9. IsFiniteSet(P) /\ Cardinality(P) \in Nat BY <1>2, PairsAreFinite
<1>10. PairsFit(Q, created) BY <1>2, <1>3 DEF PairsFit
<1>11. NotVersioning.op # "create" /\ NotVersioning.op # "cleanup" BY DEF NotVersioning
<1>12. HaveRead(versioning', created, cutoff) BY <1>1, <1>2, <1>11, HasReadMore
<1>13. ASSUME ~doubled
       PROVE  \E T : Top(T, P) /\ Spares(T, versioning) /\ \A d \in deleted : Pair(d) \notin T
  <2>1. PICK T : Top(T, P) /\ Spares(T, versioning)
    BY <1>13 DEF VersionsIInv, DocsKept, SomeTopStays, P
  <2>2. \A d \in deleted : Pair(d) \notin T
    <3> SUFFICES ASSUME NEW d \in deleted, Pair(d) \in T PROVE FALSE OBVIOUS
    <3>1. Pair(d)[1] \in versioning[s].doomed BY <1>4, <1>8
    <3> QED BY <3>1, <2>1, <1>1 DEF Spares
  <2> QED BY <2>1, <2>2
<1>14. ASSUME ~doubled
       PROVE  TextsDiffer(Q) /\ Cardinality(Q) >= KeptOf(created) /\ SomeTopStays(Q, versioning')
  <2>1. TextsDiffer(Q)
    <3>1. TextsDiffer(P) BY <1>14 DEF VersionsIInv, DocsKept, P
    <3> QED BY <3>1, <1>3 DEF TextsDiffer
  <2>2. PICK T : Top(T, P) /\ Spares(T, versioning) BY <1>13, <1>14
  <2>3. T \subseteq Q
    <3> SUFFICES ASSUME NEW p \in T PROVE p \in Q OBVIOUS
    <3>1. p \in P /\ p[1] \notin versioning[s].doomed BY <2>2, <1>1 DEF Top, Spares
    <3> QED BY <3>1, <1>5
  <2>4. Top(T, Q) BY <2>2, <2>3, <1>3, <1>9, TopStays
  <2>5. Spares(T, versioning')
    <3>1. versioning = [r \in Versioners |-> versioning[r]] BY <1>2 DEF HaveRead
    <3> QED BY <3>1, <2>2, <1>1, <1>11, SparesMore
  <2>6. Cardinality(Q) >= KeptOf(created)
    <3>1. IsFiniteSet(Q) /\ Cardinality(Q) \in Nat BY <1>3, <1>9, FS_Subset, FS_CardinalityType
    <3>2. Cardinality(T) <= Cardinality(Q) BY <2>3, <3>1, FS_Subset
    <3>3. Cardinality(T) = KeptOf(Cardinality(P)) BY <2>2 DEF Top
    <3>4. Cardinality(P) >= KeptOf(created) BY <1>14 DEF VersionsIInv, DocsKept, P
    <3> QED BY <1>2, <1>9, <3>1, <3>2, <3>3, <3>4 DEF KeptOf, VersionAssumption
  <2> QED BY <2>1, <2>4, <2>5, <2>6 DEF SomeTopStays
<1>15. DocsKept' BY <1>1, <1>2, <1>6, <1>7, <1>10, <1>12, <1>14 DEF DocsKept
<1>16. CleanedFits'
  <2>1. \A d \in deleted : d.at \in Nat /\ d.at <= cutoff
    <3> TAKE d \in deleted
    <3>1. d.at \in 1 .. created /\ d.at <= cutoff BY <1>1, <1>2, <1>8 DEF HaveRead
    <3> QED BY <3>1
  <2>2. \A c \in cleaned' : \E d \in deleted : c.doc = d BY <1>1
  <2> QED BY <2>1, <2>2, <1>1 DEF CleanedFits
<1>17. HighestStays'
  <2> SUFFICES ASSUME KeepLatest > 0, ~doubled, NEW c \in cleaned', c.highest[1] < 10, c.doc.version = c.highest
               PROVE  FALSE
    BY <1>1 DEF HighestStays
  <2>1. PICK d \in deleted : c = [doc |-> d, highest |-> HighestVersion] BY <1>1
  <2> DEFINE h == HighestVersion
  <2>2. d.version = h /\ h[1] < 10 BY <2>1
  <2>3. PICK T : Top(T, P) /\ Spares(T, versioning) /\ \A e \in deleted : Pair(e) \notin T BY <1>13
  <2>4. d \in docs /\ Pair(d) \in P /\ Pair(d) \notin T BY <2>3, <1>4, <1>8
  <2>5. PICK t \in T : TRUE
    <3>1. Cardinality(P) # 0 BY <1>9, <2>4, FS_EmptySet
    <3>2. Cardinality(T) # 0 BY <3>1, <2>3, <1>9 DEF Top, KeptOf, VersionAssumption
    <3>3. T # {} BY <3>2, FS_EmptySet
    <3> QED BY <3>3
  <2>6. t \in P /\ TextLess(Text(h), Text(t[2])) BY <2>2, <2>3, <2>4, <2>5, <1>4 DEF Top, Behind
  <2>7. PICK e \in docs : t = Pair(e) BY <2>6 DEF P, Pairs
  <2>8. ~Higher(t[2], h) BY <2>4, <2>7, <1>4, HighestExists
  <2>9. h \in Versions /\ t[2] \in Versions BY <2>2, <2>4, <2>6, <1>2, <1>4 DEF PairsFit
  <2> HIDE DEF h
  <2>10. h[1] \in Nat /\ t[2][1] \in Nat BY <2>9 DEF Versions
  <2>11. t[2][1] < 10 BY <2>2, <2>8, <2>10 DEF Higher
  <2> QED BY <2>2, <2>6, <2>8, <2>9, <2>11, ShortTextsOrder
<1>18. DiffsAddUp' BY <1>1 DEF VersionsIInv, DiffsAddUp
<1> QED BY <1>15, <1>16, <1>17, <1>18 DEF VersionsIInv

(* A comparison changes nothing but its answer. *)
LEMMA ComparisonKeeps ==
  ASSUME VersionsIInv, DiffsAddUp', UNCHANGED <<docs, created, cutoff, versioning, cleaned, doubled>>
  PROVE  VersionsIInv'
<1>1. DocsKept' BY DEF VersionsIInv, DocsKept
<1>2. CleanedFits' /\ HighestStays' BY DEF VersionsIInv, CleanedFits, HighestStays
<1> QED BY <1>1, <1>2 DEF VersionsIInv

(* compare_versions() adds up. *)
LEMMA CompareVersionsKeeps ==
  ASSUME VersionsIInv, CompareVersions
  PROVE  VersionsIInv'
<1>1. UNCHANGED <<docs, created, cutoff, versioning, cleaned, doubled>> BY DEF CompareVersions
<1>2. PICK before \in SUBSET {0, 1}, after \in SUBSET {0, 1} : \E old \in [before -> Contents], new \in [after -> Contents] :
       LET places == {i \in before \cup after : ChunkAt(old, i) # "" \/ ChunkAt(new, i) # ""} IN
       comparison' = [done |-> TRUE, old |-> old, new |-> new,
                      diffs |-> [i \in places |-> ChangeType(ChunkAt(old, i), ChunkAt(new, i))]]
  BY DEF CompareVersions
<1>3. PICK old \in [before -> Contents], new \in [after -> Contents] :
       LET places == {i \in before \cup after : ChunkAt(old, i) # "" \/ ChunkAt(new, i) # ""} IN
       comparison' = [done |-> TRUE, old |-> old, new |-> new,
                      diffs |-> [i \in places |-> ChangeType(ChunkAt(old, i), ChunkAt(new, i))]]
  BY <1>2
<1> DEFINE places == {i \in before \cup after : ChunkAt(old, i) # "" \/ ChunkAt(new, i) # ""}
           diffs == [i \in places |-> ChangeType(ChunkAt(old, i), ChunkAt(new, i))]
<1>4. comparison'.old = old /\ comparison'.new = new /\ comparison'.diffs = diffs BY <1>3
<1>5. DOMAIN diffs = places OBVIOUS
<1>6. \A i \in {0, 1} : i \in places => diffs[i] = ChangeType(ChunkAt(old, i), ChunkAt(new, i)) OBVIOUS
<1>7. \A i \in {0, 1} : i \notin places => ChunkAt(old, i) = "" /\ ChunkAt(new, i) = ""
  BY DEF ChunkAt
<1>8. \A i \in {0, 1} : i \in places => ChunkAt(old, i) # "" \/ ChunkAt(new, i) # "" OBVIOUS
<1> HIDE DEF diffs, places
<1>9. ASSUME NEW i \in {0, 1}
      PROVE  LET o == ChunkAt(old, i)
                 n == ChunkAt(new, i)
             IN IF i \in DOMAIN diffs
                THEN CASE diffs[i] = "added" -> o = "" /\ n # ""
                       [] diffs[i] = "removed" -> o # "" /\ n = ""
                       [] diffs[i] = "unchanged" -> Similar(o, n)
                       [] OTHER -> ~Similar(o, n)
                ELSE o = n
  <2> DEFINE o == ChunkAt(old, i)  n == ChunkAt(new, i)
  <2>1. CASE i \notin places BY <2>1, <1>5, <1>7
  <2>2. CASE i \in places
    <3>1. (o # "" \/ n # "") /\ diffs[i] = ChangeType(o, n) BY <2>2, <1>6, <1>8
    <3>2. i \in DOMAIN diffs BY <2>2, <1>5
    <3> HIDE DEF o, n
    <3>3. CASE diffs[i] = "added"
      <4>1. o = "" /\ n # "" BY <3>1, <3>3 DEF ChangeType
      <4> QED BY <4>1, <3>2, <3>3 DEF o, n
    <3>4. CASE diffs[i] = "removed"
      <4>1. o # "" /\ n = "" BY <3>1, <3>4 DEF ChangeType
      <4> QED BY <4>1, <3>2, <3>4 DEF o, n
    <3>5. CASE diffs[i] = "unchanged"
      <4>1. Similar(o, n) BY <3>1, <3>5 DEF ChangeType
      <4> QED BY <4>1, <3>2, <3>5 DEF o, n
    <3>6. CASE diffs[i] \notin {"added", "removed", "unchanged"}
      <4>1. ~Similar(o, n) BY <3>1, <3>6 DEF ChangeType
      <4> QED BY <4>1, <3>2, <3>6 DEF o, n
    <3> QED BY <3>3, <3>4, <3>5, <3>6
  <2> QED BY <2>1, <2>2
<1>10. DiffsAddUp' BY <1>4, <1>9 DEF DiffsAddUp
<1> QED BY <1>1, <1>10, ComparisonKeeps

(* Every step of the versions preserves the invariant. *)
LEMMA VersionsNextIInv ==
  ASSUME VersionAssumption, VersionsIInv, [VersionsNext]_versionVars
  PROVE  VersionsIInv'
<1>1. ASSUME NEW s \in Versioners, CreateNewVersion(s) PROVE VersionsIInv' BY <1>1, CreateVersionKeeps
<1>2. ASSUME NEW s \in Versioners, CommitVersion(s) PROVE VersionsIInv' BY <1>2, CommitVersionKeeps
<1>3. ASSUME NEW s \in Versioners, CleanupOldVersions(s) PROVE VersionsIInv' BY <1>3, CleanupKeeps
<1>4. ASSUME NEW s \in Versioners, CommitCleanup(s) PROVE VersionsIInv' BY <1>4, CommitCleanupKeeps
<1>5. ASSUME NEW s \in Versioners, AbortVersioning(s) PROVE VersionsIInv' BY <1>5, AbortKeeps
<1>6. CASE ProcessDocument BY <1>6, ProcessKeeps
<1>7. CASE TimeGoesBy BY <1>7, TimeKeeps
<1>8. CASE CompareVersions BY <1>8, CompareVersionsKeeps
<1>9. CASE Compared
  <2>1. comparison' = NotCompared /\ UNCHANGED <<docs, created, cutoff, versioning, cleaned, doubled>>
    BY <1>9 DEF Compared
  <2>2. DiffsAddUp' BY <2>1 DEF DiffsAddUp, NotCompared
  <2> QED BY <2>1, <2>2, ComparisonKeeps
<1>10. CASE UNCHANGED versionVars
  <2>1. UNCHANGED <<docs, created, cutoff, versioning, cleaned, doubled>> /\ comparison' = comparison BY <1>10 DEF versionVars
  <2>2. DiffsAddUp' BY <2>1 DEF VersionsIInv, DiffsAddUp
  <2> QED BY <2>1, <2>2, ComparisonKeeps
<1> QED BY <1>1, <1>2, <1>3, <1>4, <1>5, <1>6, <1>7, <1>8, <1>9, <1>10 DEF VersionsNext

(* The invariant implies what versions promise. *)
LEMMA VersionsIInvSound ==
  ASSUME VersionAssumption, VersionsIInv
  PROVE  VersionsAreKept
<1>1. ~doubled => Cardinality(docs) >= Min({KeepLatest, created})
  <2> SUFFICES ASSUME ~doubled PROVE Cardinality(docs) >= Min({KeepLatest, created}) OBVIOUS
  <2>1. created \in Nat /\ PairsFit(Pairs(docs), created) /\ DocsFit(docs) /\ Cardinality(Pairs(docs)) >= KeptOf(created)
    BY DEF VersionsIInv, DocsKept
  <2>2. \A P : PairsFit(P, created) => IsFiniteSet(P) /\ Cardinality(P) \in Nat BY <2>1, PairsAreFinite
  <2>3. Cardinality(docs) = Cardinality(Pairs(docs)) BY <2>1, <2>2, DocsArePairs
  <2> DEFINE M == {KeepLatest, created}
  <2>4. Min(M) \in M /\ \A m \in M : Min(M) <= m
    <3>1. M \in SUBSET Nat /\ M # {} BY <2>1 DEF VersionAssumption
    <3> HIDE DEF M
    <3> QED BY <3>1, LeastOf
  <2>5. \A c \in Nat : \A m : m \in M /\ c >= KeptOf(created) /\ (\A x \in M : m <= x) => c >= m
    BY <2>1 DEF KeptOf, VersionAssumption
  <2> HIDE DEF M
  <2>6. Cardinality(docs) >= Min(M) BY <2>1, <2>2, <2>3, <2>4, <2>5
  <2> QED BY <2>6 DEF M
<1>2. \A c \in cleaned : c.doc.at <= cutoff BY DEF VersionsIInv, CleanedFits
<1> QED BY <1>1, <1>2 DEF VersionsIInv, VersionsAreKept, EnoughIsKept

(* The inductive invariant holds in every reachable state. *)
LEMMA VersionsInvariance == VersionsSpec => []VersionsIInv
<1>1. VersionsInit => VersionsIInv
  BY VersionsInitIInv, VersionAssumption
<1>2. VersionsIInv /\ [VersionsNext]_versionVars => VersionsIInv'
  BY VersionsNextIInv, VersionAssumption
<1>3. QED BY <1>1, <1>2, PTL DEF VersionsSpec
=============================================================================
