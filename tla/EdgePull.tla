------------------------------ MODULE EdgePull ------------------------------
(***************************************************************************)
(* The pull half of the EdgeSyncService: sync_from_central() asks for what *)
(* was published since a watermark, stores the items one by one, each in a *)
(* transaction of its own, and then moves the watermark to the time by the *)
(* local clock, which is taken to agree with the server's.                 *)
(***************************************************************************)
EXTENDS Naturals, FiniteSets

CONSTANTS
  Updates,  \* what the central server publishes
  Pullers,  \* sync_from_central() calls that may be open at a time
  LastPull  \* bound of the clock

VARIABLES
  time,       \* moves with every event that reads it
  published,  \* when an update was published; 0 before
  watermark,  \* _last_sync_pull in memory, and the saved one
  pull,       \* the open calls
  pulled,     \* the updates in the sync_queue
  raced       \* history: published while a call was open

pullVars == <<time, published, watermark, pull, pulled, raced>>

NotPulling == [phase |-> "idle"]

PullInit ==
  /\ time = 1
  /\ published = [u \in Updates |-> 0]
  /\ watermark = [memory |-> 0, saved |-> 0]
  /\ pull = [p \in Pullers |-> NotPulling]
  /\ pulled = {} /\ raced = {}

Later == time < LastPull /\ time' = time + 1

Publish(u) ==
  /\ published[u] = 0
  /\ published' = [published EXCEPT ![u] = time]
  /\ raced' = IF \E p \in Pullers : pull[p] # NotPulling THEN raced \cup {u} ELSE raced
  /\ Later
  /\ UNCHANGED <<watermark, pull, pulled>>

(* The saved watermark is asked for when there is none in memory. *)
BeginPull(p) ==
  /\ pull[p] = NotPulling
  /\ pull' = [pull EXCEPT ![p] =
       [phase |-> "asking", since |-> IF watermark.memory # 0 THEN watermark.memory ELSE watermark.saved]]
  /\ UNCHANGED <<time, published, watermark, pulled, raced>>

ServerAnswers(p) ==
  /\ pull[p].phase = "asking"
  /\ pull' = [pull EXCEPT ![p] =
       [phase |-> "storing", items |-> {u \in Updates : published[u] > pull[p].since}]]
  /\ UNCHANGED <<time, published, watermark, pulled, raced>>

(* queue_for_sync(), with a new row however often the item was pulled. *)
StoreItem(p, u) ==
  /\ pull[p].phase = "storing" /\ u \in pull[p].items
  /\ pulled' = pulled \cup {u}
  /\ pull' = [pull EXCEPT ![p] = [phase |-> "storing", items |-> @.items \ {u}]]
  /\ UNCHANGED <<time, published, watermark, raced>>

(* No answer, an error status, or an item that cannot be stored: what was  *)
(* stored before it stays, and the watermark too.                          *)
PullFails(p) ==
  /\ pull[p].phase \in {"asking", "storing"}
  /\ pull' = [pull EXCEPT ![p] = NotPulling]
  /\ UNCHANGED <<time, published, watermark, pulled, raced>>

(* Mutant of MoveWatermark: also when items are left. *)
MoveWatermarkEarly(p) ==
  /\ pull[p].phase = "storing"
  /\ watermark' = [watermark EXCEPT !.memory = time]
  /\ pull' = [pull EXCEPT ![p] = [phase |-> "saving", mark |-> time]]
  /\ Later
  /\ UNCHANGED <<published, pulled, raced>>

MoveWatermark(p) ==
  /\ pull[p].phase = "storing" /\ pull[p].items = {}
  /\ watermark' = [watermark EXCEPT !.memory = time]
  /\ pull' = [pull EXCEPT ![p] = [phase |-> "saving", mark |-> time]]
  /\ Later
  /\ UNCHANGED <<published, pulled, raced>>

(* A call saves its own mark, over a later one if another has overtaken    *)
(* it; a failure leaves what was saved.                                    *)
SaveWatermark(p) ==
  /\ pull[p].phase = "saving"
  /\ watermark' \in {watermark, [watermark EXCEPT !.saved = pull[p].mark]}
  /\ pull' = [pull EXCEPT ![p] = NotPulling]
  /\ UNCHANGED <<time, published, pulled, raced>>

RestartPull ==
  /\ watermark' = [watermark EXCEPT !.memory = 0]
  /\ pull' = [p \in Pullers |-> NotPulling]
  /\ UNCHANGED <<time, published, pulled, raced>>

PullNext ==
  \/ RestartPull
  \/ \E u \in Updates : Publish(u)
  \/ \E p \in Pullers :
       \/ BeginPull(p) \/ ServerAnswers(p) \/ PullFails(p) \/ MoveWatermark(p) \/ SaveWatermark(p)
       \/ \E u \in Updates : StoreItem(p, u)

PullSpec == PullInit /\ [][PullNext]_pullVars

-----------------------------------------------------------------------------
(* However calls overlap, fail in the middle and are cut by a restart, an  *)
(* update behind the watermark has been stored, unless it was published    *)
(* while a call was open (those may be behind it for good).                *)
PullMissesNothing ==
  \A u \in Updates \ raced :
    published[u] # 0 /\ (published[u] < watermark.memory \/ published[u] < watermark.saved) => u \in pulled
=============================================================================
