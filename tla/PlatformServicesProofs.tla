----------------------- MODULE PlatformServicesProofs -----------------------
(***************************************************************************)
(* Proofs about the services around the agents: edge synchronisation, the  *)
(* caches, and, with what is proved of the services of a tenant, the       *)
(* invariants of the services together.                                    *)
(***************************************************************************)
EXTENDS PlatformServices, TenantServicesProofs, RecordsProofs

-----------------------------------------------------------------------------
(* Edge push: the inductive invariant.  It counts, of each entry, the      *)
(* calls that are still going to count it, and how often.                  *)

Sends(x, e) == x # NoPush /\ e \in x.todo

Counts(x, e) ==
  /\ x # NoPush
  /\ e \in x.todo \/ (x.phase # "failing" /\ e \in x.batch)

CountsTwice(x, e) == x # NoPush /\ x.phase # "failing" /\ e \in x.todo

Senders(calls, e) == {p \in Pushers : Sends(calls[p], e)}
Counters(calls, e) == {p \in Pushers : Counts(calls[p], e)}
Twice(calls, e) == {p \in Pushers : CountsTwice(calls[p], e)}

FitsPush(x, reached) ==
  x # NoPush =>
    /\ x.todo # {} /\ x.todo \subseteq x.batch
    /\ x.phase = "posting" => x.todo = x.batch
    /\ x.phase = "marking" => x.batch \subseteq reached

(* What the budget of an entry is spent on: the attempts that were counted *)
(* or are going to be, or were cut short by an interruption, of which each *)
(* cuts one per call; and room for what the calls are going to count.      *)
WithinBudget(tried, tally, calls, cut, e) ==
  /\ tried <= tally + Cardinality(Senders(calls, e)) + cut * Cardinality(Pushers)
  /\ tally + Cardinality(Counters(calls, e)) + Cardinality(Twice(calls, e))
       <= MaxRetry - 1 + 2 * Cardinality(Pushers)
  /\ tried <= MaxRetry - 1 + Cardinality(Pushers) + cut * Cardinality(Pushers)

PushIInv ==
  /\ PushTypeOK
  /\ IsFiniteSet(Queued)
  /\ SettledWasReceived
  /\ \A p \in Pushers : FitsPush(push[p], received)
  /\ \A e \in Entries : WithinBudget(attempts[e], retry_count[e], push, interruptions, e)

-----------------------------------------------------------------------------
(* Edge push: counting calls.                                              *)

SendBit(x, e) == IF Sends(x, e) THEN 1 ELSE 0
CountBit(x, e) == IF Counts(x, e) THEN 1 ELSE 0
TwiceBit(x, e) == IF CountsTwice(x, e) THEN 1 ELSE 0

(* The number of calls of which something holds, when one changes. *)
LEMMA CallCount ==
  ASSUME NEW P, IsFiniteSet(P), NEW A, A \subseteq P, NEW B, B \subseteq P, NEW p, p \in P,
         B \ {p} = A \ {p}, NEW a \in {0, 1}, NEW b \in {0, 1}, p \in A <=> a = 1, p \in B <=> b = 1
  PROVE  /\ Cardinality(A) \in 0 .. Cardinality(P)
         /\ Cardinality(B) = Cardinality(A) + b - a
<1> DEFINE rest == A \ {p}
<1>1. IsFiniteSet(A) /\ IsFiniteSet(B) /\ IsFiniteSet(rest) /\ Cardinality(P) \in Nat
  BY FS_Subset, FS_CardinalityType
<1>2. Cardinality(A) \in Nat /\ Cardinality(B) \in Nat /\ Cardinality(rest) \in Nat
  BY <1>1, FS_CardinalityType
<1>3. Cardinality(A) <= Cardinality(P)
  BY FS_Subset
<1>4. p \notin rest /\ (A = IF a = 1 THEN rest \cup {p} ELSE rest) /\ (B = IF b = 1 THEN rest \cup {p} ELSE rest)
  OBVIOUS
<1>5. Cardinality(rest \cup {p}) = Cardinality(rest) + 1
  BY <1>1, <1>4, FS_AddElement
<1> HIDE DEF rest
<1>6. Cardinality(A) = Cardinality(rest) + a
  <2>1. CASE a = 1
    BY <1>4, <1>5, <2>1
  <2>2. CASE a = 0
    BY <1>2, <1>4, <2>2
  <2>3. QED BY <2>1, <2>2
<1>7. Cardinality(B) = Cardinality(rest) + b
  <2>1. CASE b = 1
    BY <1>4, <1>5, <2>1
  <2>2. CASE b = 0
    BY <1>2, <1>4, <2>2
  <2>3. QED BY <2>1, <2>2
<1>8. Cardinality(B) = Cardinality(A) + b - a
  BY <1>2, <1>6, <1>7
<1>9. QED BY <1>1, <1>2, <1>3, <1>8

(* A call becomes x: how the counts of an entry change. *)
LEMMA CallsChange ==
  ASSUME NEW calls, NEW p \in Pushers, NEW x, NEW e,
         NEW after, after[p] = x, \A q \in Pushers \ {p} : after[q] = calls[q]
  PROVE  /\ Cardinality(Pushers) \in Nat \ {0}
         /\ Cardinality(Senders(calls, e)) \in 0 .. Cardinality(Pushers)
         /\ Cardinality(Counters(calls, e)) \in 0 .. Cardinality(Pushers)
         /\ Cardinality(Twice(calls, e)) \in 0 .. Cardinality(Pushers)
         /\ Cardinality(Senders(after, e)) =
              Cardinality(Senders(calls, e)) + SendBit(x, e) - SendBit(calls[p], e)
         /\ Cardinality(Counters(after, e)) =
              Cardinality(Counters(calls, e)) + CountBit(x, e) - CountBit(calls[p], e)
         /\ Cardinality(Twice(after, e)) =
              Cardinality(Twice(calls, e)) + TwiceBit(x, e) - TwiceBit(calls[p], e)
<1>1. IsFiniteSet(Pushers) /\ Cardinality(Pushers) \in Nat \ {0}
  BY PushAssumption, FS_CardinalityType, FS_EmptySet
<1>3. /\ Cardinality(Senders(calls, e)) \in 0 .. Cardinality(Pushers)
      /\ Cardinality(Senders(after, e)) =
           Cardinality(Senders(calls, e)) + SendBit(x, e) - SendBit(calls[p], e)
  <2> DEFINE A == Senders(calls, e)
             B == Senders(after, e)
             a == SendBit(calls[p], e)
             b == SendBit(x, e)
  <2>1. A \subseteq Pushers /\ B \subseteq Pushers /\ B \ {p} = A \ {p}
    BY DEF Senders
  <2>2. a \in {0, 1} /\ b \in {0, 1} /\ (p \in A <=> a = 1) /\ (p \in B <=> b = 1)
    BY DEF Senders, SendBit
  <2> HIDE DEF A, B, a, b
  <2>3. Cardinality(A) \in 0 .. Cardinality(Pushers) /\ Cardinality(B) = Cardinality(A) + b - a
    BY <1>1, <2>1, <2>2, CallCount
  <2>4. QED BY <2>3 DEF A, B, a, b
<1>4. /\ Cardinality(Counters(calls, e)) \in 0 .. Cardinality(Pushers)
      /\ Cardinality(Counters(after, e)) =
           Cardinality(Counters(calls, e)) + CountBit(x, e) - CountBit(calls[p], e)
  <2> DEFINE A == Counters(calls, e)
             B == Counters(after, e)
             a == CountBit(calls[p], e)
             b == CountBit(x, e)
  <2>1. A \subseteq Pushers /\ B \subseteq Pushers /\ B \ {p} = A \ {p}
    BY DEF Counters
  <2>2. a \in {0, 1} /\ b \in {0, 1} /\ (p \in A <=> a = 1) /\ (p \in B <=> b = 1)
    BY DEF Counters, CountBit
  <2> HIDE DEF A, B, a, b
  <2>3. Cardinality(A) \in 0 .. Cardinality(Pushers) /\ Cardinality(B) = Cardinality(A) + b - a
    BY <1>1, <2>1, <2>2, CallCount
  <2>4. QED BY <2>3 DEF A, B, a, b
<1>5. /\ Cardinality(Twice(calls, e)) \in 0 .. Cardinality(Pushers)
      /\ Cardinality(Twice(after, e)) =
           Cardinality(Twice(calls, e)) + TwiceBit(x, e) - TwiceBit(calls[p], e)
  <2> DEFINE A == Twice(calls, e)
             B == Twice(after, e)
             a == TwiceBit(calls[p], e)
             b == TwiceBit(x, e)
  <2>1. A \subseteq Pushers /\ B \subseteq Pushers /\ B \ {p} = A \ {p}
    BY DEF Twice
  <2>2. a \in {0, 1} /\ b \in {0, 1} /\ (p \in A <=> a = 1) /\ (p \in B <=> b = 1)
    BY DEF Twice, TwiceBit
  <2> HIDE DEF A, B, a, b
  <2>3. Cardinality(A) \in 0 .. Cardinality(Pushers) /\ Cardinality(B) = Cardinality(A) + b - a
    BY <1>1, <2>1, <2>2, CallCount
  <2>4. QED BY <2>3 DEF A, B, a, b
<1>6. QED BY <1>1, <1>3, <1>4, <1>5

(* The budget is kept by a call that becomes x while it counts what it no  *)
(* longer has to, and by one that begins.                                  *)
LEMMA BudgetStep ==
  ASSUME NEW calls, DOMAIN calls = Pushers, NEW p \in Pushers, NEW x, NEW e,
         NEW tried \in Nat, NEW tally \in Nat, NEW cut \in Nat,
         WithinBudget(tried, tally, calls, cut, e),
         NEW more \in {0, 1},
         SendBit(calls[p], e) <= SendBit(x, e) + more,
         more + CountBit(x, e) + TwiceBit(x, e)
           <= CountBit(calls[p], e) + TwiceBit(calls[p], e)
  PROVE  WithinBudget(tried, tally + more, [calls EXCEPT ![p] = x], cut, e)
<1> DEFINE after == [calls EXCEPT ![p] = x]
           all == Cardinality(Pushers)
           lost == cut * all
<1>a. after[p] = x /\ \A q \in Pushers \ {p} : after[q] = calls[q]
  OBVIOUS
<1> HIDE DEF after
<1>1. all \in Nat \ {0} /\ lost \in Nat
  <2>1. all \in Nat \ {0}
    BY <1>a, CallsChange
  <2>2. QED BY <2>1
<1>2. /\ Cardinality(Senders(calls, e)) \in 0 .. all
      /\ Cardinality(Counters(calls, e)) \in 0 .. all
      /\ Cardinality(Twice(calls, e)) \in 0 .. all
  BY <1>a, CallsChange
<1>3. /\ Cardinality(Senders(after, e)) =
           Cardinality(Senders(calls, e)) + SendBit(x, e) - SendBit(calls[p], e)
      /\ Cardinality(Counters(after, e)) =
           Cardinality(Counters(calls, e)) + CountBit(x, e) - CountBit(calls[p], e)
      /\ Cardinality(Twice(after, e)) =
           Cardinality(Twice(calls, e)) + TwiceBit(x, e) - TwiceBit(calls[p], e)
  BY <1>a, CallsChange
<1>4. /\ tried <= tally + Cardinality(Senders(calls, e)) + lost
      /\ tally + Cardinality(Counters(calls, e)) + Cardinality(Twice(calls, e)) <= MaxRetry - 1 + 2 * all
      /\ tried <= MaxRetry - 1 + all + lost
  BY DEF WithinBudget
<1>5. /\ SendBit(x, e) \in {0, 1} /\ SendBit(calls[p], e) \in {0, 1}
      /\ CountBit(x, e) \in {0, 1} /\ CountBit(calls[p], e) \in {0, 1}
      /\ TwiceBit(x, e) \in {0, 1} /\ TwiceBit(calls[p], e) \in {0, 1}
  BY DEF SendBit, CountBit, TwiceBit
<1>6. MaxRetry \in Nat
  BY PushAssumption
<1> HIDE DEF all, lost
<1>7. tried <= (tally + more) + Cardinality(Senders(after, e)) + lost
  BY <1>1, <1>2, <1>3, <1>4, <1>5
<1>8. (tally + more) + Cardinality(Counters(after, e)) + Cardinality(Twice(after, e)) <= MaxRetry - 1 + 2 * all
  BY <1>1, <1>2, <1>3, <1>4, <1>5, <1>6
<1>9. QED BY <1>4, <1>7, <1>8 DEF WithinBudget, after, all, lost

(* An interruption cuts at most one attempt of each call. *)
LEMMA BudgetCut ==
  ASSUME NEW calls, NEW after, NEW e, NEW tried \in Nat, NEW tally \in Nat, NEW cut \in Nat,
         WithinBudget(tried, tally, calls, cut, e),
         \A q \in Pushers : after[q] \in {calls[q], NoPush}
  PROVE  WithinBudget(tried, tally, after, cut + 1, e)
<1> DEFINE all == Cardinality(Pushers)
           lost == cut * all
<1>1. IsFiniteSet(Pushers) /\ all \in Nat \ {0} /\ lost \in Nat
  <2>1. IsFiniteSet(Pushers) /\ all \in Nat \ {0}
    BY PushAssumption, FS_CardinalityType, FS_EmptySet
  <2>2. QED BY <2>1
<1>2. Senders(after, e) \subseteq Senders(calls, e) /\ Senders(calls, e) \subseteq Pushers
  BY DEF Senders, Sends
<1>3. Counters(after, e) \subseteq Counters(calls, e) /\ Counters(calls, e) \subseteq Pushers
  BY DEF Counters, Counts
<1>4. Twice(after, e) \subseteq Twice(calls, e) /\ Twice(calls, e) \subseteq Pushers
  BY DEF Twice, CountsTwice
<1>5. /\ IsFiniteSet(Senders(calls, e)) /\ IsFiniteSet(Counters(calls, e)) /\ IsFiniteSet(Twice(calls, e))
      /\ Cardinality(Senders(calls, e)) <= all
  BY <1>1, <1>2, <1>3, <1>4, FS_Subset
<1>6. /\ IsFiniteSet(Senders(after, e)) /\ IsFiniteSet(Counters(after, e)) /\ IsFiniteSet(Twice(after, e))
      /\ Cardinality(Counters(after, e)) <= Cardinality(Counters(calls, e))
      /\ Cardinality(Twice(after, e)) <= Cardinality(Twice(calls, e))
  BY <1>2, <1>3, <1>4, <1>5, FS_Subset
<1>7. /\ Cardinality(Senders(calls, e)) \in Nat /\ Cardinality(Senders(after, e)) \in Nat
      /\ Cardinality(Counters(calls, e)) \in Nat /\ Cardinality(Counters(after, e)) \in Nat
      /\ Cardinality(Twice(calls, e)) \in Nat /\ Cardinality(Twice(after, e)) \in Nat
  BY <1>5, <1>6, FS_CardinalityType
<1>8. (cut + 1) * all = lost + all
  BY <1>1
<1>9. /\ tried <= tally + Cardinality(Senders(calls, e)) + lost
      /\ tally + Cardinality(Counters(calls, e)) + Cardinality(Twice(calls, e)) <= MaxRetry - 1 + 2 * all
      /\ tried <= MaxRetry - 1 + all + lost
  BY DEF WithinBudget
<1>10. MaxRetry \in Nat
  BY PushAssumption
<1> HIDE DEF all, lost
<1>11. tried <= tally + Cardinality(Senders(after, e)) + (lost + all)
  BY <1>1, <1>5, <1>7, <1>9
<1>12. tally + Cardinality(Counters(after, e)) + Cardinality(Twice(after, e)) <= MaxRetry - 1 + 2 * all
  BY <1>1, <1>6, <1>7, <1>9, <1>10
<1>13. tried <= MaxRetry - 1 + all + (lost + all)
  BY <1>1, <1>9, <1>10
<1>14. QED BY <1>8, <1>11, <1>12, <1>13 DEF WithinBudget, all, lost

-----------------------------------------------------------------------------
(* Edge push: the steps.                                                   *)

(* The invariant holds before the first push. *)
LEMMA PushInitIInv == PushInit => PushIInv
<1> SUFFICES ASSUME PushInit PROVE PushIInv
  OBVIOUS
<1>1. IsFiniteSet(Pushers) /\ Cardinality(Pushers) \in Nat \ {0} /\ MaxRetry \in Nat \ {0} /\ MaxInterruptions \in Nat
  BY PushAssumption, FS_CardinalityType, FS_EmptySet
<1>2. PushTypeOK
  BY <1>1 DEF PushInit, PushTypeOK
<1>3. SettledWasReceived /\ \A p \in Pushers : push[p] = NoPush
  BY DEF PushInit, SettledWasReceived
<1>4. \A p \in Pushers : FitsPush(push[p], received)
  BY <1>3 DEF FitsPush
<1>5. ASSUME NEW e \in Entries PROVE WithinBudget(attempts[e], retry_count[e], push, interruptions, e)
  <2>1. Senders(push, e) = {} /\ Counters(push, e) = {} /\ Twice(push, e) = {}
    BY <1>3 DEF Senders, Counters, Twice, Sends, Counts, CountsTwice
  <2>2. attempts[e] = 0 /\ retry_count[e] = 0 /\ interruptions = 0 /\ Cardinality({}) = 0
    BY FS_EmptySet DEF PushInit
  <2>3. QED BY <1>1, <2>1, <2>2 DEF WithinBudget
<1>6. IsFiniteSet(Queued)
  <2>1. Queued = {}
    BY DEF PushInit, Queued
  <2>2. QED BY <2>1, FS_EmptySet
<1>7. QED BY <1>2, <1>3, <1>4, <1>5, <1>6 DEF PushIInv

(* A call goes on to x without touching a row. *)
LEMMA MoveIInv ==
  ASSUME PushIInv, NEW p \in Pushers, NEW x \in Push, push' = [push EXCEPT ![p] = x],
         UNCHANGED <<rows, attempts, interruptions>>,
         received \subseteq received', received' \subseteq Entries, FitsPush(x, received'),
         \A e \in Entries :
           /\ SendBit(push[p], e) <= SendBit(x, e)
           /\ CountBit(x, e) + TwiceBit(x, e) <= CountBit(push[p], e) + TwiceBit(push[p], e)
  PROVE  PushIInv'
<1>1. PushTypeOK'
  BY DEF PushIInv, PushTypeOK, rows
<1>2. SettledWasReceived'
  BY DEF PushIInv, SettledWasReceived, rows
<1>3. \A q \in Pushers : FitsPush(push[q], received)'
  BY DEF PushIInv, PushTypeOK, FitsPush
<1>4. ASSUME NEW e \in Entries PROVE WithinBudget(attempts[e], retry_count[e], push, interruptions, e)'
  <2>1. /\ DOMAIN push = Pushers /\ attempts[e] \in Nat /\ retry_count[e] \in Nat /\ interruptions \in Nat
        /\ WithinBudget(attempts[e], retry_count[e], push, interruptions, e)
    BY DEF PushIInv, PushTypeOK
  <2>2. SendBit(push[p], e) <= SendBit(x, e) + 0
    BY DEF SendBit
  <2>3. 0 + CountBit(x, e) + TwiceBit(x, e) <= CountBit(push[p], e) + TwiceBit(push[p], e)
    BY DEF CountBit, TwiceBit
  <2>4. WithinBudget(attempts[e], retry_count[e] + 0, [push EXCEPT ![p] = x], interruptions, e)
    BY <2>1, <2>2, <2>3, BudgetStep
  <2>5. QED BY <2>1, <2>4 DEF rows
<1>5. QED BY <1>1, <1>2, <1>3, <1>4 DEF PushIInv, Queued, rows

(* A call updates the row of an entry it still has to: one that it has     *)
(* sent, if the row is settled.                                            *)
LEMMA UpdateIInv ==
  ASSUME PushIInv, NEW p \in Pushers, push[p] # NoPush, push[p].phase # "posting",
         NEW e \in push[p].todo, NEW new \in {"failed", "synced", "conflict"},
         new # "failed" => push[p].phase = "marking",
         UpdateItem(p, e, new, 1)
  PROVE  PushIInv'
<1> DEFINE c == push[p]
           x == IF c.todo = {e} THEN NoPush ELSE Pushing(c.phase, c.batch, c.todo \ {e}, c.conflicts)
<1>1. /\ c \in Push /\ e \in Entries /\ c.todo \subseteq c.batch
      /\ c.phase = "marking" => c.batch \subseteq received
  BY DEF PushIInv, PushTypeOK, FitsPush, Push
<1>2. /\ x \in Push \cup {NoPush} /\ FitsPush(x, received)
      /\ x # NoPush => x.phase = c.phase /\ x.batch = c.batch /\ x.todo = c.todo \ {e}
      /\ x = NoPush => c.todo = {e}
  <2>1. CASE c.todo = {e}
    BY <2>1 DEF FitsPush
  <2>2. CASE c.todo # {e}
    <3>1. x = Pushing(c.phase, c.batch, c.todo \ {e}, c.conflicts)
      BY <2>2
    <3>2. /\ x \in Push /\ x.phase = c.phase /\ x.batch = c.batch /\ x.todo = c.todo \ {e}
          /\ x.phase # "posting"
      BY <1>1, <3>1 DEF Push, Pushing
    <3>3. x # NoPush
      BY <3>2 DEF Push, NoPush
    <3>4. x.todo # {}
      BY <2>2, <3>2
    <3>5. QED BY <1>1, <3>2, <3>3, <3>4 DEF FitsPush
  <2>3. QED BY <2>1, <2>2
<1>3. push' = [push EXCEPT ![p] = x]
  BY DEF UpdateItem
<1> HIDE DEF x
<1>4. PushTypeOK'
  <2>1. status' = [status EXCEPT ![e] = new] /\ retry_count' = [retry_count EXCEPT ![e] = retry_count[e] + 1]
        /\ UNCHANGED <<created_at, received, attempts, interruptions>>
    BY DEF UpdateItem
  <2>2. push' \in [Pushers -> Push \cup {NoPush}]
    BY <1>2, <1>3 DEF PushIInv, PushTypeOK
  <2>3. QED BY <1>1, <2>1, <2>2 DEF PushIInv, PushTypeOK
<1>5. SettledWasReceived'
  BY <1>1 DEF PushIInv, SettledWasReceived, PushTypeOK, UpdateItem
<1>6. \A q \in Pushers : FitsPush(push[q], received)'
  BY <1>2, <1>3 DEF PushIInv, PushTypeOK, UpdateItem
<1>7. ASSUME NEW f \in Entries PROVE WithinBudget(attempts[f], retry_count[f], push, interruptions, f)'
  <2> DEFINE more == IF f = e THEN 1 ELSE 0
  <2>1. /\ DOMAIN push = Pushers /\ attempts[f] \in Nat /\ retry_count[f] \in Nat /\ interruptions \in Nat
        /\ WithinBudget(attempts[f], retry_count[f], push, interruptions, f)
    BY DEF PushIInv, PushTypeOK
  <2>2. retry_count'[f] = retry_count[f] + more /\ attempts' = attempts /\ interruptions' = interruptions
    BY <2>1 DEF PushIInv, PushTypeOK, UpdateItem
  <2>3. SendBit(push[p], f) <= SendBit(x, f) + more
    BY <1>2 DEF SendBit, Sends
  <2>4. more + CountBit(x, f) + TwiceBit(x, f) <= CountBit(push[p], f) + TwiceBit(push[p], f)
    <3>1. CASE f = e
      <4>1. ~CountsTwice(x, f) /\ Counts(c, f) /\ (Counts(x, f) => CountsTwice(c, f))
        BY <1>1, <1>2, <3>1 DEF Counts, CountsTwice, Push
      <4>2. QED BY <3>1, <4>1 DEF CountBit, TwiceBit
    <3>2. CASE f # e
      <4>1. (Counts(x, f) => Counts(c, f)) /\ (CountsTwice(x, f) => CountsTwice(c, f))
        BY <1>2, <3>2 DEF Counts, CountsTwice
      <4>2. QED BY <3>2, <4>1 DEF CountBit, TwiceBit
    <3>3. QED BY <3>1, <3>2
  <2>5. more \in {0, 1}
    OBVIOUS
  <2> HIDE DEF more
  <2>6. WithinBudget(attempts[f], retry_count[f] + more, [push EXCEPT ![p] = x], interruptions, f)
    BY <2>1, <2>3, <2>4, <2>5, BudgetStep
  <2>7. QED BY <1>3, <2>2, <2>6
<1>8. IsFiniteSet(Queued')
  <2>1. Queued' \subseteq Queued \cup {e}
    BY DEF Queued, UpdateItem, PushIInv, PushTypeOK
  <2>2. IsFiniteSet(Queued \cup {e})
    BY FS_AddElement DEF PushIInv
  <2>3. QED BY <2>1, <2>2, FS_Subset
<1>9. QED BY <1>4, <1>5, <1>6, <1>7, <1>8 DEF PushIInv

(* A push selects its batches. *)
LEMMA BeginIInv ==
  ASSUME PushIInv, NEW p \in Pushers, BeginPush(p)
  PROVE  PushIInv'
<1>1. PICK batch \in Batches \ {{}} :
        /\ push' = [push EXCEPT ![p] = Pushing("posting", batch, batch, {})]
        /\ attempts' = [e \in Entries |-> IF e \in batch /\ attempts[e] <= AttemptBound
                                          THEN attempts[e] + 1 ELSE attempts[e]]
  BY DEF BeginPush
<1> DEFINE x == Pushing("posting", batch, batch, {})
<1>2. /\ batch # {} /\ batch \subseteq Entries
      /\ \A e \in batch : Sendable(e)
      /\ push[p] = NoPush /\ UNCHANGED <<rows, received, interruptions>>
  BY DEF BeginPush, Batches
<1>3. x \in Push /\ x # NoPush /\ FitsPush(x, received)
  BY <1>2 DEF Push, NoPush, FitsPush, Pushing
<1>4. PushTypeOK'
  BY <1>1, <1>2, <1>3 DEF PushIInv, PushTypeOK, rows
<1>5. SettledWasReceived'
  BY <1>2 DEF PushIInv, SettledWasReceived, rows
<1>6. \A q \in Pushers : FitsPush(push[q], received)'
  BY <1>1, <1>2, <1>3 DEF PushIInv, PushTypeOK, FitsPush
<1>7. ASSUME NEW e \in Entries PROVE WithinBudget(attempts[e], retry_count[e], push, interruptions, e)'
  <2> DEFINE all == Cardinality(Pushers)
             lost == interruptions * all
             after == [push EXCEPT ![p] = x]
  <2>1. /\ DOMAIN push = Pushers /\ attempts[e] \in Nat /\ retry_count[e] \in Nat /\ interruptions \in Nat
        /\ WithinBudget(attempts[e], retry_count[e], push, interruptions, e)
        /\ MaxRetry \in Nat \ {0}
    BY PushAssumption DEF PushIInv, PushTypeOK
  <2>2. after[p] = x /\ \A q \in Pushers \ {p} : after[q] = push[q]
    BY <2>1
  <2> HIDE DEF after
  <2>3. /\ all \in Nat \ {0} /\ Cardinality(Senders(push, e)) \in 0 .. all
        /\ Cardinality(Senders(after, e)) = Cardinality(Senders(push, e)) + SendBit(x, e) - SendBit(push[p], e)
        /\ Cardinality(Counters(after, e)) = Cardinality(Counters(push, e)) + CountBit(x, e) - CountBit(push[p], e)
        /\ Cardinality(Twice(after, e)) = Cardinality(Twice(push, e)) + TwiceBit(x, e) - TwiceBit(push[p], e)
    BY <2>2, CallsChange
  <2>4. /\ Cardinality(Senders(after, e)) \in 0 .. all
        /\ Cardinality(Counters(after, e)) \in 0 .. all /\ Cardinality(Counters(push, e)) \in 0 .. all
        /\ Cardinality(Twice(after, e)) \in 0 .. all /\ Cardinality(Twice(push, e)) \in 0 .. all
    BY <2>2, CallsChange
  <2>5. lost \in Nat
    BY <2>1, <2>3
  <2>6. SendBit(push[p], e) = 0 /\ CountBit(push[p], e) = 0 /\ TwiceBit(push[p], e) = 0
    BY <1>2 DEF SendBit, CountBit, TwiceBit, Sends, Counts, CountsTwice
  <2>7. /\ SendBit(x, e) = (IF e \in batch THEN 1 ELSE 0)
        /\ CountBit(x, e) = (IF e \in batch THEN 1 ELSE 0)
        /\ TwiceBit(x, e) = (IF e \in batch THEN 1 ELSE 0)
    BY <1>3 DEF SendBit, CountBit, TwiceBit, Sends, Counts, CountsTwice, Pushing
  <2>8. e \in batch => retry_count[e] < MaxRetry
    BY <1>2 DEF Sendable
  <2>9. /\ attempts[e] <= retry_count[e] + Cardinality(Senders(push, e)) + lost
        /\ retry_count[e] + Cardinality(Counters(push, e)) + Cardinality(Twice(push, e)) <= MaxRetry - 1 + 2 * all
        /\ attempts[e] <= MaxRetry - 1 + all + lost
    BY <2>1 DEF WithinBudget
  <2>10. attempts'[e] \in Nat /\ attempts'[e] <= attempts[e] + (IF e \in batch THEN 1 ELSE 0)
    BY <1>1, <2>1
  <2> HIDE DEF all, lost, x
  <2>11. attempts'[e] <= retry_count[e] + Cardinality(Senders(after, e)) + lost
    BY <2>1, <2>3, <2>4, <2>5, <2>6, <2>7, <2>9, <2>10
  <2>12. retry_count[e] + Cardinality(Counters(after, e)) + Cardinality(Twice(after, e)) <= MaxRetry - 1 + 2 * all
    BY <2>1, <2>3, <2>4, <2>6, <2>7, <2>8, <2>9
  <2>13. attempts'[e] <= MaxRetry - 1 + all + lost
    <3>1. CASE e \in batch
      BY <2>1, <2>3, <2>4, <2>5, <2>8, <2>11, <2>10, <3>1
    <3>2. CASE e \notin batch
      BY <2>1, <2>3, <2>5, <2>9, <2>10, <3>2
    <3>3. QED BY <3>1, <3>2
  <2>14. WithinBudget(attempts'[e], retry_count[e], after, interruptions, e)
    BY <2>11, <2>12, <2>13 DEF WithinBudget, all, lost
  <2>15. push' = after /\ retry_count' = retry_count /\ interruptions' = interruptions
    BY <1>1, <1>2 DEF after, x, rows
  <2>16. QED BY <2>14, <2>15
<1>8. QED BY <1>2, <1>4, <1>5, <1>6, <1>7 DEF PushIInv, Queued, rows

(* Calls are cut, by a cancellation or with the process. *)
LEMMA CutIInv ==
  ASSUME PushIInv, interruptions < MaxInterruptions, interruptions' = interruptions + 1,
         DOMAIN push' = Pushers, \A q \in Pushers : push'[q] \in {push[q], NoPush},
         push' = [q \in Pushers |-> push'[q]],
         UNCHANGED <<rows, received, attempts>>
  PROVE  PushIInv'
<1>1. MaxInterruptions \in Nat /\ interruptions \in Nat
  BY PushAssumption DEF PushIInv, PushTypeOK
<1>2. PushTypeOK'
  BY <1>1 DEF PushIInv, PushTypeOK, rows
<1>3. SettledWasReceived'
  BY DEF PushIInv, SettledWasReceived, rows
<1>4. \A q \in Pushers : FitsPush(push[q], received)'
  BY DEF PushIInv, FitsPush
<1>5. ASSUME NEW e \in Entries PROVE WithinBudget(attempts[e], retry_count[e], push, interruptions, e)'
  <2>1. /\ attempts[e] \in Nat /\ retry_count[e] \in Nat
        /\ WithinBudget(attempts[e], retry_count[e], push, interruptions, e)
    BY DEF PushIInv, PushTypeOK
  <2>2. WithinBudget(attempts[e], retry_count[e], push', interruptions + 1, e)
    BY <1>1, <2>1, BudgetCut
  <2>3. QED BY <2>2 DEF rows
<1>6. QED BY <1>2, <1>3, <1>4, <1>5 DEF PushIInv, Queued, rows

(* Edge, center, failures and restarts keep the invariant. *)
LEMMA PushNextIInv ==
  ASSUME PushIInv, [PushNext]_pushvars
  PROVE  PushIInv'
<1>0. \A p \in Pushers : push[p] \in Push \cup {NoPush} /\ FitsPush(push[p], received)
  BY DEF PushIInv, PushTypeOK
<1>1. ASSUME NEW e \in Entries, QueueForSync(e) PROVE PushIInv'
  <2>1. IsFiniteSet(Queued) /\ Cardinality(Queued) \in Nat
    BY FS_CardinalityType DEF PushIInv
  <2>2. PushTypeOK'
    BY <1>1, <2>1 DEF QueueForSync, PushIInv, PushTypeOK
  <2>3. IsFiniteSet(Queued')
    <3>1. Queued' = Queued \cup {e}
      BY <1>1 DEF QueueForSync, Queued, PushIInv, PushTypeOK
    <3>2. QED BY <2>1, <3>1, FS_AddElement
  <2>4. SettledWasReceived'
    BY <1>1 DEF QueueForSync, PushIInv, PushTypeOK, SettledWasReceived
  <2>5. QED BY <1>1, <2>2, <2>3, <2>4 DEF QueueForSync, PushIInv
<1>2. ASSUME NEW p \in Pushers, AnswerPush(p) PROVE PushIInv'
  <2>1. PICK conflicts \in SUBSET push[p].batch :
          push' = [push EXCEPT ![p] = Pushing("marking", push[p].batch, push[p].batch, conflicts)]
    BY <1>2 DEF AnswerPush
  <2> DEFINE c == push[p]
             x == Pushing("marking", c.batch, c.batch, conflicts)
  <2>2. c \in Push /\ c # NoPush /\ c.phase = "posting" /\ c.todo # {} /\ c.todo = c.batch
    BY <1>0, <1>2 DEF AnswerPush, NoPush, FitsPush, Push
  <2>3. push' = [push EXCEPT ![p] = x]
    BY <2>1
  <2>4. x \in Push /\ x # NoPush /\ x = [phase |-> "marking", batch |-> c.batch, todo |-> c.batch, conflicts |-> conflicts]
    BY <2>2 DEF Push, NoPush, Pushing
  <2>5. received' = received \cup c.batch /\ UNCHANGED <<rows, attempts, interruptions>> /\ c.batch \subseteq Entries
    BY <1>2, <2>2 DEF AnswerPush, Push
  <2>6. received \subseteq received' /\ received' \subseteq Entries /\ FitsPush(x, received')
    BY <2>2, <2>4, <2>5 DEF FitsPush, PushIInv, PushTypeOK
  <2>7. \A e \in Entries :
          /\ SendBit(c, e) <= SendBit(x, e)
          /\ CountBit(x, e) + TwiceBit(x, e) <= CountBit(c, e) + TwiceBit(c, e)
    BY <2>2, <2>4 DEF SendBit, CountBit, TwiceBit, Sends, Counts, CountsTwice
  <2> HIDE DEF x
  <2>8. QED BY <2>3, <2>4, <2>5, <2>6, <2>7, MoveIInv
<1>3. ASSUME NEW p \in Pushers, NEW reached \in {{}, push[p].batch},
             push[p] # NoPush, push[p].phase # "failing",
             push' = [push EXCEPT ![p] = Pushing("failing", push[p].batch, push[p].batch, {})],
             received' = received \cup reached,
             UNCHANGED <<rows, attempts, interruptions>>
      PROVE  PushIInv'
  <2> DEFINE c == push[p]
             x == Pushing("failing", c.batch, c.batch, {})
  <2>1. c \in Push /\ c.todo # {} /\ c.todo \subseteq c.batch
    BY <1>0, <1>3 DEF FitsPush
  <2>2. x \in Push /\ x # NoPush /\ x = [phase |-> "failing", batch |-> c.batch, todo |-> c.batch, conflicts |-> {}]
    BY <2>1 DEF Push, NoPush, Pushing
  <2>3. received \subseteq received' /\ received' \subseteq Entries
    BY <1>3, <2>1 DEF Push, PushIInv, PushTypeOK
  <2>4. FitsPush(x, received')
    BY <2>1, <2>2 DEF FitsPush
  <2>5. \A e \in Entries :
          /\ SendBit(c, e) <= SendBit(x, e)
          /\ CountBit(x, e) + TwiceBit(x, e) <= CountBit(c, e) + TwiceBit(c, e)
    BY <1>3, <2>1, <2>2 DEF SendBit, CountBit, TwiceBit, Sends, Counts, CountsTwice
  <2> HIDE DEF x
  <2>6. push' = [push EXCEPT ![p] = x]
    BY <1>3 DEF x
  <2>7. QED BY <1>3, <2>2, <2>3, <2>4, <2>5, <2>6, MoveIInv
<1>4. ASSUME NEW p \in Pushers, PostFails(p) PROVE PushIInv'
  <2>1. push[p] # NoPush /\ push[p].phase = "posting"
    BY <1>4 DEF PostFails, NoPush
  <2>2. PICK reached \in {{}, push[p].batch} : received' = received \cup reached
    BY <1>4 DEF PostFails
  <2>3. push' = [push EXCEPT ![p] = Pushing("failing", push[p].batch, push[p].batch, {})]
    BY <1>4 DEF PostFails
  <2>4. QED BY <1>3, <1>4, <2>1, <2>2, <2>3 DEF PostFails
<1>5. ASSUME NEW p \in Pushers, MarkingFails(p) PROVE PushIInv'
  <2>1. push[p] # NoPush /\ push[p].phase = "marking"
    BY <1>5 DEF MarkingFails, NoPush
  <2>2. {} \in {{}, push[p].batch} /\ received' = received \cup {}
    BY <1>5 DEF MarkingFails
  <2>3. push' = [push EXCEPT ![p] = Pushing("failing", push[p].batch, push[p].batch, {})]
    BY <1>5 DEF MarkingFails
  <2>4. QED BY <1>3, <1>5, <2>1, <2>2, <2>3 DEF MarkingFails
<1>6. ASSUME NEW p \in Pushers, MarkSettled(p) PROVE PushIInv'
  <2>1. PICK e \in push[p].todo : UpdateItem(p, e, IF e \in push[p].conflicts THEN "conflict" ELSE "synced", 1)
    BY <1>6 DEF MarkSettled
  <2>2. push[p] # NoPush /\ push[p].phase = "marking"
    BY <1>6 DEF MarkSettled, NoPush
  <2>3. QED BY <2>1, <2>2, UpdateIInv
<1>7. ASSUME NEW p \in Pushers, MarkFailed(p) PROVE PushIInv'
  <2>1. PICK e \in push[p].todo : UpdateItem(p, e, "failed", 1)
    BY <1>7 DEF MarkFailed
  <2>2. push[p] # NoPush /\ push[p].phase = "failing"
    BY <1>7 DEF MarkFailed, NoPush
  <2>3. QED BY <2>1, <2>2, UpdateIInv
<1>8. ASSUME NEW p \in Pushers, InterruptPush(p) PROVE PushIInv'
  BY <1>8, CutIInv DEF InterruptPush, PushIInv, PushTypeOK
<1>9. ASSUME RestartPush PROVE PushIInv'
  BY <1>9, CutIInv DEF RestartPush
<1>10. CASE UNCHANGED pushvars
  BY <1>10 DEF pushvars, rows, PushIInv, PushTypeOK, SettledWasReceived, Queued
<1>11. QED
  BY <1>1, <1>2, <1>4, <1>5, <1>6, <1>7, <1>8, <1>9, <1>10, BeginIInv DEF PushNext, PushStep

(* The inductive invariant holds in every reachable state. *)
LEMMA PushInvariance == PushSpec => []PushIInv
BY PushInitIInv, PushNextIInv, PTL DEF PushSpec

(* The invariant implies what a push promises. *)
LEMMA PushIsSound == PushIInv => AttemptsAreBounded /\ SettledWasReceived
<1> SUFFICES ASSUME PushIInv PROVE AttemptsAreBounded /\ SettledWasReceived
  OBVIOUS
<1>1. ASSUME NEW e \in Entries
      PROVE  /\ attempts[e] <= MaxRetry - 1 + Cardinality(Pushers) * (1 + interruptions)
             /\ retry_count[e] <= MaxRetry - 1 + 2 * Cardinality(Pushers)
  <2> DEFINE all == Cardinality(Pushers)
  <2>1. IsFiniteSet(Pushers) /\ MaxRetry \in Nat /\ all \in Nat
    BY PushAssumption, FS_CardinalityType
  <2>2. Counters(push, e) \subseteq Pushers /\ Twice(push, e) \subseteq Pushers
    BY DEF Counters, Twice
  <2>3. Cardinality(Counters(push, e)) \in Nat /\ Cardinality(Twice(push, e)) \in Nat
    BY <2>1, <2>2, FS_Subset, FS_CardinalityType
  <2>4. attempts[e] \in Nat /\ retry_count[e] \in Nat /\ interruptions \in Nat
    BY DEF PushIInv, PushTypeOK
  <2>5. WithinBudget(attempts[e], retry_count[e], push, interruptions, e)
    BY DEF PushIInv
  <2>6. all * (1 + interruptions) = all + interruptions * all
    BY <2>1, <2>4
  <2>7. attempts[e] <= MaxRetry - 1 + all * (1 + interruptions)
    <3>1. interruptions * all \in Nat /\ attempts[e] <= MaxRetry - 1 + all + interruptions * all
      BY <2>1, <2>4, <2>5 DEF WithinBudget
    <3>2. QED BY <2>1, <2>4, <2>6, <3>1
  <2>8. retry_count[e] <= MaxRetry - 1 + 2 * all
    BY <2>1, <2>3, <2>4, <2>5 DEF WithinBudget
  <2>9. QED BY <2>7, <2>8
<1>2. RetryBudget
  BY <1>1 DEF RetryBudget
<1>3. QED BY <1>2 DEF PushIInv, AttemptsAreBounded

-----------------------------------------------------------------------------
(* Edge pull: the inductive invariant.                                     *)

(* An update that was published while no call was open. *)
Calm == {u \in Updates \ raced : published[u] # 0}

(* What is behind a mark has been stored, and nothing is published at it.  *)
Covers(mark) ==
  /\ mark \in Nat /\ mark < time
  /\ \A u \in Calm : published[u] < mark => u \in pulled
  /\ mark # 0 => \A u \in Updates : published[u] # mark

FitsPull(x) ==
  \/ x = NotPulling
  \/ x = [phase |-> "asking", since |-> x.since] /\ Covers(x.since)
  \/ x = [phase |-> "storing", items |-> x.items] /\ Calm \subseteq pulled \cup x.items
  \/ x = [phase |-> "saving", mark |-> x.mark] /\ Covers(x.mark)

PullIInv ==
  /\ time \in Nat \ {0}
  /\ published \in [Updates -> Nat]
  /\ \A u \in Updates : published[u] < time
  /\ watermark = [memory |-> watermark.memory, saved |-> watermark.saved]
  /\ Covers(watermark.memory) /\ Covers(watermark.saved)
  /\ pull = [p \in Pullers |-> pull[p]]
  /\ \A p \in Pullers : FitsPull(pull[p])

-----------------------------------------------------------------------------
(* Edge pull: the steps.                                                   *)

(* The invariant holds before the first pull. *)
LEMMA PullInitIInv == PullInit => PullIInv
BY DEF PullInit, PullIInv, Covers, Calm, FitsPull, NotPulling

(* What is stored stays stored, and what is covered, covered. *)
LEMMA StaysCovered ==
  ASSUME PullIInv, NEW mark, Covers(mark), pulled \subseteq pulled', raced' = raced,
         published' = published, time' \in Nat, time <= time'
  PROVE  Covers(mark)'
BY DEF Covers, Calm, PullIInv

(* Every step of a pull keeps the invariant. *)
LEMMA PullNextIInv ==
  ASSUME PullIInv, [PullNext]_pullVars
  PROVE  PullIInv'
<1>1. ASSUME NEW u \in Updates, Publish(u) PROVE PullIInv'
  <2>1. /\ published[u] = 0 /\ published' = [published EXCEPT ![u] = time]
        /\ time' = time + 1 /\ UNCHANGED <<watermark, pull, pulled>>
        /\ raced \subseteq raced'
        /\ (\E p \in Pullers : pull[p] # NotPulling) => u \in raced'
    BY <1>1 DEF Publish, Later
  <2>2. published' \in [Updates -> Nat] /\ time' \in Nat \ {0} /\ \A v \in Updates : published'[v] < time'
    BY <2>1 DEF PullIInv
  <2>3. \A v \in Calm' : v \in Calm \/ v = u
    BY <2>1 DEF Calm, PullIInv
  <2>4. ASSUME NEW mark, Covers(mark) PROVE Covers(mark)'
    <3>1. mark \in Nat /\ mark < time' /\ mark < time
      BY <2>1, <2>4 DEF Covers, PullIInv
    <3>2. \A v \in Calm' : published'[v] < mark => v \in pulled'
      BY <2>1, <2>3, <2>4, <3>1 DEF Covers, PullIInv, Calm
    <3>3. mark # 0 => \A v \in Updates : published'[v] # mark
      BY <2>1, <2>4, <3>1 DEF Covers, PullIInv
    <3>4. QED BY <3>1, <3>2, <3>3 DEF Covers
  <2>5. ASSUME NEW p \in Pullers PROVE FitsPull(pull[p])'
    <3>1. FitsPull(pull[p]) /\ pull'[p] = pull[p]
      BY <2>1 DEF PullIInv
    <3>2. pull[p] # NotPulling => Calm' \subseteq Calm
      BY <2>1, <2>3 DEF Calm
    <3>3. QED BY <2>1, <2>4, <3>1, <3>2 DEF FitsPull, NotPulling
  <2>6. QED BY <2>1, <2>2, <2>4, <2>5 DEF PullIInv
<1>2. ASSUME NEW p \in Pullers, BeginPull(p) PROVE PullIInv'
  <2>1. PICK since \in {watermark.memory, watermark.saved} :
          pull' = [pull EXCEPT ![p] = [phase |-> "asking", since |-> since]]
    BY <1>2 DEF BeginPull
  <2>2. Covers(since) /\ UNCHANGED <<time, published, watermark, pulled, raced>>
    BY <1>2 DEF BeginPull, PullIInv
  <2>3. FitsPull([phase |-> "asking", since |-> since])
    BY <2>2 DEF FitsPull
  <2>4. \A q \in Pullers : FitsPull(pull'[q])
    BY <2>1, <2>3 DEF PullIInv
  <2>5. \A mark : Covers(mark) <=> Covers(mark)'
    BY <2>2 DEF Covers, Calm
  <2>6. \A q \in Pullers : FitsPull(pull[q])'
    BY <2>2, <2>4, <2>5 DEF FitsPull, Calm
  <2>7. QED BY <2>1, <2>2, <2>5, <2>6 DEF PullIInv
<1>3. ASSUME NEW p \in Pullers, ServerAnswers(p) PROVE PullIInv'
  <2> DEFINE since == pull[p].since
             items == {u \in Updates : published[u] > since}
  <2>1. /\ pull' = [pull EXCEPT ![p] = [phase |-> "storing", items |-> items]]
        /\ UNCHANGED <<time, published, watermark, pulled, raced>>
    BY <1>3 DEF ServerAnswers
  <2>2. Covers(since)
    BY <1>3 DEF ServerAnswers, PullIInv, FitsPull, NotPulling
  <2>3. Calm \subseteq pulled \cup items
    BY <2>2 DEF Covers, Calm, PullIInv
  <2> HIDE DEF items
  <2>4. FitsPull([phase |-> "storing", items |-> items])
    BY <2>3 DEF FitsPull
  <2>5. \A q \in Pullers : FitsPull(pull'[q])
    BY <2>1, <2>4 DEF PullIInv
  <2>6. \A mark : Covers(mark) <=> Covers(mark)'
    BY <2>1 DEF Covers, Calm
  <2>7. \A q \in Pullers : FitsPull(pull[q])'
    BY <2>1, <2>5, <2>6 DEF FitsPull, Calm
  <2>8. QED BY <2>1, <2>6, <2>7 DEF PullIInv
<1>4. ASSUME NEW p \in Pullers, NEW u \in Updates, StoreItem(p, u) PROVE PullIInv'
  <2> DEFINE items == pull[p].items \ {u}
  <2>1. /\ pull' = [pull EXCEPT ![p] = [phase |-> "storing", items |-> items]]
        /\ pulled' = pulled \cup {u} /\ UNCHANGED <<time, published, watermark, raced>>
    BY <1>4 DEF StoreItem
  <2>2. Calm \subseteq pulled \cup pull[p].items
    BY <1>4 DEF StoreItem, PullIInv, FitsPull, NotPulling
  <2>3. Calm' = Calm /\ Calm \subseteq pulled' \cup items
    BY <2>1, <2>2 DEF Calm
  <2> HIDE DEF items
  <2>4. ASSUME NEW mark, Covers(mark) PROVE Covers(mark)'
    BY <2>1, <2>4, StaysCovered DEF PullIInv
  <2>5. ASSUME NEW q \in Pullers PROVE FitsPull(pull[q])'
    <3>1. CASE q = p
      BY <2>1, <2>3, <3>1 DEF FitsPull, PullIInv
    <3>2. CASE q # p
      <4>1. pull'[q] = pull[q] /\ FitsPull(pull[q])
        BY <2>1, <3>2 DEF PullIInv
      <4>2. QED BY <2>1, <2>3, <2>4, <4>1 DEF FitsPull
    <3>3. QED BY <3>1, <3>2
  <2>6. QED BY <2>1, <2>4, <2>5 DEF PullIInv
<1>5. ASSUME NEW p \in Pullers, PullFails(p) PROVE PullIInv'
  BY <1>5 DEF PullFails, PullIInv, FitsPull, Covers, Calm
<1>6. ASSUME NEW p \in Pullers, MoveWatermark(p) PROVE PullIInv'
  <2>1. /\ watermark' = [watermark EXCEPT !.memory = time]
        /\ pull' = [pull EXCEPT ![p] = [phase |-> "saving", mark |-> time]]
        /\ time' = time + 1 /\ UNCHANGED <<published, pulled, raced>>
    BY <1>6 DEF MoveWatermark, Later
  <2>2. Calm \subseteq pulled
    BY <1>6 DEF MoveWatermark, PullIInv, FitsPull, NotPulling
  <2>3. ASSUME NEW mark, mark = time PROVE Covers(mark)'
    <3>1. /\ \A u \in Updates : published[u] \in Nat /\ published[u] < mark
          /\ mark \in Nat /\ mark < time'
      BY <2>1, <2>3 DEF PullIInv
    <3>2. Calm' = Calm
      BY <2>1 DEF Calm
    <3>3. QED BY <2>1, <2>2, <3>1, <3>2 DEF Covers
  <2>4. ASSUME NEW mark, Covers(mark) PROVE Covers(mark)'
    BY <2>1, <2>4, StaysCovered DEF PullIInv
  <2>5. ASSUME NEW q \in Pullers PROVE FitsPull(pull[q])'
    <3>1. CASE q = p
      <4>1. PICK mark : mark = time
        OBVIOUS
      <4>2. pull'[q] = [phase |-> "saving", mark |-> mark] /\ Covers(mark)'
        BY <2>1, <2>3, <3>1, <4>1 DEF PullIInv
      <4>3. QED BY <4>2 DEF FitsPull
    <3>2. CASE q # p
      <4>1. pull'[q] = pull[q] /\ FitsPull(pull[q])
        BY <2>1, <3>2 DEF PullIInv
      <4>2. QED BY <2>1, <2>4, <4>1 DEF FitsPull, Calm
    <3>3. QED BY <3>1, <3>2
  <2>6. watermark' = [memory |-> time, saved |-> watermark.saved]
    BY <2>1 DEF PullIInv
  <2>7. /\ watermark' = [memory |-> watermark'.memory, saved |-> watermark'.saved]
        /\ Covers(watermark.memory)' /\ Covers(watermark.saved)'
    <3>1. PICK mark : mark = time
      OBVIOUS
    <3>2. watermark'.memory = mark /\ Covers(mark)'
      BY <2>3, <2>6, <3>1
    <3>3. PICK old : old = watermark.saved
      OBVIOUS
    <3>4. watermark'.saved = old /\ Covers(old)'
      BY <2>4, <2>6, <3>3 DEF PullIInv
    <3>5. QED BY <2>6, <3>2, <3>4
  <2>8. QED BY <2>1, <2>5, <2>7 DEF PullIInv
<1>7. ASSUME NEW p \in Pullers, SaveWatermark(p) PROVE PullIInv'
  <2>1. /\ pull' = [pull EXCEPT ![p] = NotPulling] /\ UNCHANGED <<time, published, pulled, raced>>
        /\ watermark' \in {watermark, [watermark EXCEPT !.saved = pull[p].mark]}
    BY <1>7 DEF SaveWatermark
  <2>2. Covers(pull[p].mark)
    BY <1>7 DEF SaveWatermark, PullIInv, FitsPull, NotPulling
  <2>3. watermark' \in {watermark, [memory |-> watermark.memory, saved |-> pull[p].mark]}
    BY <2>1 DEF PullIInv
  <2>4. /\ watermark' = [memory |-> watermark'.memory, saved |-> watermark'.saved]
        /\ Covers(watermark'.memory) /\ Covers(watermark'.saved)
    BY <2>2, <2>3 DEF PullIInv
  <2>5. \A q \in Pullers : FitsPull(pull'[q])
    <3>1. FitsPull(NotPulling)
      BY DEF FitsPull
    <3>2. QED BY <2>1, <3>1 DEF PullIInv
  <2>6. \A mark : Covers(mark) <=> Covers(mark)'
    BY <2>1 DEF Covers, Calm
  <2>7. Covers(watermark.memory)' /\ Covers(watermark.saved)'
    BY <2>1, <2>4 DEF Covers, Calm
  <2>8. \A q \in Pullers : FitsPull(pull[q])'
    BY <2>1, <2>5, <2>6 DEF FitsPull, Calm
  <2>9. QED BY <2>1, <2>4, <2>7, <2>8 DEF PullIInv
<1>8. CASE RestartPull
  <2>1. /\ watermark' = [watermark EXCEPT !.memory = 0] /\ pull' = [p \in Pullers |-> NotPulling]
        /\ UNCHANGED <<time, published, pulled, raced>>
    BY <1>8 DEF RestartPull
  <2>2. watermark' = [memory |-> 0, saved |-> watermark.saved]
    BY <2>1 DEF PullIInv
  <2>3. Covers(0)
    BY DEF Covers, PullIInv, Calm
  <2>4. /\ watermark' = [memory |-> watermark'.memory, saved |-> watermark'.saved]
        /\ Covers(watermark'.memory) /\ Covers(watermark'.saved)
    BY <2>2, <2>3 DEF PullIInv
  <2>5. \A q \in Pullers : FitsPull(pull'[q])
    BY <2>1 DEF FitsPull
  <2>6. \A mark : Covers(mark) <=> Covers(mark)'
    BY <2>1 DEF Covers, Calm
  <2>7. Covers(watermark.memory)' /\ Covers(watermark.saved)'
    BY <2>1, <2>4 DEF Covers, Calm
  <2>8. \A q \in Pullers : FitsPull(pull[q])'
    BY <2>1, <2>5, <2>6 DEF FitsPull, Calm
  <2>9. QED BY <2>1, <2>4, <2>7, <2>8 DEF PullIInv
<1>9. CASE UNCHANGED pullVars
  BY <1>9 DEF pullVars, PullIInv, FitsPull, Covers, Calm
<1>10. QED
  BY <1>1, <1>2, <1>3, <1>4, <1>5, <1>6, <1>7, <1>8, <1>9 DEF PullNext

(* The inductive invariant holds in every reachable state. *)
LEMMA PullInvariance == PullSpec => []PullIInv
BY PullInitIInv, PullNextIInv, PTL DEF PullSpec

(* The invariant implies that nothing behind the watermark is missing. *)
LEMMA PullIsComplete == PullIInv => PullMissesNothing
BY DEF PullIInv, PullMissesNothing, Covers, Calm


-----------------------------------------------------------------------------
(* The connectors' cache: the inductive invariant.  A key has been used at *)
(* least as often since it came to its place as there are keys behind it.  *)

LruIInv ==
  /\ lru \in Seq(CacheKeys) /\ Len(lru) <= MaxEntries
  /\ \A i, j \in DOMAIN lru : lru[i] = lru[j] => i = j
  /\ uses_since \in [CacheKeys -> 0 .. MaxEntries]
  /\ \A k \in CacheKeys : uses_since[k] < MaxEntries => \E i \in DOMAIN lru : lru[i] = k
  /\ \A i \in DOMAIN lru : uses_since[lru[i]] >= Len(lru) - i

(* The dictionary without the entry at i: who was behind it moves up. *)
LEMMA Removal ==
  ASSUME NEW S, NEW s \in Seq(S), NEW i \in DOMAIN s
  PROVE  /\ RemoveAt(s, i) \in Seq(S) /\ Len(RemoveAt(s, i)) = Len(s) - 1
         /\ \A j \in 1 .. Len(s) - 1 : RemoveAt(s, i)[j] = IF j < i THEN s[j] ELSE s[j + 1]
<1>1. Len(s) \in Nat /\ i \in 1 .. Len(s)
  OBVIOUS
<1> DEFINE front == SubSeq(s, 1, i - 1)
           back == SubSeq(s, i + 1, Len(s))
<1>2. front \in Seq(S) /\ Len(front) = i - 1 /\ \A j \in 1 .. i - 1 : front[j] = s[j]
  BY <1>1
<1>3. back \in Seq(S) /\ Len(back) = Len(s) - i /\ \A j \in 1 .. Len(s) - i : back[j] = s[j + i]
  BY <1>1
<1> HIDE DEF front, back
<1>4. front \o back \in Seq(S) /\ Len(front \o back) = Len(s) - 1
  BY <1>1, <1>2, <1>3
<1>5. \A j \in 1 .. Len(s) - 1 : (front \o back)[j] = IF j < i THEN s[j] ELSE s[j + 1]
  <2> SUFFICES ASSUME NEW j \in 1 .. Len(s) - 1
               PROVE  (front \o back)[j] = IF j < i THEN s[j] ELSE s[j + 1]
    OBVIOUS
  <2>1. CASE j < i
    BY <1>1, <1>2, <1>3, <2>1
  <2>2. CASE ~(j < i)
    <3>1. j - (i - 1) \in 1 .. Len(s) - i
      BY <1>1, <2>2
    <3>2. (front \o back)[j] = back[j - (i - 1)]
      BY <1>1, <1>2, <1>3, <2>2
    <3>3. QED BY <1>1, <1>3, <2>2, <3>1, <3>2
  <2>3. QED BY <2>1, <2>2
<1>6. QED BY <1>4, <1>5 DEF RemoveAt, front, back

(* A key counts as used, and what was counted of the others goes on. *)
LEMMA UsesCounted ==
  ASSUME LruIInv, NEW k \in CacheKeys, NEW moved \in BOOLEAN, Used(k, moved)
  PROVE  /\ uses_since' \in [CacheKeys -> 0 .. MaxEntries]
         /\ \A j \in CacheKeys : j = k /\ moved => uses_since'[j] = 0
         /\ \A j \in CacheKeys : ~(j = k /\ moved) =>
              /\ uses_since'[j] = IF uses_since[j] < MaxEntries THEN uses_since[j] + 1 ELSE MaxEntries
              /\ uses_since'[j] >= uses_since[j]
              /\ uses_since'[j] < MaxEntries => uses_since[j] < MaxEntries
BY CacheAssumption DEF Used, LruIInv

(* The invariant holds for an empty cache. *)
LEMMA LruInitIInv == LruInit => LruIInv
BY CacheAssumption DEF LruInit, LruIInv

(* A hit moves its key to the end. *)
LEMMA HitIInv ==
  ASSUME LruIInv, NEW k \in CacheKeys, GetHit(k)
  PROVE  LruIInv'
<1>1. PICK i \in DOMAIN lru : lru[i] = k /\ lru' = Append(RemoveAt(lru, i), k)
  BY DEF GetHit
<1> DEFINE rest == RemoveAt(lru, i)
           n == Len(lru)
<1>2. n \in Nat /\ n <= MaxEntries /\ MaxEntries \in Nat \ {0} /\ i \in 1 .. n /\ DOMAIN lru = 1 .. n
  BY CacheAssumption DEF LruIInv
<1>3. /\ rest \in Seq(CacheKeys) /\ Len(rest) = n - 1
      /\ \A j \in 1 .. n - 1 : rest[j] = IF j < i THEN lru[j] ELSE lru[j + 1]
  <2>1. lru \in Seq(CacheKeys) /\ i \in DOMAIN lru
    BY DEF LruIInv
  <2>2. QED BY <2>1, Removal
<1> HIDE DEF rest, n
<1>4. /\ lru' \in Seq(CacheKeys) /\ Len(lru') = n /\ DOMAIN lru' = 1 .. n /\ lru'[n] = k
      /\ \A j \in 1 .. n - 1 : lru'[j] = IF j < i THEN lru[j] ELSE lru[j + 1]
  BY <1>1, <1>2, <1>3 DEF rest
<1>5. \A j \in 1 .. n - 1 : lru'[j] # k
  <2> SUFFICES ASSUME NEW j \in 1 .. n - 1 PROVE lru'[j] # k
    OBVIOUS
  <2>1. PICK c \in 1 .. n : c # i /\ lru'[j] = lru[c]
    BY <1>2, <1>4
  <2>2. QED BY <1>1, <1>2, <2>1 DEF LruIInv
<1>6. \A a, b \in DOMAIN lru' : lru'[a] = lru'[b] => a = b
  <2>1. \A a, b \in 1 .. n - 1 : lru'[a] = lru'[b] => a = b
    <3> SUFFICES ASSUME NEW a \in 1 .. n - 1, NEW b \in 1 .. n - 1, lru'[a] = lru'[b] PROVE a = b
      OBVIOUS
    <3>1. PICK c \in 1 .. n : c = (IF a < i THEN a ELSE a + 1) /\ lru'[a] = lru[c]
      BY <1>2, <1>4
    <3>2. PICK d \in 1 .. n : d = (IF b < i THEN b ELSE b + 1) /\ lru'[b] = lru[d]
      BY <1>2, <1>4
    <3>3. c = d
      BY <1>2, <3>1, <3>2 DEF LruIInv
    <3>4. QED BY <1>2, <3>1, <3>2, <3>3
  <2>2. QED BY <1>2, <1>4, <1>5, <2>1
<1>7. /\ uses_since' \in [CacheKeys -> 0 .. MaxEntries] /\ uses_since'[k] = 0
      /\ \A j \in CacheKeys \ {k} :
           /\ uses_since'[j] = IF uses_since[j] < MaxEntries THEN uses_since[j] + 1 ELSE MaxEntries
           /\ uses_since'[j] >= uses_since[j]
           /\ uses_since'[j] < MaxEntries => uses_since[j] < MaxEntries
  BY UsesCounted DEF GetHit
<1>8. \A j \in CacheKeys : uses_since'[j] < MaxEntries => \E a \in DOMAIN lru' : lru'[a] = j
  <2> SUFFICES ASSUME NEW j \in CacheKeys, uses_since'[j] < MaxEntries PROVE \E a \in 1 .. n : lru'[a] = j
    BY <1>4
  <2>1. CASE j = k
    BY <1>2, <1>4, <2>1
  <2>2. CASE j # k
    <3>1. PICK a \in 1 .. n : lru[a] = j
      BY <1>2, <1>7, <2>2 DEF LruIInv
    <3>2. a # i
      BY <1>1, <2>2, <3>1
    <3>3. CASE a < i
      BY <1>2, <1>4, <3>1, <3>3
    <3>4. CASE a > i
      <4>1. a - 1 \in 1 .. n - 1 /\ ~(a - 1 < i) /\ (a - 1) + 1 = a
        BY <1>2, <3>4
      <4>2. QED BY <1>2, <1>4, <3>1, <4>1
    <3>5. QED BY <1>2, <3>2, <3>3, <3>4
  <2>3. QED BY <2>1, <2>2
<1>9. \A j \in DOMAIN lru' : uses_since'[lru'[j]] >= Len(lru') - j
  <2> SUFFICES ASSUME NEW j \in 1 .. n PROVE uses_since'[lru'[j]] >= n - j
    BY <1>4
  <2>1. CASE j = n
    BY <1>2, <1>4, <1>7, <2>1
  <2>2. CASE j # n
    <3>1. j \in 1 .. n - 1 /\ lru'[j] # k /\ lru'[j] \in CacheKeys
      BY <1>2, <1>4, <1>5, <2>2
    <3>2. CASE j < i
      <4>1. lru'[j] = lru[j] /\ uses_since[lru[j]] >= n - j
        BY <1>2, <1>4, <3>1, <3>2 DEF LruIInv, n
      <4>2. QED BY <1>2, <1>7, <3>1, <4>1 DEF LruIInv
    <3>3. CASE ~(j < i)
      <4>1. lru'[j] = lru[j + 1] /\ j + 1 \in 1 .. n
        BY <1>2, <1>4, <3>1, <3>3
      <4>2. uses_since[lru[j + 1]] >= n - (j + 1) /\ uses_since[lru[j + 1]] \in 0 .. MaxEntries
        BY <1>2, <3>1, <4>1 DEF LruIInv, n
      <4>3. QED BY <1>2, <1>7, <3>1, <4>1, <4>2
    <3>4. QED BY <3>2, <3>3
  <2>3. QED BY <2>1, <2>2
<1>10. QED BY <1>2, <1>4, <1>6, <1>7, <1>8, <1>9 DEF LruIInv

(* An expired entry is dropped when it is met. *)
LEMMA ExpiredIInv ==
  ASSUME LruIInv, NEW k \in CacheKeys, GetExpired(k)
  PROVE  LruIInv'
<1>1. PICK i \in DOMAIN lru : lru[i] = k /\ lru' = RemoveAt(lru, i)
  BY DEF GetExpired
<1> DEFINE n == Len(lru)
<1>2. n \in Nat /\ n <= MaxEntries /\ MaxEntries \in Nat \ {0} /\ i \in 1 .. n /\ DOMAIN lru = 1 .. n
  BY CacheAssumption DEF LruIInv
<1>3. /\ lru' \in Seq(CacheKeys) /\ Len(lru') = n - 1 /\ DOMAIN lru' = 1 .. n - 1
      /\ \A j \in 1 .. n - 1 : lru'[j] = IF j < i THEN lru[j] ELSE lru[j + 1]
  <2>1. lru \in Seq(CacheKeys) /\ i \in DOMAIN lru
    BY DEF LruIInv
  <2>2. /\ lru' \in Seq(CacheKeys) /\ Len(lru') = n - 1
        /\ \A j \in 1 .. n - 1 : lru'[j] = IF j < i THEN lru[j] ELSE lru[j + 1]
    BY <1>1, <2>1, Removal
  <2>3. QED BY <2>2
<1>4. uses_since' = [j \in CacheKeys |-> IF j \in {k} THEN MaxEntries ELSE uses_since[j]]
  BY DEF GetExpired, Forgotten
<1>5. uses_since' \in [CacheKeys -> 0 .. MaxEntries] /\ \A j \in CacheKeys : uses_since'[j] >= uses_since[j]
  BY <1>2, <1>4 DEF LruIInv
<1> HIDE DEF n
<1>6. \A a, b \in DOMAIN lru' : lru'[a] = lru'[b] => a = b
  <2> SUFFICES ASSUME NEW a \in 1 .. n - 1, NEW b \in 1 .. n - 1, lru'[a] = lru'[b] PROVE a = b
    BY <1>3
  <2>1. PICK c \in 1 .. n : c = (IF a < i THEN a ELSE a + 1) /\ lru'[a] = lru[c]
    BY <1>2, <1>3
  <2>2. PICK d \in 1 .. n : d = (IF b < i THEN b ELSE b + 1) /\ lru'[b] = lru[d]
    BY <1>2, <1>3
  <2>3. c = d
    BY <1>2, <2>1, <2>2 DEF LruIInv
  <2>4. QED BY <1>2, <2>1, <2>2, <2>3
<1>7. \A j \in CacheKeys : uses_since'[j] < MaxEntries => \E a \in DOMAIN lru' : lru'[a] = j
  <2> SUFFICES ASSUME NEW j \in CacheKeys, uses_since'[j] < MaxEntries PROVE \E a \in 1 .. n - 1 : lru'[a] = j
    BY <1>3
  <2>1. j # k /\ uses_since[j] < MaxEntries
    BY <1>2, <1>4
  <2>2. PICK a \in 1 .. n : lru[a] = j
    BY <1>2, <2>1 DEF LruIInv
  <2>3. a # i
    BY <1>1, <2>1, <2>2
  <2>4. CASE a < i
    BY <1>2, <1>3, <2>2, <2>4
  <2>5. CASE a > i
    <3>1. a - 1 \in 1 .. n - 1 /\ ~(a - 1 < i) /\ (a - 1) + 1 = a
      BY <1>2, <2>5
    <3>2. QED BY <1>2, <1>3, <2>2, <3>1
  <2>6. QED BY <1>2, <2>3, <2>4, <2>5
<1>8. \A j \in DOMAIN lru' : uses_since'[lru'[j]] >= Len(lru') - j
  <2> SUFFICES ASSUME NEW j \in 1 .. n - 1 PROVE uses_since'[lru'[j]] >= (n - 1) - j
    BY <1>3
  <2>1. PICK c \in 1 .. n : c <= j + 1 /\ lru'[j] = lru[c]
    BY <1>2, <1>3
  <2>2. lru[c] \in CacheKeys /\ uses_since[lru[c]] >= n - c
    <3>1. c \in DOMAIN lru /\ Len(lru) = n
      BY <1>2 DEF n
    <3>2. uses_since[lru[c]] >= Len(lru) - c
      BY <3>1 DEF LruIInv
    <3>3. lru \in Seq(CacheKeys)
      BY DEF LruIInv
    <3>4. QED BY <3>1, <3>2, <3>3
  <2>3. uses_since'[lru[c]] >= uses_since[lru[c]] /\ uses_since[lru[c]] \in Nat /\ uses_since'[lru[c]] \in Nat
    BY <1>2, <1>5, <2>2 DEF LruIInv
  <2>4. QED BY <1>2, <2>1, <2>2, <2>3
<1>9. QED BY <1>2, <1>3, <1>5, <1>6, <1>7, <1>8 DEF LruIInv

(* A set evicts the front of a full cache. *)
LEMMA SetIInv ==
  ASSUME LruIInv, NEW k \in CacheKeys, Set(k)
  PROVE  LruIInv'
<1> DEFINE rest == IF Len(lru) >= MaxEntries THEN Tail(lru) ELSE lru
           moved == ~Contains(rest, k)
           n == Len(rest)
<1>0. DOMAIN lru = 1 .. Len(lru)
  BY DEF LruIInv
<1>1. MaxEntries \in Nat \ {0} /\ Len(lru) \in 0 .. MaxEntries /\ lru \in Seq(CacheKeys)
  BY CacheAssumption DEF LruIInv
<1>2. /\ rest \in Seq(CacheKeys) /\ n \in 0 .. MaxEntries - 1 /\ DOMAIN rest = 1 .. n
      /\ \E off \in {0, 1} : /\ Len(lru) = n + off /\ (off = 1 => Len(lru) = MaxEntries)
                           /\ \A j \in 1 .. n : rest[j] = lru[j + off]
  <2>1. CASE Len(lru) >= MaxEntries
    <3>1. Len(lru) = MaxEntries /\ rest = Tail(lru)
      BY <1>1, <2>1
    <3>2. lru # <<>>
      BY <1>1, <3>1
    <3>3. Tail(lru) \in Seq(CacheKeys) /\ Len(Tail(lru)) = Len(lru) - 1 /\ \A j \in 1 .. Len(lru) - 1 : Tail(lru)[j] = lru[j + 1]
      BY <1>1, <3>1, <3>2
    <3>4. QED BY <1>1, <3>1, <3>3
  <2>2. CASE ~(Len(lru) >= MaxEntries)
    BY <1>1, <2>2
  <2>3. QED BY <2>1, <2>2
<1>3. PICK off \in {0, 1} : /\ Len(lru) = n + off /\ (off = 1 => Len(lru) = MaxEntries)
                          /\ \A j \in 1 .. n : rest[j] = lru[j + off]
  BY <1>2
<1>4. lru' = (IF moved THEN Append(rest, k) ELSE rest) /\ Used(k, moved) /\ moved \in BOOLEAN
  BY DEF Set
<1>5. moved <=> \A j \in 1 .. n : rest[j] # k
  BY <1>2 DEF Contains
<1> HIDE DEF rest, moved, n
<1>6. /\ uses_since' \in [CacheKeys -> 0 .. MaxEntries]
      /\ \A j \in CacheKeys : j = k /\ moved => uses_since'[j] = 0
      /\ \A j \in CacheKeys : ~(j = k /\ moved) =>
           /\ uses_since'[j] = IF uses_since[j] < MaxEntries THEN uses_since[j] + 1 ELSE MaxEntries
           /\ uses_since'[j] >= uses_since[j]
           /\ uses_since'[j] < MaxEntries => uses_since[j] < MaxEntries
  BY <1>4, UsesCounted
<1>7. /\ lru' \in Seq(CacheKeys) /\ Len(lru') = (IF moved THEN n + 1 ELSE n) /\ DOMAIN lru' = 1 .. Len(lru')
      /\ \A j \in 1 .. n : lru'[j] = rest[j]
      /\ moved => lru'[n + 1] = k
  BY <1>2, <1>4
<1>8. \A a, b \in 1 .. n : rest[a] = rest[b] => a = b
  <2> SUFFICES ASSUME NEW a \in 1 .. n, NEW b \in 1 .. n, rest[a] = rest[b] PROVE a = b
    OBVIOUS
  <2>1. a + off \in DOMAIN lru /\ b + off \in DOMAIN lru
    BY <1>0, <1>1, <1>2, <1>3
  <2>a. lru[a + off] = lru[b + off]
    BY <1>3
  <2>2. a + off = b + off
    BY <2>1, <2>a DEF LruIInv
  <2>3. QED BY <1>2, <2>2
<1>9. \A a, b \in DOMAIN lru' : lru'[a] = lru'[b] => a = b
  <2>1. \A a \in DOMAIN lru' : a \in 1 .. n \/ (moved /\ a = n + 1)
    BY <1>2, <1>7
  <2>2. QED BY <1>5, <1>7, <1>8, <2>1
<1>10. ASSUME NEW j \in 1 .. n
       PROVE  rest[j] \in CacheKeys /\ uses_since'[rest[j]] \in Nat /\ uses_since'[rest[j]] >= n + 1 - j
  <2>1. /\ j + off \in DOMAIN lru /\ lru[j + off] = rest[j] /\ rest[j] \in CacheKeys
        /\ ~(rest[j] = k /\ moved)
    <3>1. lru[j + off] = rest[j] /\ DOMAIN lru = 1 .. n + off
      BY <1>0, <1>3
    <3>2. j + off \in 1 .. n + off
      BY <1>2
    <3>3. rest[j] \in CacheKeys
      BY <1>2
    <3>4. QED BY <1>5, <3>1, <3>2, <3>3
  <2>2. uses_since[rest[j]] >= (n + off) - (j + off) /\ uses_since[rest[j]] \in 0 .. MaxEntries
    BY <1>3, <2>1 DEF LruIInv
  <2>3. uses_since'[rest[j]] = IF uses_since[rest[j]] < MaxEntries THEN uses_since[rest[j]] + 1 ELSE MaxEntries
    BY <1>6, <2>1
  <2>4. j \in Nat /\ off \in Nat /\ n \in Nat /\ n + 1 <= MaxEntries /\ (n + off) - (j + off) = n - j
    BY <1>1, <1>2
  <2>5. uses_since'[rest[j]] \in Nat /\ uses_since'[rest[j]] >= n + 1 - j
    <3> DEFINE u == uses_since[rest[j]]
    <3>1. u \in Nat /\ u >= n - j
      BY <2>2, <2>4
    <3> HIDE DEF u
    <3>2. (IF u < MaxEntries THEN u + 1 ELSE MaxEntries) \in Nat /\ (IF u < MaxEntries THEN u + 1 ELSE MaxEntries) >= n + 1 - j
      BY <1>1, <2>4, <3>1
    <3>3. QED BY <2>3, <3>2 DEF u
  <2>6. QED BY <2>1, <2>5
<1>11. \A j \in DOMAIN lru' : uses_since'[lru'[j]] >= Len(lru') - j
  <2> SUFFICES ASSUME NEW j \in DOMAIN lru' PROVE uses_since'[lru'[j]] >= Len(lru') - j
    OBVIOUS
  <2>1. CASE j \in 1 .. n
    BY <1>2, <1>7, <1>10, <2>1
  <2>2. CASE j \notin 1 .. n
    <3>1. moved /\ j = n + 1 /\ lru'[j] = k /\ Len(lru') = n + 1
      BY <1>2, <1>7, <2>2
    <3>2. QED BY <1>2, <1>6, <3>1
  <2>3. QED BY <2>1, <2>2
<1>12. \A j \in CacheKeys : uses_since'[j] < MaxEntries => \E a \in DOMAIN lru' : lru'[a] = j
  <2> SUFFICES ASSUME NEW j \in CacheKeys, uses_since'[j] < MaxEntries PROVE \E a \in DOMAIN lru' : lru'[a] = j
    OBVIOUS
  <2>1. CASE j = k
    <3>1. CASE moved
      BY <1>2, <1>7, <2>1, <3>1
    <3>2. CASE ~moved
      BY <1>2, <1>5, <1>7, <2>1, <3>2
    <3>3. QED BY <3>1, <3>2
  <2>2. CASE j # k
    <3>1. uses_since[j] < MaxEntries /\ uses_since'[j] = uses_since[j] + 1 /\ uses_since[j] \in Nat
      BY <1>1, <1>6, <2>2 DEF LruIInv
    <3>2. PICK a \in DOMAIN lru : lru[a] = j
      BY <3>1 DEF LruIInv
    <3>3. a \in 1 .. n + off /\ uses_since[j] >= (n + off) - a
      BY <1>0, <1>1, <1>3, <3>2 DEF LruIInv
    <3>4. a > off
      <4>1. CASE off = 1
        BY <1>1, <1>2, <1>3, <3>1, <3>3, <4>1
      <4>2. CASE off = 0
        BY <1>2, <3>3, <4>2
      <4>3. QED BY <4>1, <4>2
    <3>5. a - off \in 1 .. n /\ (a - off) + off = a
      BY <1>2, <3>3, <3>4
    <3>6. rest[a - off] = j
      BY <1>3, <3>2, <3>5
    <3>7. a - off \in DOMAIN lru' /\ lru'[a - off] = j
      BY <1>2, <1>7, <3>5, <3>6
    <3>8. QED BY <3>7
  <2>3. QED BY <2>1, <2>2
<1>13. Len(lru') <= MaxEntries
  BY <1>1, <1>2, <1>7
<1>14. QED BY <1>6, <1>7, <1>9, <1>11, <1>12, <1>13 DEF LruIInv

(* Every operation of the cache keeps the invariant. *)
LEMMA LruNextIInv ==
  ASSUME LruIInv, [ConnectorCacheNext]_connectorVars
  PROVE  LruIInv'
<1>1. CASE InvalidateConnectors
  BY <1>1, CacheAssumption DEF InvalidateConnectors, Forgotten, LruIInv
<1>2. CASE TtlTick \/ UNCHANGED connectorVars
  BY <1>2 DEF TtlTick, connectorVars, LruIInv
<1>3. QED BY <1>1, <1>2, HitIInv, ExpiredIInv, SetIInv DEF ConnectorCacheNext

(* The inductive invariant holds in every reachable state. *)
LEMMA LruInvariance == ConnectorCacheSpec => []LruIInv
BY LruInitIInv, LruNextIInv, PTL DEF ConnectorCacheSpec

(* The invariant implies what the cache promises. *)
LEMMA LruIsSound == LruIInv => EvictsLeastRecent
BY DEF LruIInv, EvictsLeastRecent, IsInjective, Contains

-----------------------------------------------------------------------------
(* The response cache: the inductive invariant.                            *)

ResponseTypes ==
  /\ knowledge \in Nat /\ purged \in Nat
  /\ response = [q \in Questions |-> response[q]]
  /\ asker = [a \in Askers |-> asker[a]]
  /\ \A a \in Askers :
       \/ asker[a] = NotAsking
       \/ /\ asker[a] = [pc |-> asker[a].pc, question |-> asker[a].question, shows |-> asker[a].shows]
          /\ asker[a].pc \in {"answering", "stored"}
          /\ asker[a].question \in Questions /\ asker[a].shows \in Nat
  /\ purge # NoPurge => purge.pc \in {"listed", "deleting"} /\ purge.since \in Nat

(* An answer that is there, to be found unless it was torn from its sentinel *)
There(q) == response[q] # NoResponse /\ q \notin torn

Findable == \A q \in Questions : There(q) /\ ~Storing(q) => q \in sentinel \cap outlives

(* What an invalidation that runs still has to delete, and what it cannot. *)
Purging ==
  purge # NoPurge =>
    \A q \in Questions :
      /\ Storing(q) => q \in torn
      /\ There(q) => q \in purge.todo
      /\ purge.pc = "deleting" => ~(There(q) /\ q = purge.question)

ResponseIInv == ResponseTypes /\ Findable /\ Purging /\ InvalidationPurges

-----------------------------------------------------------------------------
(* The response cache: the steps.                                          *)

(* The invariant holds for an empty cache. *)
LEMMA CacheInitIInv == CacheInit => ResponseIInv
BY DEF CacheInit, ResponseIInv, ResponseTypes, Findable, Purging, InvalidationPurges, There, Storing,
       NotAsking, NoPurge

(* Nothing new is there, and what an asker stores stays so. *)
LEMMA ForgetIInv ==
  ASSUME ResponseIInv, ResponseTypes', \A q \in Questions : Storing(q)' => Storing(q),
         \A q \in Questions : response'[q] \in {response[q], NoResponse},
         torn \subseteq torn', \A q \in Questions : Storing(q) /\ ~Storing(q)' => q \in torn' \/ q \in sentinel' \cap outlives',
         \A q \in Questions : q \in sentinel \cap outlives /\ There(q)' => q \in sentinel' \cap outlives',
         UNCHANGED purged, purge' \in {purge, NoPurge}
  PROVE  ResponseIInv'
<1>1. \A q \in Questions : There(q)' => There(q) /\ response'[q] = response[q]
  BY DEF There
<1>2. Findable'
  BY <1>1 DEF Findable, ResponseIInv, There
<1>3. Purging'
  BY <1>1 DEF Purging, ResponseIInv, There
<1>4. InvalidationPurges'
  BY <1>1 DEF InvalidationPurges, ResponseIInv, There
<1>5. QED BY <1>2, <1>3, <1>4 DEF ResponseIInv

(* An answer is stored, and its sentinel is still to come. *)
LEMMA StoreIInv ==
  ASSUME ResponseIInv, NEW a \in Askers, StoreResponse(a)
  PROVE  ResponseIInv'
<1>0. PICK q, r : /\ q \in Questions /\ q = asker[a].question
                  /\ r = [shows |-> asker[a].shows, late |-> asker[a].shows < purged]
  BY DEF StoreResponse, ResponseIInv, ResponseTypes, NotAsking
<1>1. /\ asker[a].pc = "answering" /\ asker[a] # NotAsking
      /\ asker' = [asker EXCEPT ![a] = [pc |-> "stored", question |-> q, shows |-> asker[a].shows]]
      /\ response' = [response EXCEPT ![q] = r]
      /\ outlives' = outlives \ {q}
      /\ torn' = IF purge = NoPurge THEN torn \ {q} ELSE torn \cup {q}
      /\ UNCHANGED <<knowledge, sentinel, purge, purged>>
  <2>1. asker[a].pc = "answering" /\ asker[a] # NotAsking
    BY DEF StoreResponse, NotAsking
  <2>2. asker' = [asker EXCEPT ![a] = [pc |-> "stored", question |-> q, shows |-> asker[a].shows]]
    BY <1>0, Zenon DEF StoreResponse
  <2>3. response' = [response EXCEPT ![q] = r]
    BY <1>0, Zenon DEF StoreResponse
  <2>4. /\ outlives' = outlives \ {q}
        /\ torn' = IF purge = NoPurge THEN torn \ {q} ELSE torn \cup {q}
        /\ UNCHANGED <<knowledge, sentinel, purge, purged>>
    BY <1>0 DEF StoreResponse
  <2>5. QED BY <2>1, <2>2, <2>3, <2>4, Zenon
<1>2. q \in Questions /\ asker[a].shows \in Nat /\ purged \in Nat
  BY <1>0, <1>1 DEF ResponseIInv, ResponseTypes
<1>3. ResponseTypes'
  BY <1>1, <1>2 DEF ResponseIInv, ResponseTypes
<1>4. /\ Storing(q)' /\ \A p \in Questions \ {q} : Storing(p)' <=> Storing(p)
      /\ \A p \in Questions \ {q} : There(p)' <=> There(p)
  <2>1. asker'[a] = [pc |-> "stored", question |-> q, shows |-> asker[a].shows] /\ asker[a].question = q
    BY <1>0, <1>1 DEF ResponseIInv, ResponseTypes
  <2>2. \A b \in Askers \ {a} : asker'[b] = asker[b]
    BY <1>1 DEF ResponseIInv, ResponseTypes
  <2>3. Storing(q)'
    BY <2>1 DEF Storing
  <2>4. \A p \in Questions \ {q} : Storing(p)' <=> Storing(p)
    BY <1>1, <2>1, <2>2 DEF Storing
  <2>5. \A p \in Questions \ {q} : There(p)' <=> There(p)
    BY <1>1 DEF There, ResponseIInv, ResponseTypes
  <2>6. QED BY <2>3, <2>4, <2>5
<1>5. Findable'
  BY <1>1, <1>4 DEF Findable, ResponseIInv
<1>6. Purging'
  BY <1>1, <1>4 DEF Purging, ResponseIInv, There
<1>7. InvalidationPurges'
  <2> SUFFICES ASSUME NEW p \in Questions, response'[p] # NoResponse, p \notin torn'
               PROVE  response'[p].shows >= purged \/ response'[p].late
    BY <1>1 DEF InvalidationPurges
  <2>1. CASE p = q
    <3>1. response'[p] = r
      BY <1>1, <1>2, <2>1 DEF ResponseIInv, ResponseTypes
    <3>2. r.shows = asker[a].shows /\ r.late = (asker[a].shows < purged)
      BY <1>0
    <3>3. asker[a].shows >= purged \/ asker[a].shows < purged
      BY <1>2
    <3>4. QED BY <3>1, <3>2, <3>3, Zenon
  <2>2. CASE p # q
    <3>1. There(p) /\ response'[p] = response[p]
      BY <1>1, <1>4, <2>2 DEF There, ResponseIInv, ResponseTypes
    <3>2. QED BY <3>1 DEF There, ResponseIInv, InvalidationPurges
  <2>3. QED BY <2>1, <2>2
<1>8. QED BY <1>3, <1>5, <1>6, <1>7 DEF ResponseIInv

(* Every step of an asker or an invalidation keeps the invariant. *)
LEMMA ResponseNextIInv ==
  ASSUME ResponseIInv, [ResponseCacheNext]_cacheVars
  PROVE  ResponseIInv'
<1>1. CASE ChangeKnowledge \/ UNCHANGED cacheVars
  <2>1. UNCHANGED <<response, sentinel, outlives, asker, purge, purged, torn>> /\ knowledge' \in Nat
    BY <1>1 DEF ChangeKnowledge, cacheVars, ResponseIInv, ResponseTypes
  <2>2. QED
    BY <2>1 DEF ResponseIInv, ResponseTypes, Findable, Purging, InvalidationPurges, There, Storing
<1>2. CASE BeginPurge
  <2>1. /\ purge' = [pc |-> "listed", todo |-> sentinel, since |-> knowledge]
        /\ torn' = torn \cup {asker[a].question : a \in {b \in Askers : asker[b].pc = "stored"}}
        /\ UNCHANGED <<knowledge, response, sentinel, outlives, asker, purged>>
    BY <1>2 DEF BeginPurge
  <2>2. \A q : Storing(q)' <=> Storing(q)
    BY <2>1 DEF Storing
  <2>3. \A q : Storing(q) => q \in torn'
    BY <2>1 DEF Storing
  <2>4. \A q : There(q)' => There(q) /\ ~Storing(q)
    BY <2>1, <2>3 DEF There
  <2>5. purge'.pc = "listed" /\ purge'.todo = sentinel /\ purge'.since = knowledge
    BY <2>1
  <2>6. ResponseTypes'
    BY <2>1, <2>5 DEF ResponseIInv, ResponseTypes
  <2>7. Findable'
    BY <2>1, <2>2, <2>4 DEF ResponseIInv, Findable
  <2>8. Purging'
    BY <2>2, <2>3, <2>4, <2>5 DEF ResponseIInv, Findable, Purging
  <2>9. InvalidationPurges'
    BY <2>1, <2>4 DEF ResponseIInv, InvalidationPurges, There
  <2>10. QED BY <2>6, <2>7, <2>8, <2>9 DEF ResponseIInv
<1>3. CASE PurgeSentinel
  <2>1. /\ purge.pc = "deleting" /\ purge # NoPurge
        /\ sentinel' = sentinel \ {purge.question}
        /\ purge' = [pc |-> "listed", todo |-> purge.todo, since |-> purge.since]
        /\ UNCHANGED <<knowledge, response, outlives, asker, purged, torn>>
    BY <1>3 DEF PurgeSentinel, NoPurge
  <2>2. (\A q : Storing(q)' <=> Storing(q)) /\ (\A q : There(q)' <=> There(q))
    BY <2>1 DEF Storing, There
  <2>3. purge'.pc = "listed" /\ purge'.todo = purge.todo /\ purge'.since = purge.since
    BY <2>1
  <2>4. ResponseTypes'
    BY <2>1, <2>3 DEF ResponseIInv, ResponseTypes
  <2>5. Findable'
    BY <2>1, <2>2 DEF ResponseIInv, Findable, Purging
  <2>6. Purging'
    BY <2>1, <2>2, <2>3 DEF ResponseIInv, Purging
  <2>7. InvalidationPurges'
    BY <2>1 DEF ResponseIInv, InvalidationPurges
  <2>8. QED BY <2>4, <2>5, <2>6, <2>7 DEF ResponseIInv
<1>4. CASE EndPurge
  <2>1. /\ purge.pc = "listed" /\ purge # NoPurge /\ purge.todo = {} /\ purged' = purge.since /\ purge' = NoPurge
        /\ UNCHANGED <<knowledge, response, sentinel, outlives, asker, torn>>
    BY <1>4 DEF EndPurge, NoPurge
  <2>2. \A q \in Questions : ~There(q)
    BY <2>1 DEF ResponseIInv, Purging
  <2>3. ResponseTypes'
    BY <2>1 DEF ResponseIInv, ResponseTypes
  <2>4. Findable' /\ Purging' /\ InvalidationPurges'
    BY <2>1, <2>2 DEF Findable, Purging, InvalidationPurges, There
  <2>5. QED BY <2>3, <2>4 DEF ResponseIInv
<1>5. CASE PurgeFails
  <2>1. purge' = NoPurge /\ UNCHANGED <<knowledge, response, sentinel, outlives, asker, purged, torn>>
    BY <1>5 DEF PurgeFails
  <2>2. \A q : Storing(q)' <=> Storing(q)
    BY <2>1 DEF Storing
  <2>3. ResponseTypes'
    BY <2>1 DEF ResponseIInv, ResponseTypes
  <2>4. QED BY <2>1, <2>2, <2>3, ForgetIInv
<1>6. ASSUME NEW a \in Askers, NEW q \in Questions, AskModel(a, q) PROVE ResponseIInv'
  <2>1. /\ asker' = [asker EXCEPT ![a] = [pc |-> "answering", question |-> q, shows |-> knowledge]]
        /\ asker[a] = NotAsking
        /\ UNCHANGED <<knowledge, response, sentinel, outlives, purge, purged, torn>>
    BY <1>6 DEF AskModel
  <2>2. \A p : Storing(p)' <=> Storing(p)
    BY <2>1 DEF Storing, NotAsking, ResponseIInv, ResponseTypes
  <2>3. ResponseTypes'
    BY <2>1 DEF ResponseIInv, ResponseTypes
  <2>4. QED BY <2>1, <2>2, <2>3, ForgetIInv DEF There
<1>7. ASSUME NEW a \in Askers, StoreSentinel(a) PROVE ResponseIInv'
  <2> DEFINE q == asker[a].question
  <2>1. /\ asker[a].pc = "stored" /\ asker' = [asker EXCEPT ![a] = NotAsking]
        /\ sentinel' = sentinel \cup {q} /\ outlives' = outlives \cup {q}
        /\ UNCHANGED <<knowledge, response, purge, purged, torn>>
    BY <1>7 DEF StoreSentinel
  <2>2. \A p : (Storing(p)' => Storing(p)) /\ (Storing(p) /\ ~Storing(p)' => p = q)
    BY <2>1 DEF Storing, NotAsking, ResponseIInv, ResponseTypes
  <2>3. ResponseTypes'
    BY <2>1 DEF ResponseIInv, ResponseTypes
  <2>4. QED BY <2>1, <2>2, <2>3, ForgetIInv DEF There
<1>8. ASSUME NEW a \in Askers, StoreFails(a) PROVE ResponseIInv'
  <2> DEFINE q == asker[a].question
  <2>1. /\ asker' = [asker EXCEPT ![a] = NotAsking]
        /\ torn' = IF asker[a].pc = "stored" THEN torn \cup {q} ELSE torn
        /\ UNCHANGED <<knowledge, response, sentinel, outlives, purge, purged>>
    BY <1>8 DEF StoreFails
  <2>2. \A p : (Storing(p)' => Storing(p)) /\ (Storing(p) /\ ~Storing(p)' => p = q /\ asker[a].pc = "stored")
    BY <2>1 DEF Storing, NotAsking, ResponseIInv, ResponseTypes
  <2>3. ResponseTypes'
    BY <2>1 DEF ResponseIInv, ResponseTypes
  <2>4. QED BY <2>1, <2>2, <2>3, ForgetIInv DEF There
<1>9. ASSUME NEW q \in Questions, PurgeResponse(q) PROVE ResponseIInv'
  <2>1. /\ purge.pc = "listed" /\ purge # NoPurge
        /\ purge' = [pc |-> "deleting", todo |-> purge.todo \ {q}, since |-> purge.since, question |-> q]
        /\ response' = IF q \in sentinel THEN [response EXCEPT ![q] = NoResponse] ELSE response
        /\ UNCHANGED <<knowledge, sentinel, outlives, asker, purged, torn>>
    BY <1>9 DEF PurgeResponse, NoPurge
  <2>2. /\ \A p : Storing(p)' <=> Storing(p)
        /\ \A p \in Questions : There(p)' => There(p) /\ response'[p] = response[p]
    BY <2>1 DEF Storing, There, ResponseIInv, ResponseTypes
  <2>3. ~There(q)'
    BY <2>1, <2>2 DEF ResponseIInv, ResponseTypes, Findable, Purging, There
  <2>4. purge'.pc = "deleting" /\ purge'.todo = purge.todo \ {q} /\ purge'.since = purge.since /\ purge'.question = q
    BY <2>1
  <2>5. ResponseTypes'
    BY <2>1, <2>4 DEF ResponseIInv, ResponseTypes
  <2>6. Findable'
    BY <2>1, <2>2 DEF ResponseIInv, Findable
  <2>7. Purging'
    BY <2>1, <2>2, <2>3, <2>4 DEF ResponseIInv, Purging
  <2>8. InvalidationPurges'
    BY <2>1, <2>2 DEF ResponseIInv, InvalidationPurges, There
  <2>9. QED BY <2>5, <2>6, <2>7, <2>8 DEF ResponseIInv
<1>10. ASSUME NEW q \in Questions, ResponseExpires(q) \/ InvalidateKey(q) PROVE ResponseIInv'
  <2>1. response' = [response EXCEPT ![q] = NoResponse]
        /\ UNCHANGED <<knowledge, sentinel, outlives, asker, purge, purged, torn>>
    BY <1>10 DEF ResponseExpires, InvalidateKey
  <2>2. \A p : Storing(p)' <=> Storing(p)
    BY <2>1 DEF Storing
  <2>3. ResponseTypes' /\ \A p \in Questions : response'[p] \in {response[p], NoResponse}
    BY <2>1 DEF ResponseIInv, ResponseTypes
  <2>4. QED BY <2>1, <2>2, <2>3, ForgetIInv
<1>11. ASSUME NEW q \in Questions, SentinelExpires(q) PROVE ResponseIInv'
  <2>1. /\ sentinel' = sentinel \ {q} /\ (response[q] # NoResponse => q \notin outlives)
        /\ UNCHANGED <<knowledge, response, outlives, asker, purge, purged, torn>>
    BY <1>11 DEF SentinelExpires
  <2>2. \A p : Storing(p)' <=> Storing(p)
    BY <2>1 DEF Storing
  <2>3. ResponseTypes'
    BY <2>1 DEF ResponseIInv, ResponseTypes
  <2>4. QED BY <2>1, <2>2, <2>3, ForgetIInv DEF There
<1>12. QED
  BY <1>1, <1>2, <1>3, <1>4, <1>5, <1>6, <1>7, <1>8, <1>9, <1>10, <1>11, StoreIInv DEF ResponseCacheNext

(* The inductive invariant holds in every reachable state. *)
LEMMA ResponseInvariance == ResponseCacheSpec => []ResponseIInv
BY CacheInitIInv, ResponseNextIInv, PTL DEF ResponseCacheSpec

(* The invariant implies what the response cache promises. *)
LEMMA ResponsesAreSound == ResponseIInv => ResponsesAreIndexed /\ InvalidationPurges
BY DEF ResponseIInv, Findable, ResponsesAreIndexed, There


-----------------------------------------------------------------------------
(* The services together.                                                  *)

(* A service steps as it would alone, whichever of them runs. *)
LEMMA ServicesStepAsAlone ==
  ASSUME [PlatformNext]_platformVars
  PROVE  /\ [AccessNext]_accessVars
         /\ [PushNext]_pushvars
         /\ [PullNext]_pullVars
         /\ [ConnectorCacheNext]_connectorVars
         /\ [ResponseCacheNext]_cacheVars
         /\ [RatesNext]_rateVars
         /\ [WebhookNext]_webhookVars
         /\ [ChannelsNext]_channelVars
         /\ [DocumentsNext]_docVars
         /\ [TuningNext]_tuningVars
         /\ [QuotasNext]_quotaVars
<1>1. CASE UNCHANGED platformVars
  BY <1>1 DEF platformVars
<1>2. CASE PlatformNext
  BY <1>2 DEF PlatformNext, Step, OthersRest
<1>3. QED BY <1>1, <1>2

(* So does what is kept of users and their work. *)
LEMMA RecordsStepAsAlone ==
  ASSUME [PlatformNext]_platformVars
  PROVE  /\ [ErasureNext]_erasureVars
         /\ [MemoriesNext]_memoryVars
         /\ [AssessNext]_assessVars
         /\ [UsageNext]_usageVars
         /\ [ConversationsNext]_conversationVars
         /\ [GoalsNext]_goalVars
         /\ [FeedbackNext]_feedbackVars
         /\ [SpacesNext]_spaceVars
         /\ [VersionsNext]_versionVars
         /\ [PluginNext]_pluginVars
<1>1. CASE UNCHANGED platformVars
  BY <1>1 DEF platformVars
<1>2. CASE PlatformNext
  BY <1>2 DEF PlatformNext, Step, OthersRest
<1>3. QED BY <1>1, <1>2

(* And so does what the agents plan and conclude. *)
LEMMA ThinkingStepsAsAlone ==
  ASSUME [PlatformNext]_platformVars
  PROVE  /\ [PlansNext]_planVars
         /\ [DeliberationNext]_deliberationVars
         /\ [ReasoningNext]_reasoningVars
<1>1. CASE UNCHANGED platformVars
  BY <1>1 DEF platformVars
<1>2. CASE PlatformNext
  BY <1>2 DEF PlatformNext, Step, OthersRest
<1>3. QED BY <1>1, <1>2

(* A service behaves as it would alone. *)
LEMMA ServicesBehaveAsAlone ==
  PlatformSpec => /\ AccessSpec
                  /\ PushSpec
                  /\ PullSpec
                  /\ ConnectorCacheSpec
                  /\ ResponseCacheSpec
                  /\ RatesSpec
                  /\ WebhookSpec
                  /\ ChannelsSpec
                  /\ DocumentsSpec
                  /\ TuningSpec
                  /\ QuotasSpec
<1>1. PlatformInit =>
        /\ AccessInit /\ PushInit /\ PullInit /\ LruInit /\ CacheInit
        /\ RateInit /\ WebhookInit /\ ChannelsInit
        /\ DocumentsInit /\ TuningInit /\ QuotasInit
  BY DEF PlatformInit
<1>2. [PlatformNext]_platformVars => /\ [AccessNext]_accessVars
                                     /\ [PushNext]_pushvars
                                     /\ [PullNext]_pullVars
                                     /\ [ConnectorCacheNext]_connectorVars
                                     /\ [ResponseCacheNext]_cacheVars
                                     /\ [RatesNext]_rateVars
                                     /\ [WebhookNext]_webhookVars
                                     /\ [ChannelsNext]_channelVars
                                     /\ [DocumentsNext]_docVars
                                     /\ [TuningNext]_tuningVars
                                     /\ [QuotasNext]_quotaVars
  BY ServicesStepAsAlone
<1>3. QED BY <1>1, <1>2, PTL DEF PlatformSpec, AccessSpec, PushSpec, PullSpec,
                                 ConnectorCacheSpec, ResponseCacheSpec, RatesSpec,
                                 WebhookSpec, ChannelsSpec,
                                 DocumentsSpec, TuningSpec, QuotasSpec

(* So does what is kept of users and their work. *)
LEMMA RecordsBehaveAsAlone ==
  PlatformSpec => /\ ErasureSpec
                  /\ MemoriesSpec
                  /\ AssessSpec
                  /\ UsageSpec
                  /\ ConversationsSpec
                  /\ GoalsSpec
                  /\ FeedbackSpec
                  /\ SpacesSpec
                  /\ VersionsSpec
                  /\ PluginSpec
<1>1. PlatformInit => /\ ErasureInit
                       /\ MemoriesInit
                       /\ AssessInit
                       /\ UsageInit
                       /\ ConversationsInit
                       /\ GoalsInit
                       /\ FeedbackInit
                       /\ SpacesInit
                       /\ VersionsInit
                       /\ PluginInit
  BY DEF PlatformInit
<1>2. [PlatformNext]_platformVars => /\ [ErasureNext]_erasureVars
                                     /\ [MemoriesNext]_memoryVars
                                     /\ [AssessNext]_assessVars
                                     /\ [UsageNext]_usageVars
                                     /\ [ConversationsNext]_conversationVars
                                     /\ [GoalsNext]_goalVars
                                     /\ [FeedbackNext]_feedbackVars
                                     /\ [SpacesNext]_spaceVars
                                     /\ [VersionsNext]_versionVars
                                     /\ [PluginNext]_pluginVars
  BY RecordsStepAsAlone
<1>3. QED BY <1>1, <1>2, PTL DEF PlatformSpec, ErasureSpec, MemoriesSpec,
                                 AssessSpec, UsageSpec, ConversationsSpec,
                                 GoalsSpec, FeedbackSpec, SpacesSpec, VersionsSpec,
                                 PluginSpec

(* And so does what the agents plan and conclude. *)
LEMMA ThinkingBehavesAsAlone ==
  PlatformSpec => /\ PlansSpec
                  /\ DeliberationSpec
                  /\ ReasoningSpec
<1>1. PlatformInit => /\ PlansInit
                       /\ DeliberationInit
                       /\ ReasoningInit
  BY DEF PlatformInit
<1>2. [PlatformNext]_platformVars => /\ [PlansNext]_planVars
                                     /\ [DeliberationNext]_deliberationVars
                                     /\ [ReasoningNext]_reasoningVars
  BY ThinkingStepsAsAlone
<1>3. QED BY <1>1, <1>2, PTL DEF PlatformSpec, PlansSpec, DeliberationSpec,
                                 ReasoningSpec

(* services/api_keys.py, services/tenant_admin.py: whatever sessions       *)
(* overlap, what was deactivated or revoked stays so, a rotated key is off *)
(* when its successor exists; and a tenant keeps an administrator unless   *)
(* one gives the role up, loses it to a single sign-on (api/sso.py), or    *)
(* two work at a time.                                                     *)
THEOREM AccessStaysGoverned == PlatformSpec => []AccessIsGoverned
<1>1. AccessIInv => AccessIsGoverned
  <2>1. SUFFICES ASSUME AccessIInv PROVE AccessIsGoverned
    OBVIOUS
  <2>2. RevocationsLast
    BY <2>1 DEF AccessIInv, ColumnsFit, RevocationsLast
  <2>3. TenantKeepsAnAdmin
    BY <2>1 DEF AccessIInv, AdminStays, TenantKeepsAnAdmin
  <2>4. RotationReplaces
    BY <2>1 DEF AccessIInv, ColumnsFit, RotationReplaces, KnownRows
  <2>5. QED BY <2>2, <2>3, <2>4 DEF AccessIsGoverned
<1>2. QED BY <1>1, ServicesBehaveAsAlone, AccessInvariance, PTL

(* edge/sync.py: however pushes and pulls overlap, fail in the middle and  *)
(* are cut by a restart, an entry that is settled has reached the center,  *)
(* the attempts of an entry are within its budget, and no update behind    *)
(* the watermark is missing but one that was published during a pull.      *)
THEOREM EdgeStaysInSync == PlatformSpec => []EdgeIsInSync
<1>1. PushIInv /\ PullIInv => EdgeIsInSync
  BY PushIsSound, PullIsComplete DEF EdgeIsInSync, WhenRunning
<1>2. QED BY <1>1, ServicesBehaveAsAlone, PushInvariance, PullInvariance, PTL

(* connectors/cache.py, cache/response_cache.py: a connector's cache never  *)
(* exceeds its size and never evicts what was used lately, and an          *)
(* invalidation that completes leaves no answer older than itself, however *)
(* stores, expiries and failures of the backend fall between its steps.    *)
THEOREM CachesStaySound == PlatformSpec => []CachesAreSound
<1>1. LruIInv /\ ResponseIInv => CachesAreSound
  BY LruIsSound, ResponsesAreSound DEF CachesAreSound, WhenRunning
<1>2. QED BY <1>1, ServicesBehaveAsAlone, LruInvariance, ResponseInvariance, PTL

(* core/rate_limit.py, infra/redis_rate_limiter.py: in no window, aligned  *)
(* or not, does the memory of an instance let more than twice its limit    *)
(* through, also of what Redis refused, nor Redis for all instances more   *)
(* than its limit and what came at the time of another request; and who    *)
(* waits as long as a refusal says finds the window over, and has waited   *)
(* at most a second too long.  And                                         *)
(* services/tenant_admin.py: however requests create and patch the row of  *)
(* a tenant's settings, it has of each field what was last committed, and  *)
(* reports add up however many calls and users come while they are made.   *)
THEOREM LimitsStayHeld == PlatformSpec => []LimitsHold
<1>1. RateIInv /\ QuotaIInv => LimitsHold
  BY RatesAreSound, QuotasStaySound DEF LimitsHold, WhenRunning
<1>2. QED BY <1>1, ServicesBehaveAsAlone, RateInvariance, QuotasInvariance, PTL

(* services/webhook.py, websocket/manager.py, streaming, operations/       *)
(* notification.py: what the row of a delivery says of its attempts is so, *)
(* however sessions overlap and end; sockets that come and go are found    *)
(* under their keys and get nothing but what is for them; a stream gives   *)
(* its events in order, without a gap; and of a notice every approver gets *)
(* one mail at most, the webhook one post at most for each approver, and   *)
(* nobody anything if it is reported as not sent.                          *)
THEOREM MessagesStayDelivered == PlatformSpec => []MessagesAreDelivered
<1>1. WebhookIInv /\ ChannelIInv => MessagesAreDelivered
  BY DeliveriesStaySound, ChannelsStaySound DEF MessagesAreDelivered, WhenRunning
<1>2. QED BY <1>1, ServicesBehaveAsAlone, WebhookInvariance, ChannelsInvariance, PTL

(* services/ingestion.py, rag/ingest.py, api/documents.py, infra/          *)
(* background_worker.py, scale/fine_tuning.py: however uploads, tasks of   *)
(* the pool and deletions fail, are cut off and tried again, a document    *)
(* that can be retrieved has all its chunks, and none is left of one that  *)
(* was deleted or waits; and a cancellation that was accepted lasts, in    *)
(* memory and in the row, a completed training went through all its steps, *)
(* and a row reports no stage that was not reached.                        *)
THEOREM JobsStaySound == PlatformSpec => []JobsAreSound
<1>1. DocumentIInv /\ TuningIInv => JobsAreSound
  BY DocumentsAreSound, JobsAreHonest DEF JobsAreSound, WhenRunning
<1>2. QED BY <1>1, ServicesBehaveAsAlone, DocumentsInvariance, TuningInvariance, PTL

(* What users have said, wanted, rated, shared, uploaded and configured    *)
(* stays so while the service that keeps it runs.                          *)
LEMMA UserDataStaysKept ==
  ASSUME ConversationIInv, GoalsIInv, FeedbackIInv, SpaceIInv, VersionsIInv, PluginIInv
  PROVE  UserDataIsKept
<1>1. ConversationsAreSound
  BY ConversationIInvSound
<1>2. GoalsAreKept
  BY GoalsIInvSound, GoalAssumption
<1>3. FeedbackIsSound
  BY FeedbackIInvSound
<1>4. SpacesAreShared
  BY SpaceIInvSound
<1>5. VersionsAreKept
  BY VersionsIInvSound, VersionAssumption
<1>6. PluginsAreSound
  BY PluginIInvSound
<1>7. QED BY <1>1, <1>2, <1>3, <1>4, <1>5, <1>6 DEF UserDataIsKept, WhenRunning

(* compliance/gdpr.py, services/memory.py, compliance,                    *)
(* services/metrics.py, services/analytics.py and what keeps the data of   *)
(* users (conversations, goals, feedback, shared spaces, versions of       *)
(* documents, plugins): in whatever order requests, turns, flushes and     *)
(* commits come, an export misses nothing that was there before it, no     *)
(* memory is forgotten but the faint and the surplus ones, a report says   *)
(* what its findings say, a call is counted once, and messages, goals,     *)
(* ratings, members, versions and settings are what has been committed.    *)
THEOREM RecordsStaySound == PlatformSpec => []RecordsAreSound
<1>1. ErasureIInv /\ MemoryIInv /\ AssessIInv /\ UsageIInv /\ UserDataIsKept => RecordsAreSound
  <2>1. ASSUME ErasureIInv, MemoryIInv, AssessIInv, UsageIInv, UserDataIsKept PROVE RecordsAreSound
    <3>1. ErasureIsSound
      BY <2>1, ErasureIInvSound
    <3>2. MemoriesAreKept
      BY <2>1, MemoryIInvSound, MemoryAssumption
    <3>3. ReportsAreSound
      BY <2>1, AssessIInvSound
    <3>4. UsageIsSound
      BY <2>1, UsageIInvSound, UsageAssumption
    <3>5. QED BY <2>1, <3>1, <3>2, <3>3, <3>4 DEF RecordsAreSound, WhenRunning
  <2>2. QED BY <2>1
<1>2. ConversationIInv /\ GoalsIInv /\ FeedbackIInv /\ SpaceIInv /\ VersionsIInv /\ PluginIInv => UserDataIsKept
  BY UserDataStaysKept
<1>3. QED
  BY <1>1, <1>2, RecordsBehaveAsAlone, ErasureInvariance, MemoriesInvariance, AssessInvariance,
     UsageInvariance, ConversationsInvariance, GoalsInvariance, FeedbackInvariance,
     SpacesInvariance, VersionsInvariance, PluginInvariance, PTL

(* goal_planner.py, agent/thinking, reasoning/strategies: a plan begins no *)
(* task before those it waits for, or says that it is stuck, and its row   *)
(* is what a review made of it; a verdict is as severe as the worst that   *)
(* was found, the majority and the best branches win, and an outage is     *)
(* worth the defaults: nothing, but 40 and one sample's share for a vote   *)
(* and 50 for a tree.                                                      *)
THEOREM ThinkingStaysSound == PlatformSpec => []ThinkingIsSound
<1>1. PlansIInv /\ DeliberationIInv /\ ReasoningIInv => ThinkingIsSound
  <2>1. PlansIInv => PlansAreSound
    BY PlansIInvSound
  <2>2. DeliberationIInv => DeliberationIsSound
    BY DeliberationIInvSound, DeliberationAssumption
  <2>3. ReasoningIInv => ReasoningIsSound
    BY ReasoningIInvSound
  <2>4. QED BY <2>1, <2>2, <2>3 DEF ThinkingIsSound, WhenRunning
<1>2. QED BY <1>1, ThinkingBehavesAsAlone, PlansInvariance, DeliberationInvariance, ReasoningInvariance, PTL

(* compliance: a finding is true when a report adds it, whatever was       *)
(* committed since its statements, as long as the tables are still those   *)
(* that it depends on: the documents for their classification, the number  *)
(* of entries for the uptime.                                              *)
THEOREM FindingsStayJustified == PlatformSpec => FindingsAreJustified
<1>1. AssessIInv /\ LabelsAreFresh =>
        [Count /\ Len(findings') > Len(findings) =>
           Justified(Last(findings').name, Last(findings').verdict)]_assessVars
  <2>1. SUFFICES ASSUME AssessIInv, LabelsAreFresh, Count, Len(findings') > Len(findings)
                 PROVE  Justified(Last(findings').name, Last(findings').verdict)
    OBVIOUS
  <2>2. findings' # findings
    BY <2>1
  <2>3. QED BY <2>1, <2>2, FindingsFollow
<1>2. QED BY <1>1, RecordsBehaveAsAlone, AssessInvariance, PTL DEF FindingsAreJustified
=============================================================================
