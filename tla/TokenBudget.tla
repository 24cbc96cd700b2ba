----------------------------- MODULE TokenBudget -----------------------------
(***************************************************************************)
(* The PersistentBudgetManager: one token_budgets row of a tenant, checked *)
(* before and charged after a model call, in one database session as its   *)
(* docstring shows, by workers that share only the database.               *)
(*                                                                         *)
(* The check reads the row without a lock and reserves nothing.  A reset   *)
(* it applies on a new day changes the object in the session; the UPDATE   *)
(* is sent with the next query or the commit, of the columns that have     *)
(* changed and with the values computed at the check.                      *)
(***************************************************************************)
EXTENDS Integers, FiniteSets

CONSTANTS
  Workers,       \* requests that may be using the budget at a time
  DailyLimit, MonthlyLimit,
  DaysPerMonth,
  LastDay        \* bound: the clock stops there

ASSUME BudgetAssumption ==
  /\ DailyLimit \in Nat \ {0} /\ MonthlyLimit \in Nat \ {0}
  /\ DaysPerMonth \in Nat \ {0} /\ LastDay \in Nat
  /\ IsFiniteSet(Workers)

VARIABLES
  today,
  budget,      \* the committed row
  worker,      \* what each worker's session has read and will write
  used,        \* history: committed token_usage records of each day
  used_month,  \* history: and of each month
  reset_stale  \* history: a reset was written over a row changed since its check

budgetVars == <<today, budget, worker, used, used_month, reset_stale>>

Month(d) == d \div DaysPerMonth

NoBudget == [date |-> -1, month |-> -1, daily |-> 0, monthly |-> 0]

Resting == [pc |-> "idle"]

(* Mutant of ApplyResets: the month is reset with every day. *)
ApplyDailyResets(record, d) ==
  [record EXCEPT !.date = d, !.month = Month(d),
                 !.daily = IF record.date # d THEN 0 ELSE @,
                 !.monthly = IF record.date # d THEN 0 ELSE @]

(* Mutant of ApplyResets: a new day within the month leaves the counter. *)
ApplyMonthlyResets(record, d) ==
  [record EXCEPT !.date = d, !.month = Month(d),
                 !.daily = IF record.month # Month(d) THEN 0 ELSE @,
                 !.monthly = IF record.month # Month(d) THEN 0 ELSE @]

ApplyResets(record, d) ==
  [record EXCEPT !.date = d, !.month = Month(d),
                 !.daily = IF record.date # d THEN 0 ELSE @,
                 !.monthly = IF record.month # Month(d) THEN 0 ELSE @]

(* Mutant of Affordable: the month is not looked at. *)
AffordableToday(record) == DailyLimit - record.daily >= 1

(* The estimate is one token, in both limits. *)
Affordable(record) == DailyLimit - record.daily >= 1 /\ MonthlyLimit - record.monthly >= 1

BudgetInit ==
  /\ today = 0
  /\ budget = NoBudget
  /\ worker = [w \in Workers |-> Resting]
  /\ used = [d \in 0 .. LastDay |-> 0]
  /\ used_month = [m \in 0 .. Month(LastDay) |-> 0]
  /\ reset_stale = FALSE

(* The row is locked by an insert, an update or FOR UPDATE. *)
RowLocked == \E w \in Workers : worker[w].pc \in {"inserted", "recorded"}

(* async_check_budget() or async_get_usage() on an existing row.  A request *)
(* that goes on will record; one that is refused or only reads commits.     *)
CheckBudget(w) ==
  LET fresh == ApplyResets(budget, today) IN
  /\ worker[w] = Resting
  /\ budget # NoBudget
  /\ \E pc \in (IF Affordable(fresh) THEN {"allowed", "done"} ELSE {"done"}) :
       worker' = [worker EXCEPT ![w] = [pc |-> pc, seen |-> budget, day |-> today]]
  /\ UNCHANGED <<today, budget, used, used_month, reset_stale>>

(* The check finds no row and will insert one. *)
CheckMissing(w) ==
  /\ worker[w] = Resting
  /\ budget = NoBudget
  /\ worker' = [worker EXCEPT ![w] = [pc |-> "missing"]]
  /\ UNCHANGED <<today, budget, used, used_month, reset_stale>>

(* Mutant of InsertBudget: nothing tells a second insert that it is late. *)
InsertFirst(w) ==
  /\ worker[w].pc = "missing"
  /\ ~RowLocked
  /\ budget = NoBudget
  /\ worker' = [worker EXCEPT ![w] = [pc |-> "inserted",
                  version |-> ApplyResets(NoBudget, today)]]
  /\ UNCHANGED <<today, budget, used, used_month, reset_stale>>

(* The insert waits for another's; if that commits, the unique index       *)
(* refuses this one and the request fails.                                 *)
InsertBudget(w) ==
  /\ worker[w].pc = "missing"
  /\ ~RowLocked
  /\ worker' = [worker EXCEPT ![w] =
       IF budget = NoBudget
       THEN [pc |-> "inserted", version |-> ApplyResets(NoBudget, today)]
       ELSE Resting]
  /\ UNCHANGED <<today, budget, used, used_month, reset_stale>>

(* The row that w read, after the resets of its day. *)
Fresh(w) == ApplyResets(worker[w].seen, worker[w].day)

(* The flush: the UPDATE has the columns that the resets have changed. *)
Flushed(w) ==
  LET Written(column) ==
        IF Fresh(w)[column] # worker[w].seen[column] THEN Fresh(w)[column] ELSE budget[column]
  IN [date |-> Written("date"), month |-> Written("month"),
      daily |-> Written("daily"), monthly |-> Written("monthly")]

(* The flush writes a reset of a row that has changed since w read it. *)
Stale(w) == Fresh(w) # worker[w].seen /\ budget # worker[w].seen

Charged(record) ==
  LET fresh == ApplyResets(record, today) IN
  [date |-> fresh.date, month |-> fresh.month,
   daily |-> fresh.daily + 1, monthly |-> fresh.monthly + 1]

(* Mutant of RecordUsage: the row is read without FOR UPDATE. *)
RecordUnlocked(w) ==
  /\ \/ /\ worker[w].pc = "allowed"
        /\ worker' = [worker EXCEPT ![w] = [pc |-> "recorded", day |-> today,
                        version |-> Charged(Flushed(w))]]
        /\ reset_stale' = (reset_stale \/ Stale(w))
     \/ /\ worker[w].pc = "inserted"
        /\ worker' = [worker EXCEPT ![w] = [pc |-> "recorded", day |-> today,
                        version |-> Charged(worker[w].version)]]
        /\ UNCHANGED reset_stale
  /\ UNCHANGED <<today, budget, used, used_month>>

(* async_record_usage(): the pending changes are flushed, the row is locked *)
(* and read again, reset if need be, and charged.                           *)
RecordUsage(w) ==
  /\ \/ /\ worker[w].pc = "allowed"
        /\ ~RowLocked
        /\ worker' = [worker EXCEPT ![w] = [pc |-> "recorded", day |-> today,
                        version |-> Charged(Flushed(w))]]
        /\ reset_stale' = (reset_stale \/ Stale(w))
     \/ /\ worker[w].pc = "inserted"
        /\ worker' = [worker EXCEPT ![w] = [pc |-> "recorded", day |-> today,
                        version |-> Charged(worker[w].version)]]
        /\ UNCHANGED reset_stale
  /\ UNCHANGED <<today, budget, used, used_month>>

CommitUsage(w) ==
  /\ worker[w].pc = "recorded"
  /\ budget' = worker[w].version
  /\ used' = [used EXCEPT ![worker[w].day] = @ + 1]
  /\ used_month' = [used_month EXCEPT ![Month(worker[w].day)] = @ + 1]
  /\ worker' = [worker EXCEPT ![w] = Resting]
  /\ UNCHANGED <<today, reset_stale>>

(* A session that recorded nothing commits the row it has inserted, or the *)
(* reset it has applied.                                                   *)
CommitCheck(w) ==
  /\ \/ /\ worker[w].pc = "inserted"
        /\ budget' = worker[w].version
        /\ UNCHANGED reset_stale
     \/ /\ worker[w].pc = "done"
        /\ ~RowLocked
        /\ budget' = Flushed(w)
        /\ reset_stale' = (reset_stale \/ Stale(w))
  /\ worker' = [worker EXCEPT ![w] = Resting]
  /\ UNCHANGED <<today, used, used_month>>

(* The model call or anything else fails: the session is rolled back. *)
RollbackBudget(w) ==
  /\ worker[w] # Resting
  /\ worker' = [worker EXCEPT ![w] = Resting]
  /\ UNCHANGED <<today, budget, used, used_month, reset_stale>>

NextDay ==
  /\ today < LastDay
  /\ today' = today + 1
  /\ UNCHANGED <<budget, worker, used, used_month, reset_stale>>

Settle(w) == InsertBudget(w) \/ RecordUsage(w) \/ CommitUsage(w) \/ CommitCheck(w)

BudgetNext ==
  \/ \E w \in Workers : CheckBudget(w) \/ CheckMissing(w) \/ Settle(w) \/ RollbackBudget(w)
  \/ NextDay

BudgetSpec == BudgetInit /\ [][BudgetNext]_budgetVars

-----------------------------------------------------------------------------
BudgetRows == [date : -1 .. LastDay, month : -1 .. Month(LastDay), daily : Nat, monthly : Nat]

(* Every variable holds values of the shape the code gives it, and a lock  *)
(* has one holder.                                                         *)
BudgetTypeOK ==
  /\ today \in 0 .. LastDay
  /\ budget \in BudgetRows
  /\ used \in [0 .. LastDay -> Nat]
  /\ used_month \in [0 .. Month(LastDay) -> Nat]
  /\ reset_stale \in BOOLEAN
  /\ \A w \in Workers :
       /\ worker[w].pc \in {"idle", "missing", "inserted", "allowed", "done", "recorded"}
       /\ worker[w].pc \in {"inserted", "recorded"} => worker[w].version \in BudgetRows

(* Unless a stale reset went over it, the committed row shows exactly the  *)
(* usage records of its day and month, however workers interleave, roll    *)
(* back, and cross midnight.                                               *)
CountersMatchUsage ==
  reset_stale \/ budget = NoBudget \/
    (budget.daily = used[budget.date] /\ budget.monthly = used_month[budget.month])

(* Nothing is reserved: the limits are overrun, but by no more than the    *)
(* requests that may be between check and record.                          *)
OverrunIsBounded ==
  /\ budget.daily < DailyLimit + Cardinality(Workers)
  /\ budget.monthly < MonthlyLimit + Cardinality(Workers)

(* The limits and the counters hold up to what may be in flight. *)
BudgetIsSound == BudgetTypeOK /\ CountersMatchUsage /\ OverrunIsBounded

(* Every request gets through: the row lock and the insert of another are  *)
(* released, one way or the other.                                         *)
BudgetRequestsEnd == \A w \in Workers : worker[w] # Resting ~> worker[w] = Resting

(* "All mutating operations use SELECT ... FOR UPDATE" so that budgets     *)
(* "remain correct under multiple workers": no recorded usage is lost.     *)
UsageIsCounted == budget = NoBudget \/ budget.daily = used[budget.date]
=============================================================================
