SPECIFICATION BudgetSpec
CONSTANTS
  Workers = {w1, w2}
  DailyLimit = 2
  MonthlyLimit = 3
  DaysPerMonth = 2
  LastDay = 1
CHECK_DEADLOCK FALSE
INVARIANTS
  UsageIsCounted
