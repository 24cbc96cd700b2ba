SPECIFICATION ChatSpec
CONSTANTS
  tab1 = tab1
  tab2 = tab2
  post = post
  k1 = k1
  k2 = k2
  Conversations = {k1}
  Sessions = {post}
  Sockets = {}
  UsedBy <- MCOneUsedBy
  MaxHistory = 20
  MaxTurns = 12
  MaxFaults = 0
CHECK_DEADLOCK FALSE
INVARIANTS
  NumbersIncrease
