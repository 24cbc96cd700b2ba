SPECIFICATION FairChatSpec
CONSTANTS
  tab1 = tab1
  tab2 = tab2
  post = post
  k1 = k1
  k2 = k2
  Conversations <- MCConversations
  Sessions <- MCSessions
  Sockets <- MCSockets
  UsedBy <- MCUsedBy
  MaxHistory = 4
  MaxTurns = 4
  MaxFaults = 1
CHECK_DEADLOCK FALSE
INVARIANTS
  StoredTurnsAreSound
  AnswersAreKept
  ShortConversationsAreNumbered
PROPERTIES
  EveryTurnEnds
