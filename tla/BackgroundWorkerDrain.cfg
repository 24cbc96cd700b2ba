SPECIFICATION FairWorkerSpec
CONSTANTS
  Tasks = {t1, t2}
  Slots = {w1, w2}
  MaxWorkers = 1
  MaxRetries = 2
  NoTask = NoTask
CHECK_DEADLOCK FALSE
PROPERTIES
  DrainEnds
