SPECIFICATION FairSpec
CONSTANTS
  Thread = {m, w1, w2, w3}
  Task = {start, other}
  NoTask = NoTask
  NoThread = NoThread
  QueueBound = 1
  Main = m
  Worker = {w1, w2, w3}
  StartTask = start
INVARIANTS TypeOK TaskRunsOnce
PROPERTIES StartTaskTaken
CHECK_DEADLOCK FALSE
