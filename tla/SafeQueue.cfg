SPECIFICATION QueueSpec
CONSTANTS
  Thread = {t1, t2, t3}
  Task = {x, y}
  NoTask = NoTask
  NoThread = NoThread
  QueueBound = 2
INVARIANTS QueueTypeOK PopHasTask NoSleepOnWork
PROPERTIES ImplementsFIFO
