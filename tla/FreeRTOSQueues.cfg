SPECIFICATION Spec
CONSTANTS
  Tasks = {t1, t2, t3}
  t1 = t1
  t2 = t2
  t3 = t3
  q1 = q1
  q2 = q2
  sem = sem
  mtx = mtx
  Idle = Idle
  NoTask = NoTask
  EventLists <- MCEventLists
  configMAX_PRIORITIES = 4
  TickRange = 4
  OverflowRange = 2
  Scenarios <- QueueScenarios
  MaxPended = 1
  MaxLate = 1
  MaxNotified = 1
  DataQueues = {q1, q2}
  Semaphores = {sem}
  Mutexes = {mtx}
  uxLength <- MCLength
  Messages = {1, 2}
  NoMessage = NoMessage
  MaxLocked = 2
INVARIANTS TopPriorityRuns NoLostWakeUp MutualExclusion InheritanceHolds NoStrayBoost
PROPERTIES TimeoutHonest ImplementsQueue
