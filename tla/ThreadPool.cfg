CONSTANTS
  w1 = w1
  w2 = w2
  c1 = c1
  c2 = c2
  t1 = t1
  t2 = t2
  Workers <- MCWorkers
  Clients <- MCClients
  Tasks <- MCTasks
  Owner = c1
  NoTask = NoTask
  NoClient = NoClient
  MaxSpurious = 1
SPECIFICATION FairSpec
INVARIANTS
  TypeOK
  NoTaskTwice
  NoTaskLost
  RunningExact
  NoWorkerForgotten
  DestructorDrains
PROPERTIES
  TasksExecuted
  DestructorReturns
CHECK_DEADLOCK FALSE
